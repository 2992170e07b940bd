------------------------------ MODULE Lifecycle ------------------------------
(***************************************************************************)
(* Setting up, unloading and restarting a configuration entry: __init__.py *)
(* and controller.py, with the key exchanges that may arrive at any await. *)
(*                                                                         *)
(* Home Assistant sets an entry up and unloads it one at a time, so these  *)
(* coroutines do not overlap; the appliances' requests come in wherever    *)
(* they wait, and so do the forms that change its device list.  An action  *)
(* runs from one await to the next.                                        *)
(***************************************************************************)

CONSTANT Devices   \* the devices the entry may list

ASSUME DevicesAssumption == Devices # {}

VARIABLES
  phase,             \* the await the entry's setup or unload is in, if any
  listed,            \* the entry's device list
  serving,           \* the devices of the controller built last
  runtime_data,      \* the entry has a controller
  views,             \* the shared Home Assistant endpoints are registered
  http_runner,       \* the entry's own listener is open
  registered,        \* those with notifier and listener
  tasks,             \* the notifier and poll tasks run
  lan_key_invalid,   \* devices whose flag is set, of this controller
  issues,            \* persistent: devices with a Repairs issue
  right_key,         \* external: appliances that still use the configured LAN key
  exchanged,         \* history: devices that exchanged keys with this controller
  early,             \* history: those that did so before they were registered
  dropped,           \* history: devices that left the list under this controller,
                     \*   both until an exchange settles the issue and the flag
  late               \* history: devices refused since they left the list

controllerVars == <<runtime_data, views, http_runner, serving, registered, tasks>>
keyVars == <<lan_key_invalid, issues, exchanged, early, late>>
vars == <<phase, listed, controllerVars, keyVars, right_key, dropped>>

-----------------------------------------------------------------------------
(* async_setup_entry and async_start.                                      *)

\* A new controller with new devices; the callback settings are refused, the
\* listener cannot be opened, or requests are served from now on.
Setup ==
  /\ phase = "unloaded"
  /\ runtime_data' = TRUE
  /\ serving' = listed
  /\ lan_key_invalid' = {} /\ exchanged' = {} /\ early' = {} /\ dropped' = {}
  /\ \/ phase' = "unwinding" /\ UNCHANGED <<views, http_runner>>
     \/ phase' = "starting" /\ http_runner' = TRUE /\ UNCHANGED views
     \/ phase' = "starting" /\ views' = TRUE /\ UNCHANGED http_runner
  /\ UNCHANGED <<listed, registered, tasks, issues, late, right_key>>

\* Mutant: the tasks are created with the first device.
RegisterWithTasks(d) ==
  /\ phase = "starting" /\ d \in serving
  /\ registered' = registered \cup {d}
  /\ \/ registered' = serving /\ phase' = "forwarding" /\ tasks' = TRUE
     \/ UNCHANGED phase /\ tasks' = TRUE
  /\ UNCHANGED <<listed, runtime_data, views, http_runner, serving, keyVars, right_key, dropped>>

\* The callback address of the next device is known; after the last device
\* the tasks are created and the platforms are set up.
RegisterDevice(d) ==
  /\ phase = "starting" /\ d \in serving \ registered
  /\ registered' = registered \cup {d}
  /\ IF registered' = serving
     THEN phase' = "forwarding" /\ tasks' = TRUE
     ELSE UNCHANGED <<phase, tasks>>
  /\ UNCHANGED <<listed, runtime_data, views, http_runner, serving, keyVars, right_key, dropped>>

\* No callback address, or a platform fails: the setup is undone.
SetupFails ==
  /\ phase \in {"starting", "forwarding"}
  /\ phase' = "unwinding"
  /\ UNCHANGED <<listed, controllerVars, keyVars, right_key, dropped>>

SetupDone ==
  /\ phase = "forwarding"
  /\ phase' = "loaded"
  /\ UNCHANGED <<listed, controllerVars, keyVars, right_key, dropped>>

-----------------------------------------------------------------------------
(* async_unload_entry and async_stop, also after a failed setup.           *)

Unload ==
  /\ phase = "loaded"
  /\ phase' = "unloading"
  /\ UNCHANGED <<listed, controllerVars, keyVars, right_key, dropped>>

UnloadRefused ==
  /\ phase = "unloading"
  /\ phase' = "loaded"
  /\ UNCHANGED <<listed, controllerVars, keyVars, right_key, dropped>>

\* Mutant: a failed setup forgets to cancel the tasks it started.
StopAfterUnload ==
  /\ phase \in {"unloading", "unwinding"}
  /\ phase' = "stopping"
  /\ registered' = {}
  /\ tasks' = (phase = "unwinding" /\ tasks)
  /\ UNCHANGED <<listed, runtime_data, views, http_runner, serving, keyVars, right_key, dropped>>

\* The platforms are unloaded: listeners removed, tasks cancelled.
Stop ==
  /\ phase \in {"unloading", "unwinding"}
  /\ phase' = "stopping"
  /\ registered' = {}
  /\ tasks' = FALSE
  /\ UNCHANGED <<listed, runtime_data, views, http_runner, serving, keyVars, right_key, dropped>>

\* The tasks have ended and the listener is closed.
Stopped ==
  /\ phase = "stopping"
  /\ phase' = "unloaded"
  /\ runtime_data' = FALSE
  /\ http_runner' = FALSE
  /\ UNCHANGED <<listed, views, serving, registered, tasks, keyVars, right_key, dropped>>

\* async_remove_entry: the entry is deleted, with the issues of those it lists.
Remove ==
  /\ phase = "unloaded"
  /\ phase' = "removed"
  /\ issues' = issues \ listed
  /\ UNCHANGED <<listed, controllerVars, lan_key_invalid, exchanged, early, late, right_key,
                 dropped>>

\* Home Assistant restarts; only the entry and the persistent issues survive.
Restart ==
  /\ phase' = IF phase = "removed" THEN phase ELSE "unloaded"
  /\ runtime_data' = FALSE /\ views' = FALSE /\ http_runner' = FALSE
  /\ registered' = {} /\ tasks' = FALSE
  /\ lan_key_invalid' = {} /\ exchanged' = {} /\ early' = {} /\ dropped' = {}
  /\ UNCHANGED <<listed, serving, issues, late, right_key>>

-----------------------------------------------------------------------------
(* The forms.                                                              *)

\* Mutant: the issues of removed devices are left to the reload.
SaveDevicesOnly(new) ==
  /\ phase # "removed"
  /\ new # {} /\ new # listed
  /\ listed' = new
  /\ late' = late \ new
  /\ dropped' = dropped \cup (listed \ new)
  /\ UNCHANGED <<phase, controllerVars, lan_key_invalid, issues, exchanged, early, right_key>>

\* _save_devices on another list: the issues of removed devices are deleted at
\* once, the controller goes on with the old list until the entry is reloaded
\* (when, is ConfigEntries' matter).
SaveDevices(new) ==
  /\ phase # "removed"
  /\ new # {} /\ new # listed
  /\ listed' = new
  /\ issues' = issues \ (listed \ new)
  /\ late' = late \ (listed \cup new)
  /\ dropped' = dropped \cup (listed \ new)
  /\ UNCHANGED <<phase, controllerVars, lan_key_invalid, exchanged, early, right_key>>

-----------------------------------------------------------------------------
(* Key exchanges.                                                          *)

\* A request of an appliance reaches this entry's handlers.
Served == http_runner \/ (views /\ runtime_data)

\* Mutant: a valid exchange reports a change of the flag only.
IssuesAfterChange(d) ==
  IF d \notin registered THEN issues
  ELSE IF d \in right_key THEN issues \ (lan_key_invalid \cap {d})
  ELSE issues \cup ({d} \ lan_key_invalid)

\* _handle_property_update of lan_key_invalid, when a listener is registered:
\* called for every valid exchange, for a refused one if the flag was clear.
IssuesAfter(d) ==
  IF d \notin registered THEN issues
  ELSE IF d \in right_key THEN issues \ {d}
  ELSE issues \cup ({d} \ lan_key_invalid)

\* An exchange after which issue and flag agree, whatever they were: a valid one,
\* or a refused one that found the flag clear.
Settles(d) == d \in registered /\ (d \in right_key \/ d \notin lan_key_invalid)

\* key_exchange_handler and update_key for device d.
KeyExchange(d) ==
  /\ Served /\ d \in serving
  /\ lan_key_invalid' = IF d \in right_key THEN lan_key_invalid \ {d}
                                           ELSE lan_key_invalid \cup {d}
  /\ issues' = IssuesAfter(d)
  /\ exchanged' = exchanged \cup {d}
  /\ early' = IF d \notin registered THEN early \cup {d}
              ELSE IF Settles(d) THEN early \ {d} ELSE early
  /\ dropped' = IF Settles(d) THEN dropped \ {d} ELSE dropped
  /\ late' = IF d \notin listed \cup right_key THEN late \cup {d} ELSE late
  /\ UNCHANGED <<phase, listed, controllerVars, right_key>>

\* The appliance is given another LAN key, or the entry learns the new one.
ChangeKey(d) ==
  /\ right_key' = IF d \in right_key THEN right_key \ {d} ELSE right_key \cup {d}
  /\ UNCHANGED <<phase, listed, controllerVars, keyVars, dropped>>

-----------------------------------------------------------------------------
Init ==
  /\ phase = "unloaded"
  /\ listed \in (SUBSET Devices) \ {{}}
  /\ runtime_data = FALSE /\ views = FALSE /\ http_runner = FALSE
  /\ serving = {} /\ registered = {} /\ tasks = FALSE
  /\ lan_key_invalid = {} /\ issues = {} /\ exchanged = {} /\ early = {} /\ late = {}
  /\ dropped = {}
  /\ right_key = Devices

Next ==
  \/ Setup \/ SetupFails \/ SetupDone
  \/ Unload \/ UnloadRefused \/ Stop \/ Stopped \/ Remove \/ Restart
  \/ \E new \in SUBSET Devices : SaveDevices(new)
  \/ \E d \in Devices : RegisterDevice(d) \/ KeyExchange(d) \/ ChangeKey(d)

Spec == Init /\ [][Next]_vars
-----------------------------------------------------------------------------
FlagsOK ==
  /\ runtime_data \in BOOLEAN /\ views \in BOOLEAN
  /\ http_runner \in BOOLEAN /\ tasks \in BOOLEAN

DevicesOK ==
  /\ phase \in {"unloaded", "starting", "forwarding", "loaded", "unloading", "unwinding",
                "stopping", "removed"}
  /\ listed \subseteq Devices /\ listed # {}
  /\ serving \subseteq Devices /\ registered \subseteq serving
  /\ tasks => registered = serving
  /\ lan_key_invalid \subseteq exchanged /\ early \subseteq exchanged
  /\ exchanged \subseteq Devices /\ issues \subseteq Devices /\ right_key \subseteq Devices
  /\ dropped \subseteq Devices /\ late \subseteq Devices

\* The types; tasks run only once every device is registered, and only devices
\* that exchanged keys with this controller have a flag.
TypeOK == FlagsOK /\ DevicesOK

\* Nothing of an entry outlives it, and an entry that is loaded is whole: no
\* task, listener or controller remains wherever the setup failed, and no
\* device is without one after it succeeded (async_setup_entry, async_stop).
WholeOrGone ==
  /\ phase \in {"unloaded", "removed"} =>
       ~tasks /\ ~http_runner /\ ~runtime_data /\ registered = {}
  /\ phase = "loaded" => tasks /\ Served /\ registered = serving

\* A loaded entry shows a Repairs issue for exactly the devices whose last key
\* exchange was refused, also for those with an issue from before a restart.
\* Excepted are devices that exchanged keys before they were registered, or left
\* the list, and since then were only refused again, which _handle_property_update
\* is not told of (update_key).
IssueFollowsExchange ==
  phase = "loaded" =>
    \A d \in exchanged \ (early \cup dropped) : d \in issues <=> d \in lan_key_invalid

\* No issue outlives its device in the list, or the entry, over restarts and
\* failed setups: only a device that the old controller refused after it had left
\* the list has one nobody deletes (_save_devices, async_remove_entry).
IssuesOfListed == issues \subseteq (IF phase = "removed" THEN {} ELSE listed) \cup late

\* The same for every device: README.md says an issue is raised when a device
\* reports another LAN key ID, and cleared by a successful exchange.
IssueAlwaysTruthful ==
  phase = "loaded" =>
    \A d \in exchanged \ dropped : d \in issues <=> d \in lan_key_invalid
=============================================================================
