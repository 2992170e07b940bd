---------------------------- MODULE ConfigEntries ----------------------------
(***************************************************************************)
(* The device lists of the configuration entries: config_flow.py's forms   *)
(* and DHCP discovery change them, and every entry that is set up has a    *)
(* controller (and request handlers) built from the list it found then.    *)
(*                                                                         *)
(* A form's submission is handled without interruption, but the form was   *)
(* filled from what the list was when it opened.  Home Assistant sets up,  *)
(* unloads and reloads an entry under its lock, and calls the update       *)
(* listener of a changed entry only while it has one: from the end of a    *)
(* successful setup to the end of the unload.  An unload may be refused:   *)
(* the entry then keeps its controller and its listener, and the reload    *)
(* that asked for it is over.                                              *)
(*                                                                         *)
(* A device list is a function from the devices (by MAC address) to their  *)
(* IP addresses; an entry without devices does not exist.  Of an entry's  *)
(* options only their changes are modelled.                                *)
(***************************************************************************)
EXTENDS Naturals

CONSTANTS
  Entries,    \* the entries a user may create
  Devices,    \* MAC addresses
  Addresses,  \* IP addresses
  Found,      \* what a search of an account may find, nothing included
  Reach,      \* the <<device, address>> pairs users enter and the network gives out
  Tuned,      \* the entries whose options the user changes, or that are disabled
  NoForm      \* no device selection form is open

DeviceLists == UNION {[s -> Addresses] : s \in SUBSET Devices}
NoDevices == [d \in {} |-> d]
Forms == [entry : Entries, devices : DeviceLists]

ASSUME FoundAssumption == Found \subseteq DeviceLists
ASSUME ReachAssumption == Reach \subseteq Devices \X Addresses
ASSUME TunedAssumption == Tuned \subseteq Entries
ASSUME NoFormAssumption == NoForm \notin Forms

VARIABLES
  data,     \* entry.data[CONF_DEVICES], persistent
  disabled, \* entries the user disabled
  state,    \* where each entry's setup is: "unloaded" also if it failed, and
            \* "refused" when it is still loaded after a refused unload
  runtime,  \* the devices of the entry's controller, if it has one
  outdated, \* history: entries whose options changed under their controller,
            \* until a reload begins
  reloads,  \* entries with a reload scheduled
  form,     \* the form of select_devices, if open: its _cloud_setup
  unit,     \* external: the address each appliance has now
  missed    \* history: entries a form changed while they were being set up,
            \* until that fails or a reload begins

controllers == <<state, runtime, outdated>>
vars == <<data, disabled, controllers, reloads, form, unit, missed>>

Exists(e) == data[e] # NoDevices
HasListener(e) == state[e] \in {"loaded", "refused", "unloading"}
Listed(e, d) == d \in DOMAIN data[e]

\* What happened under the controller of an entry no longer matters.
HistoryEnds(e) == outdated' = outdated \ {e} /\ missed' = missed \ {e}

\* Mutant: discovery, which is no reconfiguration, does not say whose the list is.
ConflictsWithItself(e, list) ==
  \/ \E d1, d2 \in DOMAIN list : d1 # d2 /\ list[d1] = list[d2]
  \/ \E f \in Entries, d \in DOMAIN list :
       Listed(f, d) \/ \E g \in DOMAIN data[f] : data[f][g] = list[d]

\* Mutant: only the device's own name is looked up in the other entries.
ConflictsByName(e, list) ==
  \/ \E d1, d2 \in DOMAIN list : d1 # d2 /\ list[d1] = list[d2]
  \/ \E f \in Entries \ {e}, d \in DOMAIN list : Listed(f, d)

\* _conflicts: within the list, and with the lists of the other entries.
Conflicts(e, list) ==
  \/ \E d1, d2 \in DOMAIN list : d1 # d2 /\ list[d1] = list[d2]
  \/ \E f \in Entries \ {e}, d \in DOMAIN list :
       Listed(f, d) \/ \E g \in DOMAIN data[f] : data[f][g] = list[d]

-----------------------------------------------------------------------------
(* Forms.                                                                  *)

\* _save_devices of an existing entry: the update listener, if there is one,
\* schedules a reload.
Save(e, list) ==
  /\ Exists(e) /\ ~Conflicts(e, list)
  /\ data' = [data EXCEPT ![e] = list]
  /\ reloads' = IF HasListener(e) /\ list # data[e] THEN reloads \cup {e} ELSE reloads
  /\ missed' = IF state[e] = "setting_up" /\ list # data[e] THEN missed \cup {e} ELSE missed
  /\ UNCHANGED <<disabled, controllers, unit>>

\* A new entry: Home Assistant sets it up.
Create(e, list) ==
  /\ ~Exists(e) /\ ~Conflicts(e, list)
  /\ data' = [data EXCEPT ![e] = list]
  /\ UNCHANGED <<disabled, controllers, reloads, unit, missed>>

\* async_step_manual, for an entry or a new one.
AddDevice(e, d, a) ==
  /\ ~Listed(e, d)
  /\ LET list == [x \in DOMAIN data[e] \cup {d} |-> IF x = d THEN a ELSE data[e][x]]
     IN  Save(e, list) \/ Create(e, list)
  /\ UNCHANGED form

\* async_step_edit_ip, on the list as it is when submitted.
EditAddress(e, d, a) ==
  /\ Listed(e, d)
  /\ Save(e, [data[e] EXCEPT ![d] = a])
  /\ UNCHANGED form

\* async_step_manage_devices and async_step_cloud open the selection form on
\* the entry's list, overwritten by the devices found in the account.
OpenForm(e, found) ==
  /\ form = NoForm
  /\ DOMAIN data[e] \cup DOMAIN found # {}
  /\ form' = [entry |-> e,
              devices |-> [d \in DOMAIN data[e] \cup DOMAIN found |->
                             IF d \in DOMAIN found THEN found[d] ELSE data[e][d]]]
  /\ UNCHANGED <<data, disabled, controllers, reloads, unit, missed>>

\* async_step_select_devices: what the form knew of the selected devices.
SubmitForm(selected) ==
  /\ form # NoForm
  /\ selected # {} /\ selected \subseteq DOMAIN form.devices
  /\ LET list == [d \in selected |-> form.devices[d]]
     IN  Save(form.entry, list) \/ Create(form.entry, list)
  /\ form' = NoForm

CloseForm ==
  /\ form # NoForm
  /\ form' = NoForm
  /\ UNCHANGED <<data, disabled, controllers, reloads, unit, missed>>

-----------------------------------------------------------------------------
(* DHCP discovery.                                                         *)

\* Mutant: an address that is saved already is stored again.
CorrectsAnyway(e, d) ==
  e \notin disabled /\ Listed(e, d) /\ ~Conflicts(e, [data[e] EXCEPT ![d] = unit[d]])

\* Where async_step_dhcp stores the address it was called with.
Corrects(e, d) ==
  /\ e \notin disabled /\ Listed(e, d) /\ unit[d] # data[e][d]
  /\ ~Conflicts(e, [data[e] EXCEPT ![d] = unit[d]])

\* Mutant: an entry without a listener is not reloaded.
DhcpListenerOnly(d) ==
  \E e \in Entries :
    /\ Corrects(e, d)
    /\ data' = [data EXCEPT ![e][d] = unit[d]]
    /\ reloads' = IF HasListener(e) THEN reloads \cup {e} ELSE reloads
    /\ UNCHANGED <<disabled, controllers, form, unit, missed>>

\* async_step_dhcp with the device's address: reloads through the listener or,
\* without one, explicitly.
Dhcp(d) ==
  \E e \in Entries :
    /\ Corrects(e, d)
    /\ data' = [data EXCEPT ![e][d] = unit[d]]
    /\ reloads' = reloads \cup {e}
    /\ UNCHANGED <<disabled, controllers, form, unit, missed>>

-----------------------------------------------------------------------------
(* The settings of an entry.                                               *)

\* Mutant: a plain OptionsFlow leaves the reload to the listener.
SaveOptionsListenerOnly(e) ==
  /\ Exists(e)
  /\ outdated' = IF state[e] \in {"setting_up", "loaded"} THEN outdated \cup {e} ELSE outdated
  /\ reloads' = IF HasListener(e) THEN reloads \cup {e} ELSE reloads
  /\ UNCHANGED <<data, disabled, state, runtime, form, unit, missed>>

\* async_step_init of the options flow, with other settings: it reloads through
\* the listener or, without one, automatically.
SaveOptions(e) ==
  /\ Exists(e)
  /\ outdated' = IF state[e] \in {"setting_up", "loaded"} THEN outdated \cup {e} ELSE outdated
  /\ reloads' = reloads \cup {e}
  /\ UNCHANGED <<data, disabled, state, runtime, form, unit, missed>>

\* The user disables an entry, or enables it again; Home Assistant reloads it,
\* when there is something to unload.
SetDisabled(e) ==
  /\ Exists(e)
  /\ disabled' = IF e \in disabled THEN disabled \ {e} ELSE disabled \cup {e}
  /\ reloads' = IF state[e] = "unloaded" THEN reloads ELSE reloads \cup {e}
  /\ UNCHANGED <<data, controllers, form, unit, missed>>

-----------------------------------------------------------------------------
(* Home Assistant and the controllers.                                     *)

\* HisenseController is built from the list, when the entry is new, reloaded,
\* or its setup is tried again.
StartSetup(e) ==
  /\ Exists(e) /\ e \notin disabled /\ state[e] = "unloaded"
  /\ state' = [state EXCEPT ![e] = "setting_up"]
  /\ runtime' = [runtime EXCEPT ![e] = data[e]]
  /\ reloads' = reloads \ {e}
  /\ HistoryEnds(e)
  /\ UNCHANGED <<data, disabled, form, unit>>

SetupDone(e) ==
  /\ state[e] = "setting_up"
  /\ state' = [state EXCEPT ![e] = "loaded"]
  /\ UNCHANGED <<data, disabled, runtime, outdated, reloads, form, unit, missed>>

SetupFails(e) ==
  /\ state[e] = "setting_up"
  /\ state' = [state EXCEPT ![e] = "unloaded"]
  /\ runtime' = [runtime EXCEPT ![e] = NoDevices]
  /\ HistoryEnds(e)
  /\ UNCHANGED <<data, disabled, reloads, form, unit>>

\* A scheduled reload gets the entry's lock.
Reload(e) ==
  /\ e \in reloads /\ state[e] \in {"loaded", "refused"}
  /\ state' = [state EXCEPT ![e] = "unloading"]
  /\ reloads' = reloads \ {e}
  /\ HistoryEnds(e)
  /\ UNCHANGED <<data, disabled, runtime, form, unit>>

\* Mutant: the unloaded entry keeps its runtime_data.
UnloadedKeepsController(e) ==
  /\ state[e] = "unloading"
  /\ state' = [state EXCEPT ![e] = "unloaded"]
  /\ UNCHANGED <<data, disabled, runtime, outdated, reloads, form, unit, missed>>

\* async_unload_entry, when its platforms unload.
Unloaded(e) ==
  /\ state[e] = "unloading"
  /\ state' = [state EXCEPT ![e] = "unloaded"]
  /\ runtime' = [runtime EXCEPT ![e] = NoDevices]
  /\ UNCHANGED <<data, disabled, outdated, reloads, form, unit, missed>>

\* When they do not: the old controller goes on, and no reload is left.
UnloadRefused(e) ==
  /\ state[e] = "unloading"
  /\ state' = [state EXCEPT ![e] = "refused"]
  /\ UNCHANGED <<data, disabled, runtime, outdated, reloads, form, unit, missed>>

\* The entry is deleted, with the form open on it.
Remove(e) ==
  /\ Exists(e) /\ state[e] \in {"loaded", "refused", "unloaded"}
  /\ data' = [data EXCEPT ![e] = NoDevices]
  /\ state' = [state EXCEPT ![e] = "unloaded"]
  /\ runtime' = [runtime EXCEPT ![e] = NoDevices]
  /\ disabled' = disabled \ {e}
  /\ reloads' = reloads \ {e}
  /\ HistoryEnds(e)
  /\ form' = IF form # NoForm /\ form.entry = e THEN NoForm ELSE form
  /\ UNCHANGED unit

\* The network gives an appliance another address that is free.
Move(d, a) ==
  /\ a \notin {unit[x] : x \in Devices}
  /\ unit' = [unit EXCEPT ![d] = a]
  /\ UNCHANGED <<data, disabled, controllers, reloads, form, missed>>

-----------------------------------------------------------------------------
Init ==
  /\ data = [e \in Entries |-> NoDevices]
  /\ disabled = {} /\ outdated = {}
  /\ state = [e \in Entries |-> "unloaded"]
  /\ runtime = [e \in Entries |-> NoDevices]
  /\ reloads = {} /\ missed = {}
  /\ form = NoForm
  /\ unit \in [Devices -> Addresses]
  /\ \A c, d \in Devices : <<d, unit[d]>> \in Reach /\ (c # d => unit[c] # unit[d])

Forget(e) == Remove(e) \/ CloseForm
Discovery == \E d \in Devices : Dhcp(d)
Housekeeping ==
  \E e \in Entries : \/ StartSetup(e) \/ SetupDone(e) \/ SetupFails(e)
                     \/ Reload(e) \/ Unloaded(e) \/ UnloadRefused(e)
Next ==
  \/ \E e \in Entries, r \in Reach : AddDevice(e, r[1], r[2]) \/ EditAddress(e, r[1], r[2])
  \/ \E e \in Entries, found \in Found : OpenForm(e, found)
  \/ \E selected \in SUBSET Devices : SubmitForm(selected)
  \/ \E e \in Entries : Forget(e)
  \/ \E e \in Tuned : SaveOptions(e) \/ SetDisabled(e)
  \/ \E r \in Reach : Move(r[1], r[2])
  \/ Discovery
  \/ Housekeeping

Spec == Init /\ [][Next]_vars

\* Home Assistant's discovery reports an appliance's address sooner or later.
FairSpec == Spec /\ \A d \in Devices : WF_vars(Dhcp(d))
-----------------------------------------------------------------------------
\* The types; an entry has a controller exactly while it is not unloaded.
TypeOK ==
  /\ data \in [Entries -> DeviceLists]
  /\ disabled \subseteq Entries /\ outdated \subseteq Entries
  /\ state \in [Entries -> {"unloaded", "setting_up", "loaded", "refused", "unloading"}]
  /\ runtime \in [Entries -> DeviceLists]
  /\ \A e \in Entries : runtime[e] = NoDevices <=> state[e] = "unloaded"
  /\ reloads \subseteq Entries /\ missed \subseteq Entries
  /\ form \in Forms \cup {NoForm}
  /\ unit \in [Devices -> Addresses]

\* "Each device must have a unique MAC address and IP address across all
\* entries" (README.md), however old the list is a form is submitted with, and
\* whatever discovery reported meanwhile (_conflicts and each of its callers).
AddressesUnique ==
  \A e, f \in Entries : \A c \in DOMAIN data[e], d \in DOMAIN data[f] :
    <<e, c>> # <<f, d>> => c # d /\ data[e][c] # data[f][d]

\* A loaded entry whose controller is not built from its present list and
\* options has a reload scheduled, unless a form saved the list during the
\* setup or an unload was refused since (async_step_dhcp's explicit reload,
\* automatic_reload, the listener).
ControllerFollowsEntry ==
  \A e \in Entries :
    state[e] = "loaded" /\ e \notin reloads =>
      e \notin outdated /\ (e \in missed \/ runtime[e] = data[e])

\* The same without the exception: "Save selection; the existing update
\* listener performs one reload" (_save_devices).
ReloadsAfterSave ==
  \A e \in Entries : state[e] = "loaded" /\ e \notin reloads => runtime[e] = data[e]

\* The configured devices whose appliance has another address now.
Strayed == {d \in Devices : \E e \in Entries : Listed(e, d) /\ data[e][d] # unit[d]}
Saved(d) == LET e == CHOOSE e \in Entries : Listed(e, d) IN data[e][d]

\* Some of them have exchanged their addresses among each other.
Rotated ==
  \E s \in SUBSET Strayed :
    s # {} /\ {Saved(d) : d \in s} = {unit[d] : d \in s}

\* Discovery is never stuck: among any strayed addresses that were not exchanged
\* there is one whose correction conflicts with no other (_conflicts refuses
\* the new address of a device while another entry still lists it).
SomeAddressCorrectable ==
  Strayed # {} /\ disabled = {} /\ ~Rotated =>
    \E d \in Strayed, e \in Entries : Corrects(e, d)

\* Each correction is progress: the device called for is no longer strayed, no
\* other device strays, no exchange comes of it, and no other correction that
\* was possible is prevented (async_step_dhcp, _conflicts).
DiscoveryProgresses ==
  [][\A d \in Devices : Dhcp(d) =>
       /\ d \in Strayed /\ Strayed' = Strayed \ {d}
       /\ Rotated' => Rotated
       /\ \A c \in Strayed', e \in Entries : Corrects(e, c) => Corrects(e, c)']_vars

\* When the appliances stay at their addresses and users leave the entries
\* alone, none of them disabled, discovery finds an order to correct every saved
\* address, also where one device took over the old address of another, unless
\* they exchanged their addresses (async_step_dhcp, _conflicts).
RecoversAddresses ==
  /\ <>[][Discovery \/ Housekeeping]_vars
  /\ <>[](disabled = {} /\ ~Rotated)
  => <>[](Strayed = {})
=============================================================================
