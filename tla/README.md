# A verification project for the Hisense Air Conditioner integration

The repository is a Home Assistant custom integration that talks to Hisense
(Ayla) air conditioners, FGL units and humidifiers over the local network. The
appliances are HTTP *clients*: the integration registers its own address with
each appliance, and the appliance then calls back to exchange keys, to fetch
queued commands and to report property values. All of the integration runs on
one asyncio event loop. Paths below are relative to
`src/custom_components/hisense_aircon/` unless they begin with `src/`.

## 1. Inventory

| Component | State | Operations | Hard part |
| --- | --- | --- | --- |
| `aircon.py` `Device`, `AcDevice` | property store, `_known_properties`, `_reported_properties`, priority queue, insertion counter, `_pending_status`, `_pending_control` and its count, sequence numbers, `available`, `lan_key_invalid` | `queue_command`, `queue_status`, `update_property`, `update_key`, `is_update_valid`, the updaters queued with commands | calls of entities, buttons, polls and the appliance interleave in any order |
| `control_value.py` | none: functions on one packed integer | ten getters, ten setters, `clear_up_change_flags` | overlapping masks, widths |
| `notifier.py` `Notifier` | per device: `last_timestamp`, `failures`, `next_attempt`, `reconnect`, `notification`; `_running` | `_run_device`, `_next_request`, `_perform_request`, `_record_failure`, `notify`, `stop` | wakeups, timeouts, backoff, reconnects during a request |
| `query_handlers.py`, `config.py` | session keys, CBC encryptor and decryptor | `key_exchange_handler`, `command_handler`, `property_update_handler` | messages lost, repeated, overtaken; key exchanges in between |
| `controller.py`, `__init__.py` | devices, tasks, listener, shared views, Repairs issues | `async_setup_entry`, `async_unload_entry`, `async_start`, `async_stop`, `async_remove_entry`, `_handle_property_update`, `_query_status_device` | failure or requests at any await; persistent issues over restarts |
| `entity.py`, `sensor.py`, `climate.py`, `switch.py`, `select.py`, `number.py`, `humidifier.py`, `binary_sensor.py`, `button.py` | what each entity last wrote | commands to the device; `_handle_device_update` | every change must be announced to the entities it concerns |
| `properties.py` | the schemas: names, types, defaults, decoders | parsing | enters the models as constants |
| `config_flow.py` | entry data; lists held by open forms | `async_step_dhcp`, `_manual`, `_cloud`, `_select_devices`, `_edit_ip`, `_save_devices`, `_conflicts`, the options flow | forms gone stale, changes during a set-up or reload |
| `discovery.py`, `app_mappings.py`, `diagnostics.py`, `const.py`, `error.py` | none of their own | I/O, tables, redaction | not modelled |

How they interact. An entity calls `Device.queue_command`; the device queues the
command and calls `Notifier.notify`, which wakes the device's loop; the loop
sends the appliance a PUT (or a POST to register); the appliance answers by a
`GET commands.json`, and `command_handler` takes a command from the queue, runs
its updater (which stores the value as *known*), encrypts and answers. Reports
come as `POST datapoint.json`: decrypted, checked against the sequence number,
then `update_property` stores them and notifies the listeners, that is the
controller (Repairs issues, dispatcher) and through it the entities. Status
polls, the refresh button and each new registration call `queue_status`.

What makes each component correct:
* **Device**: no status read is ever queued twice or wrongly skipped; the pending
  packed value is exactly the last unsent one; a packed write never undoes an
  unsent earlier one; user commands precede reads and keep their order.
* **Packed integer**: a setter changes its field and nothing else.
* **Notifier**: no wakeup is lost; a reconnect is prompt and a fresh
  registration; retries honour the backoff; the registration is renewed in
  time; availability follows the appliance.
* **Session**: no update counts after a later one; commands execute in the order
  sent, once.
* **Lifecycle**: nothing outlives an entry; issues tell the truth.
* **Device and appliance together**: the store is wrong about the appliance only for
  a reason, and comes right again.
* **Config entries**: no MAC or IP address is listed twice; a controller runs on
  its entry's present list.
* **Entities**: what is shown is what the device holds.

`PROJECT.json` lists each hazard at its line with the properties aimed at it.

## 2. Modules and their correspondence to the code

**`PackedControl`** (operators) — what the packed control integer means: a value
per field and the set of fields whose change flag is set. `SetField` is any
`set_*`, `ConvertToControlValue` is `AcDevice._convert_to_control_value`.

**`ControlRegister`** — the same on the bits. An integer is the set of its one
bits, so `& ~mask` is a set difference, `|` a union and `<<` a translation.
`Layout` gives the position and width of the ten fields, `MaskBits` the constant
in `clear_up_change_flags`. Its behaviour is one register rewritten by merged
writes and replaced by reports. `Abstract` is the refinement mapping.

**`Device`** (core) — the store and the queue. One action per call:
`QueueWrite`, `QueueModeOff`, `QueueWorkMode`, `QueueTurbo` (the branches of
`AcDevice.queue_command`), `QueueStatus`, `Fetch` (`command_handler`: takes the
head of the priority queue and runs its updater), `ReportProperty` and
`ReportControl` (`property_update_handler` on an accepted report). None of these
methods awaits, so each is atomic. The heap queue is a function from insertion order to command;
`IsNext` says which command `get_nowait` returns. A call that queues several
commands threads a record of the four variables through `BaseQueueCommand`.
The value conversions of `queue_command` (precision, scale) are abstracted to
raw values; `Decode` keeps that a raw code without an enum member becomes None.

**`CommandQueue`** (abstract) and **`DeviceQueue`** — two FIFO queues, user
commands before reads, and one read per status property after a refresh;
`DeviceQueue` is the refinement mapping from the priority queue to them: the commands
of a priority, ranked by insertion order.

**`DeviceEntities`** — `Device` with entities that write their state only when
told of a change to a name they depend on.

**`Notifier`** — the loops of `notifier.py`. An action runs from one await to the
next: `Skip` and `Send` are an iteration that finds no request due or sends one,
`Accepted` and `Failed` the end of a request; commands, refreshes, fetches,
reconnects and `Stop` come in between. Time is discrete (`Tick`); timestamps are kept as
distances from now. The appliance is external (`Switch`: it answers or not).

**`LanSession`** — keys, CBC chaining and sequence numbers. A ciphertext is
`<<session, n>>`; it decrypts only with the keys of its session and only if the
ciphertext consumed before it is number `n - 1`. The appliance and a network that
loses, repeats and reorders are external. `Worlds` says which of the two the
instance has: an appliance that restarts its numbers, or a network that repeats.
`Window` is an assumption about the appliance, which sends requests one after the
other: at most two messages of a direction are under way, the one it waits for and
one it gave up (any number of updates where the network repeats them).

**`Appliance`** — the composition: one device, its session, its poll and the
appliance it stands for. It uses what the other modules establish in place of
their detail: the queue is `CommandQueue` (which `Device` implements), and of a
session only what decides whether a message can be read is kept. `matched` says that
the appliance has the device's keys, `app_slip` and `dev_slip` that the next
message of a stream will not decrypt because the one before it was not consumed.
`Fetch`, `HandleReport` and `HandleExchange` are the three handlers, `Poll` is
`_query_status_device` with its throttle, `Reload` a new `Device` object (a reload
or a restart). `key_exchange_handler` looks its device up before it awaits the
body, so an exchange that was under way at a reload is answered by the old object
(`orphan`). The appliance is external: its own properties (`unit`), those it has to
report (`dirty`), the request it has under way, and requests it gave up that may
still be handled: a fetch and an exchange (`strays`) and a report (`late`), at most one
of each kind, as in `LanSession` (`Window = 2`). A late report is *in turn* while the decryptor
has consumed nothing since the report before it; then `property_update_handler`
accepts and stores it like any other (`Update`), also over a newer write. When others
came first (`Overtaken`) it does not decrypt. Either way the decryptor consumes it, and whether the next report
decrypts depends on which one that is (`newest`). `suspect` is a history variable: fields
with a write or a report that was given up, or that changed at the panel unreported. Left to other
modules: packed writes (`Device`) and sequence numbers that restart (`LanSession`).

**`Lifecycle`** — set-up, unload, removal and restart of an entry, one action
per stretch between awaits, with key exchanges, LAN key changes and edits of the
device list (`SaveDevices`) anywhere. `serving` is the list the controller was built
from, `listed` the entry's present one.

**`ConfigEntries`** — the device lists of all entries, each a function from MAC to
IP address. `AddDevice`, `EditAddress`, `OpenForm`/`SubmitForm` and `Dhcp` are the
steps of the flow that change one, each with its call of `_conflicts`; `form` holds
what `_cloud_setup` held when the selection form opened, however old.
`SaveOptions` is the options flow with its `automatic_reload`, `SetDisabled` the user
disabling an entry; of the options only that they changed is modelled. Reloads are
scheduled as the code does (`HasListener`: an entry has its update listener from the
end of its set-up to the end of its unload) and `StartSetup` builds the
controller's devices from the list of that moment. When `async_unload_entry` reports
that its platforms did not unload (`UnloadRefused`), the entry keeps its old controller
and its listener and the reload is over: the state `refused`, left by a later reload,
by deleting the entry, and by nothing else. The properties of controllers speak of `loaded` entries only,
so they except refused ones. That Home Assistant serialises
set-up, unload and reload of an entry is taken from its API.

The `MC*` modules only define constants.

## 3. The runs

| Run | What it shows | Bounds |
| --- | --- | --- |
| `device` | `PendingStatusExact`, `PendingControlExact`, `NoQueuedWriteDropped`, `SendKeepsMergeBase`, `ImplementsCommandQueue`, `EntityViewFresh` | the five packed fields and two others the turbo macro writes, six commands in a behaviour: enough for two refreshes with a partial fetch between, the five-write macro after another write, and three merged writes with a report between; four entities: one over several fields, single fields, the queue length; the proofs have no bound |
| `register` | `TypeOK`, `ImplementsPacked`, `ReadsBackWrites` | all ten fields, with the two recorded reports of `src/tests/test_protocol.py` as initial integers; Celsius temperatures |
| `appliance` | `WrongOnlyForAReason`, `FollowsUntilLost`, `StoreConverges` (liveness) | one property of two values: properties share the queue, the session and the one request under way, and each of these is at its limit with one property; two user commands, a poll limit of 1 (so that the throttle is reached), one given-up request of each kind still on its way: a late and a lost message of either stream, before or after a key exchange, and a late report that is stored after a write was executed. The store does leave the appliance that way: without its exception `SaysOtherwise`, `FollowsUntilLost` fails |
| `notifier` | eight properties, two of them liveness | one loop (loops share only `_running`), the code's seconds, except that handling takes 2 instead of 0.1 so that a loop can be woken within it |
| `session` | `AcceptedInOrder`, `ExecutedInOrder` | two sessions, four updates in each, three commands: a message of the old session is under way while the new one has begun, and each can be lost, overtaken or repeated. `Window = 2` is what the code needs: with three messages under way and four sent, a late pair decrypts and both properties fail, because nothing but the chain orders commands, nor updates whose numbers restart |
| `lifecycle` | `WholeOrGone`, `IssueFollowsExchange`, `IssuesOfListed` | two devices: one registered while the other is not, one removed from the list while the other stays |
| `configs` | `AddressesUnique`, `ControllerFollowsEntry`, `SomeAddressCorrectable`, `DiscoveryProgresses`, `RecoversAddresses` (liveness) | two entries, two devices, three addresses of which one is reachable by both: the first device can take over an address that is still saved for the second, in the same entry or the other; the options of one entry change and one can be disabled (`Tuned`: both would multiply the states without a new case, entries meet only in `_conflicts`); 870 thousand states. Both exchanging addresses is excluded by the property and needs a larger instance |

Five runs show a disagreement between the code and what the repository says
of it (`findings` in `PROJECT.json` quotes the lines):

* `device_mixed` — fields written *by name* before the first packed report are
  not merged into a packed write queued later; when both are sent, the later one
  restores the old value (`aircon.py:244`).
* `fahrenheit` — targets from 64 °F up do not fit the six bits of the packed
  temperature: they spill into bit 23 and read back 64 lower (`control_value.py:64`).
* `seq_reset` — if the one update numbered zero is lost, a device that restarted
  its numbers has its updates dropped as stale (`aircon.py:187`).
* `early_exchange` — a key exchange served while set-up still waits for a
  callback address sets or clears the flag with no listener attached, and the
  Repairs issue stays wrong (`controller.py:104`, `aircon.py:292`).
* `missed_reload` — `_save_devices` relies on the update listener, which exists only
  from the end of the set-up; a form saved while its entry is being set up is
  stored and never applied (`config_flow.py:222`; `async_step_dhcp` handles it).

One more limit shows in the antecedent of `RecoversAddresses`: two devices that
exchanged their addresses are refused by `_conflicts` for ever, each because of the other.

Another shows in `SaysOtherwise`: `property_update_handler` cannot tell a late report from
a new one as long as none came in between, so a report that was given up can undo in the store
a write the appliance has executed since (`query_handlers.py:93-108`), until the next
report of the property.

A third shows in `IssuesOfListed`: its set `late`. The controller goes on serving the
old list until the reload, so a device that asks for another LAN key after it was
removed gets an issue that nothing deletes, although `src/CHANGELOG.md:9` says the
issue goes with the "removal of the device" (`config_flow.py:225`).

**Fairness** is assumed in `notifier`, `configs` and `appliance` only. In `configs`, weak fairness
of `Dhcp`: "Recovery depends on Home Assistant receiving the new address through
DHCP, device trackers, or its periodic network discovery" (`src/README.md:129`);
the property also requires that users leave the entries alone.

In `appliance`, `CodeFairness` is weak fairness of the handlers and of the poll, which
the event loop runs. `UnitFairness` is an assumption about an appliance that
works: it fetches and reports again and again (strong fairness, since it may be busy
with another request whenever one of these is possible) and deals with the answers.
`StoreConverges` conditions on the rest: no more losses, reloads, user commands
or panel use from some time on, and keys that match for good.

In `notifier`, weak fairness on a loop's steps: the event loop runs every ready
task, and `_perform_request` has a timeout, so a request ends. Strong fairness on `Tick`: it is disabled while a loop is ready,
which callers can bring about again and again by setting the event, but real
time passes all the same. Nothing is assumed of callers or of the appliance;
the two liveness properties condition on it (`<>[]answering`).

Deadlock is checked in every run: callers may always call, the appliance can always ask or give up, time always passes, the
network can always lose or deliver or a key exchange be refused.

Every property of a passing run has a *mutant*, an operator next to the one it
replaces (commented "Mutant"), under which TLC finds the property violated.

## 4. The proofs

TLAPS proves these for every value of the constants under the modules' named assumptions.

**`DeviceProofs`** — for any fields, values, writes, reports and status lists:
`TypeCorrect`, `NoDuplicateReads`, `PendingControlTracksQueue`,
`QueuedWritesSurvive`, `SendingKeepsMergeBase`. All rest on one inductive
invariant `IInv`: types, the three exactness properties, and the link between the
store and the pending value. `NoQueuedWriteDropped` is not inductive alone: that a
merge carries an earlier value follows from the merge base being *the last*
queued packed write, which is `PendingControlExact`, and that needs the insertion
counter to exceed every queued order (`TypeOK`). `Enqueue` is shown to preserve
the queue part for any record (`EnqueueByName`, `EnqueueControl`), so a call that
queues five commands is five uses of one lemma. `Fetch` takes the oldest command of
its priority (`TakeNext`), so no claim about an older write loses its premise (`TakeSetLast`).
`OnlyEarlyReportsMix` delimits the `device_mixed` run: as long as no first packed report
arrives while a write by name waits, `MergeCoversUnsentWrites` holds. Its invariant
(`Apart`) is that unsent writes by name and a packed value, stored or pending, never exist
together; the five writes of the turbo macro carry it from one record to the next.

**`ControlRegisterProofs`** — `ConvertIsPackedMerge`: the masks, shifts and flags
compute the abstract merge, for *every* integer, field and value that fits. From
it `StaysWord`, `RegisterImplementsPacked` and `FittingWritesReadBack`; the
hypothesis that values fit is exactly what the `fahrenheit` run shows to fail. How far the
damage goes is proved too: only temperatures can be too wide, bit 23 belongs to no field
(`SpareBit`), so a write of such a temperature is the merge of what fits of it
(`WideTemperatureIsCut`), and that stays true over any later writes
(`OnlyTemperaturesCut`): the target reads back 64 lower and nothing else is wrong.

**`DeviceViewsProofs`** — what is seen of a device from outside.
`DeviceImplementsCommandQueue` proves the refinement: `Rank` is a bijection from the
orders of a priority to `1..n` (`KthOfRank`, `KthHasRank`, from the cardinality of finite
sets), so a command queued with the highest order is appended to its sequence
(`InOrderAppend`) and the one with the lowest is its head (`InOrderRemove`); with
`PendingStatusExact`, the reads `queue_status` adds are exactly those missing.
`EntitiesFollowDevice` proves `EntityViewFresh`: every change of the store or the
queue is covered by the names its action announces (`StoredChanges`, `FetchTells`).

**`ApplianceProofs`** — `TypeCorrect` and `StoreWrongOnlyForAReason`. The invariant needs
what each side knows of the request under way: a write on its way to the appliance
is what the store already says (`WriteStored`), a report is still true (`ReportTrue`). And
it needs what a late report may do (`LateKnown`): while it is in turn, its field is
suspect or has a newer report under way, since every report sent after it must be handled, and then it is overtaken, or
given up too; so what it stores is wrong for a reason.
`StoreFollowsUntilLost` proves the action property `FollowsUntilLost`: a field the store agrees
with the appliance on leaves that agreement only by one of five events, which the
property names: it loses a response, a stray fetch takes a command, the keys change, the panel is
used, or a late report of the field arrives in turn and says something else. Here the proof says more than the run, whose instance has one field.

**`NotifierProofs`** — for any number of loops and any times that satisfy the
named assumptions: `TypeCorrect`, `NoLostWakeup`, `RenewedInTime`, `ReconnectsPromptly`,
`ReconnectsByPost`, `BackoffsHonoured`. The invariant relates the clock to the loop of
each device: a wait never ends later than the next request is due (`WaitCovers`), what
is left of a backoff and what has passed of it make up the whole (`BackoffKept`), and a
reconnect has waited no longer than the rest of the request it was asked in and two
handling times (`Prompt`).

**`LanSessionProofs`** — `TypeCorrect`, and `NumbersKeepOrder`: when the appliance does not restart
its numbers, `AcceptedInOrder` holds for any `Window`. The invariant says that numbers
tell the order of any two updates under way and of each and the last one
accepted; the accepted zero is harmless because an update numbered zero decrypts
only at the start of its session (`Counted`).
Where numbers restart, and for commands, only the chain keeps the order, and it needs
`Window <= 2`: `CommandsInOrder`, `ChainKeepsOrder` and, for both kinds of world,
`UpdatesInOrder`. The invariant (`InStep`) says that whatever decrypts next, from any
ciphertext under way or the last one consumed, is later than the last one done. It
survives a delivery because two messages were under way and one is gone: one is left,
and no pair of them can decrypt out of order. `Window <= 2` is a hypothesis, not
a fact about the code (§2). `OnlyResetsGoStale` delimits the `seq_reset` run: an appliance that does
not restart its numbers never has a newer update dropped as stale.

**`LifecycleProofs`** — for any number of devices: `TypeCorrect`,
`NothingOutlivesEntry`, `IssuesFollowExchanges`, `NoOrphanedIssues`. The inductive
invariant says of each phase which resources exist (`PhaseOK`), and states the
agreement of issues and flags in every phase with a controller, since issues may be
deleted with the entry. A device whose exchange came too early is excepted only until
another one settles issue and flag (`Settles`). `OnlyEarlyExchangesMislead`
delimits the `early_exchange` run: when every exchange finds the listener attached, no device
is excepted.

**`ConfigEntriesProofs`** — for any entries, devices and addresses: `TypeCorrect`,
`EntriesShareNothing`, `ControllersFollowEntries`. One lemma (`StoreUnique`) says that
storing a list `_conflicts` accepts keeps addresses unique; each caller is shown to
pass it a list, stale or not. For the controllers, the invariant (`BuiltFromEntry`) must hold during
the set-up too, and an entry that is set up must exist (`SetUpExists`), or creating
one could change the list under a running controller. `OnlyFormsInSetupMissed` delimits the
`missed_reload` run: without a form that changes the list during a set-up, the code's
reliance on the listener is justified for every entry that unloads when asked to.

`DiscoveryNeverStuck` and `CorrectionsProgress` prove all of `RecoversAddresses` but the
fairness argument. If no strayed device can be corrected, the address each of them needs is
saved for another strayed one (`InTheWay`), so on the finite set of them the map from saved to
present addresses is onto: they exchanged their addresses (`StuckIsRotated`). And a
correction takes its device out of the strayed ones, creates no exchange and stands in
nobody's way, so the number of strayed devices falls to zero.

Only model-checked: liveness (`StoreConverges`, `RecoversAddresses`,
`RecoversWhenAnswering`, `LapsesWhenSilent`), which needs fairness and `ENABLED` and is beyond
the prover; and the five disagreements, each a counterexample of TLC. Every
invariant and every action property of a passing run is a theorem, and each
disagreement has one that says what it takes for it to happen.

## 5. Plan and what is not modelled

Written in this order: `PackedControl`, `Device` with its runs and proofs,
`ControlRegister` and its proof, `CommandQueue`, `DeviceEntities`, `Notifier`,
`LanSession`, `Lifecycle` and `ConfigEntries` with their proofs; then `Appliance`, the
reconfiguration in `Lifecycle`, the options flow and disabled entries in
`ConfigEntries`, and the proofs of the refinement, the entities, the notifier, the
session and `Appliance`.

Not modelled:

* Validation of what is typed into forms, the vendor cloud client and
  `app_mappings.py`, diagnostics, and presentation (names, icons, units, availability):
  they keep no state a property could relate.
* Value conversions: FGL temperature scaling, rounding, HVAC mode tables. They enter
  as constants (`Decodes`, `UserWrites`); the packed integer is modelled bit by bit.
* `config_flow.py:185` — a device edited away under an open form raises
  `StopIteration`; the step fails and changes nothing.
* The removal of duplicate registry entities after set-up, and the order in
  which the shared views ask the entries for a device (with unique addresses it
  does not matter).
* In `Appliance`: an appliance that restarts its numbers, and packed writes. An
  appliance that sends several requests at a time is outside the assumption of
  `Window` and of `Appliance`.
