------------------------------- MODULE Device -------------------------------
(***************************************************************************)
(* One device of the integration: aircon.py's Device and AcDevice, with    *)
(* the entry points of query_handlers.py that take a command from its      *)
(* queue and apply a report to its property store.                         *)
(*                                                                         *)
(* All of this code runs on the Home Assistant event loop and none of the  *)
(* modelled methods awaits, so each is one atomic action.  What interleaves*)
(* is the order of the calls: entities write, buttons and polls refresh,   *)
(* the appliance fetches commands and posts reports, each when it likes.   *)
(*                                                                         *)
(* What the wire does to a message before the handler accepts it (session  *)
(* keys, cipher chaining, sequence numbers) is not modelled here.          *)
(***************************************************************************)
EXTENDS PackedControl, Integers, Sequences, FiniteSets, Functions

CONSTANTS
  OtherFields,       \* the other properties of the device
  StatusFields,      \* the property names in declaration order, as queue_status reads them
  Defaults,          \* initial (protocol default) value of each property
  Decodes,           \* per controlled field, the raw values its enum has a member for
  UserWrites,        \* the <<name, value>> pairs entities may write, special cases apart
  WorkModes,         \* the work modes the climate entity may select
  Reports,           \* the <<name, value>> pairs the appliance may report
  ReportedControls,  \* the packed values the appliance may report
  MaxOrder,          \* bound: commands queued in a behaviour (a test bound, any Nat)
  NoControl,         \* None as a packed control
  NoValue            \* None as a property value

TCV == "t_control_value"
PropertyNames == ControlFields \cup OtherFields
Values == Raw \cup {NoValue}
UserPriority == 10
StatusPriority == 100

ASSUME NamesAssumption ==
  /\ TCV \notin PropertyNames
  /\ {"t_power", "t_work_mode"} \subseteq ControlFields
ASSUME StatusFieldsAssumption ==
  /\ StatusFields \in Seq(PropertyNames \cup {TCV})
  /\ \A i, j \in 1..Len(StatusFields) : StatusFields[i] = StatusFields[j] => i = j
ASSUME ValuesAssumption ==
  /\ Defaults \in [PropertyNames -> Values]
  /\ Decodes \in [ControlFields -> SUBSET Raw]
  /\ UserWrites \subseteq PropertyNames \X Raw
  /\ \A w \in UserWrites : w[1] # "t_work_mode" /\ w # <<"t_temp_heatcold", On>>
  /\ Reports \subseteq PropertyNames \X Raw
  /\ WorkModes \subseteq Raw
  /\ ReportedControls \subseteq Control
  /\ NoControl \notin Control
ASSUME MaxOrderAssumption == MaxOrder \in Nat

VARIABLES
  commands_queue,         \* the queued commands, keyed by their insertion order
  command_order,          \* next(self._command_order)
  pending_status,         \* _pending_status
  pending_control,        \* _pending_control
  pending_control_count,  \* _pending_control_count
  control,                \* the stored t_control_value property
  properties,             \* the other stored properties
  known,                  \* _known_properties
  reported                \* the names with an entry in _reported_properties

queueVars == <<commands_queue, command_order, pending_control, pending_control_count>>
storeVars == <<control, properties, known, reported>>
vars == <<queueVars, pending_status, storeVars>>

-----------------------------------------------------------------------------
(* Commands and the priority queue.                                        *)

UserCommand(name, value) ==
  [priority |-> UserPriority, name |-> name, value |-> value]
StatusRead(name) ==
  [priority |-> StatusPriority, name |-> name, value |-> NoValue]

\* Mutant: commands are sent in insertion order, whatever their priority.
BeforeByOrder(q, i, j) == i <= j

\* Command's dataclass ordering: priority first, then insertion order.
Before(q, i, j) ==
  \/ q[i].priority < q[j].priority
  \/ q[i].priority = q[j].priority /\ i <= j

\* The order number of the command get_nowait returns.
IsNext(q, i) == i \in DOMAIN q /\ \A j \in DOMAIN q : Before(q, i, j)

\* The queued writes of the packed control value, by order number.
ControlWrites(q) ==
  {i \in DOMAIN q : q[i].priority = UserPriority /\ q[i].name = TCV}

\* Mutant: merges into the stored value, not into the last unsent command.
StoredControl(pending) == control

\* _command_control: the last unsent packed value, else the stored property.
CommandControl(pending) == IF pending # NoControl THEN pending ELSE control

-----------------------------------------------------------------------------
(* queue_command.  The writes of one call accumulate in a record of the    *)
(* four variables it changes, so that a call that queues several commands  *)
(* is still one step.                                                      *)

Current ==
  [queue |-> commands_queue, order |-> command_order,
   pending |-> pending_control, count |-> pending_control_count]

\* Mutant: forgets to count a second pending packed write.
EnqueueUncounted(s, name, value) ==
  [queue   |-> [i \in DOMAIN s.queue \cup {s.order} |->
                  IF i = s.order THEN UserCommand(name, value) ELSE s.queue[i]],
   order   |-> s.order + 1,
   pending |-> IF name = TCV THEN value ELSE s.pending,
   count   |-> IF name = TCV THEN 1 ELSE s.count]

\* queue_command from _build_command on: append at user priority.
Enqueue(s, name, value) ==
  [queue   |-> [i \in DOMAIN s.queue \cup {s.order} |->
                  IF i = s.order THEN UserCommand(name, value) ELSE s.queue[i]],
   order   |-> s.order + 1,
   pending |-> IF name = TCV THEN value ELSE s.pending,
   count   |-> IF name = TCV THEN s.count + 1 ELSE s.count]

\* Device.queue_command: a controlled field of a device that has a (nonzero)
\* packed control is merged into it, anything else is written by name.
BaseQueueCommand(s, name, value) ==
  LET c == CommandControl(s.pending) IN
  IF name \in ControlFields /\ c \notin {NoControl, ZeroControl}
  THEN Enqueue(s, TCV, ConvertToControlValue(c, name, value))
  ELSE Enqueue(s, name, value)

Queue(s) ==
  /\ s.order <= MaxOrder
  /\ commands_queue' = s.queue
  /\ command_order' = s.order
  /\ pending_control' = s.pending
  /\ pending_control_count' = s.count
  /\ UNCHANGED <<pending_status, storeVars>>

\* AcDevice.queue_command for a name and value without special treatment.
QueueWrite(name, value) ==
  Queue(BaseQueueCommand(Current, name, value))

\* The work mode OFF is a power command.
QueueModeOff == Queue(BaseQueueCommand(Current, "t_power", Off))

\* Any other work mode first turns the unit on.
QueueWorkMode(mode) ==
  Queue(BaseQueueCommand(BaseQueueCommand(Current, "t_power", On), "t_work_mode", mode))

\* t_temp_heatcold ON also resets fan speed, quiet, sleep and eight-heat.
QueueTurbo ==
  /\ {"t_temp_heatcold", "t_fan_speed", "t_fan_mute"} \subseteq ControlFields
  /\ {"t_sleep", "t_temp_eight"} \subseteq OtherFields
  /\ LET turbo == BaseQueueCommand(Current, "t_temp_heatcold", On)
         speed == BaseQueueCommand(turbo, "t_fan_speed", Off)
         quiet == BaseQueueCommand(speed, "t_fan_mute", Off)
         sleep == BaseQueueCommand(quiet, "t_sleep", Off)
     IN  Queue(BaseQueueCommand(sleep, "t_temp_eight", Off))

-----------------------------------------------------------------------------
(* queue_status: one read per property that has none waiting, in field     *)
(* order, behind every user command.                                       *)

Missing == {p \in 1..Len(StatusFields) : StatusFields[p] \notin pending_status}

\* The missing fields listed in field order (there is exactly one such list).
Ordered(batch) ==
  /\ {batch[k] : k \in DOMAIN batch} = Missing
  /\ \A j, k \in DOMAIN batch : j < k => batch[j] < batch[k]

QueueStatus ==
  \E batch \in [1..Cardinality(Missing) -> Missing] :
    LET fresh == command_order..(command_order + Cardinality(Missing) - 1)
        read(i) == StatusRead(StatusFields[batch[i - command_order + 1]])
    IN  /\ Ordered(batch)
        /\ command_order + Cardinality(Missing) <= MaxOrder
        /\ commands_queue' = [i \in DOMAIN commands_queue \cup fresh |->
                                IF i \in fresh THEN read(i) ELSE commands_queue[i]]
        /\ command_order' = command_order + Cardinality(Missing)
        /\ pending_status' = pending_status \cup {StatusFields[p] : p \in Missing}
        /\ UNCHANGED <<pending_control, pending_control_count, storeVars>>

-----------------------------------------------------------------------------
(* update_property and the command and report handlers.                    *)

\* The decoders: a raw value without an enum member becomes None.
Decode(f, raw) == IF raw \in Decodes[f] THEN raw ELSE NoValue

\* Mutant: only values sent or reported first count as known.
StoreUpdateUnknown(update, names, isReport) ==
  /\ properties' = [n \in PropertyNames |->
                      IF n \in DOMAIN update THEN update[n] ELSE properties[n]]
  /\ known' = IF isReport THEN known ELSE known \cup names
  /\ reported' = IF isReport THEN reported \cup names ELSE reported

\* update_property: store every entry of update before anyone is notified.
StoreUpdate(update, names, isReport) ==
  /\ properties' = [n \in PropertyNames |->
                      IF n \in DOMAIN update THEN update[n] ELSE properties[n]]
  /\ known' = known \cup names
  /\ reported' = IF isReport THEN reported \cup names ELSE reported

UpdateProperty(name, value, isReport) ==
  /\ StoreUpdate([n \in {name} |-> value], {name}, isReport)
  /\ UNCHANGED control

\* The packed control also updates every field it controls.
UpdateControl(c, isReport) ==
  /\ StoreUpdate([f \in ControlFields |-> Decode(f, c.val[f])],
                 ControlFields \cup {TCV}, isReport)
  /\ control' = c

\* Mutant: the read leaves the queue, its name stays pending.
FetchReadKeepsPending(i) ==
  /\ commands_queue[i].priority = StatusPriority
  /\ UNCHANGED <<pending_status, pending_control, pending_control_count, storeVars>>

\* Mutant: every packed write that is sent clears the pending value.
FetchControlForgets(i) ==
  /\ i \in ControlWrites(commands_queue)
  /\ pending_control_count' = pending_control_count - 1
  /\ pending_control' = NoControl
  /\ UpdateControl(commands_queue[i].value, FALSE)
  /\ UNCHANGED pending_status

\* command_handler on a queued command: it leaves the queue and its updater
\* runs at once, before the response is written.
FetchRead(i) ==
  /\ commands_queue[i].priority = StatusPriority
  /\ pending_status' = pending_status \ {commands_queue[i].name}
  /\ UNCHANGED <<pending_control, pending_control_count, storeVars>>

FetchControl(i) ==
  /\ i \in ControlWrites(commands_queue)
  /\ pending_control_count' = pending_control_count - 1
  /\ pending_control' = IF pending_control_count' = 0 THEN NoControl ELSE pending_control
  /\ UpdateControl(commands_queue[i].value, FALSE)
  /\ UNCHANGED pending_status

FetchProperty(i) ==
  /\ commands_queue[i].priority = UserPriority
  /\ commands_queue[i].name # TCV
  /\ UpdateProperty(commands_queue[i].name, commands_queue[i].value, FALSE)
  /\ UNCHANGED <<pending_status, pending_control, pending_control_count>>

Fetch ==
  \E i \in DOMAIN commands_queue :
    /\ IsNext(commands_queue, i)
    /\ commands_queue' = Restrict(commands_queue, DOMAIN commands_queue \ {i})
    /\ UNCHANGED command_order
    /\ FetchRead(i) \/ FetchControl(i) \/ FetchProperty(i)

\* property_update_handler on an accepted report of one property.
ReportProperty(name, value) ==
  /\ UpdateProperty(name, value, TRUE)
  /\ UNCHANGED <<queueVars, pending_status>>

ReportControl(c) ==
  /\ UpdateControl(c, TRUE)
  /\ UNCHANGED <<queueVars, pending_status>>

-----------------------------------------------------------------------------
Init ==
  /\ commands_queue = [i \in {} |-> StatusRead(TCV)]
  /\ command_order = 0
  /\ pending_status = {}
  /\ pending_control = NoControl
  /\ pending_control_count = 0
  /\ control = NoControl
  /\ properties = Defaults
  /\ known = {}
  /\ reported = {}

Next ==
  \/ \E w \in UserWrites : QueueWrite(w[1], w[2])
  \/ QueueModeOff
  \/ \E mode \in WorkModes : QueueWorkMode(mode)
  \/ QueueTurbo
  \/ QueueStatus
  \/ Fetch
  \/ \E r \in Reports : ReportProperty(r[1], r[2])
  \/ \E c \in ReportedControls : ReportControl(c)

Spec == Init /\ [][Next]_vars
-----------------------------------------------------------------------------
(* What the queue and the store must keep true.                            *)

CommandTypes ==
  [priority : {UserPriority}, name : {TCV}, value : Control]
    \cup [priority : {UserPriority}, name : PropertyNames, value : Raw]
    \cup [priority : {StatusPriority}, name : PropertyNames \cup {TCV}, value : {NoValue}]

QueueTypeOK(s) ==
  /\ s.order \in Nat
  /\ DOMAIN s.queue \subseteq 0..(s.order - 1)
  /\ s.queue \in [DOMAIN s.queue -> CommandTypes]
  /\ s.pending \in Control \cup {NoControl}
  /\ s.count \in Nat

\* The types of the state of aircon.py's Device (lines 59-81); every queued
\* command was inserted before the counter reached its present value.
TypeOK ==
  /\ QueueTypeOK(Current)
  /\ pending_status \subseteq PropertyNames \cup {TCV}
  /\ control \in Control \cup {NoControl}
  /\ properties \in [PropertyNames -> Values]
  /\ known \subseteq PropertyNames \cup {TCV}
  /\ reported \subseteq known

StatusReads(q) == {i \in DOMAIN q : q[i].priority = StatusPriority}

ReadsExact(q, p) ==
  /\ p = {q[i].name : i \in StatusReads(q)}
  /\ \A i, j \in StatusReads(q) : q[i].name = q[j].name => i = j

\* _pending_status names exactly the properties with a read in the queue, and
\* no property has two: refresh, poll and reconnect never duplicate a waiting
\* read, and never skip one because of a read that is gone (queue_status, the
\* discard its commands run when they are fetched).
PendingStatusExact == ReadsExact(commands_queue, pending_status)

PendingExact(s) ==
  /\ s.count = Cardinality(ControlWrites(s.queue))
  /\ s.pending = NoControl <=> ControlWrites(s.queue) = {}
  /\ \A i \in ControlWrites(s.queue) :
       (\A j \in ControlWrites(s.queue) : j <= i) => s.pending = s.queue[i].value

\* _pending_control_count counts the packed writes still queued, and
\* _pending_control is the last of them, or None when all are sent: the
\* updaters of interleaved fetches keep the closure's bookkeeping exact.
PendingControlExact == PendingExact(Current)

\* Field f is set by the packed write i and by no packed write in (i, j].
SetLast(q, f, i, j) ==
  /\ f \in q[i].value.flags
  /\ \A k \in ControlWrites(q) : i < k /\ k <= j => f \notin q[k].value.flags

CarriesWrites(s) ==
  \A i \in ControlWrites(s.queue), f \in ControlFields :
    /\ \A j \in ControlWrites(s.queue) :
         i < j /\ SetLast(s.queue, f, i, j)
           => s.queue[j].value.val[f] = s.queue[i].value.val[f]
    /\ SetLast(s.queue, f, i, s.order)
         => s.pending.val[f] = s.queue[i].value.val[f]

\* The value an unsent packed write gives a field is carried by every packed
\* write queued after it, and by the value the next write is merged into,
\* until a write sets that field again, whatever reports arrive in between:
\* "Merge writes into the last unsent command, even after an older status
\* arrives" (_command_control, _convert_to_control_value).
NoQueuedWriteDropped == CarriesWrites(Current)

\* Sending a queued command never changes the packed value the next write is
\* merged into while packed writes are pending; in particular clearing
\* _pending_control after the last one leaves the value just sent as the base.
SendKeepsMergeBase ==
  [][(Fetch /\ pending_control # NoControl)
       => CommandControl(pending_control)' = CommandControl(pending_control)]_vars


\* "Merge writes into the last unsent command, even after an older status
\* arrives" (docstring of _command_control), read of every unsent command: the
\* packed write j carries the value the unsent write by name i gave a controlled
\* field, unless a packed write since has set that field.
MergeCoversUnsentWrites ==
  \A i \in DOMAIN commands_queue, j \in ControlWrites(commands_queue) :
    LET f == commands_queue[i].name IN
    /\ i < j
    /\ commands_queue[i].priority = UserPriority
    /\ f \in ControlFields
    /\ \A k \in ControlWrites(commands_queue) :
         i < k /\ k <= j => f \notin commands_queue[k].value.flags
    => commands_queue[j].value.val[f] = commands_queue[i].value
=============================================================================
