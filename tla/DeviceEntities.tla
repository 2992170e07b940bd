--------------------------- MODULE DeviceEntities ---------------------------
(***************************************************************************)
(* The entities of a device.  An entity writes its Home Assistant state    *)
(* when it is added and from then on only when it is told of a change to a *)
(* name it depends on (_notify_listeners, the dispatcher signal,           *)
(* _handle_device_update), so it shows what the device held at the last    *)
(* notification that concerned it.  Entities never poll.                   *)
(*                                                                         *)
(* All of this runs in callbacks, within the call that changed the device; *)
(* of the notifications of one call only the last leaves a trace, and by   *)
(* then everything the call stores is stored.                              *)
(***************************************************************************)
EXTENDS Device

CONSTANT Entities   \* each entity, as the set of names it depends on

QueuedCommands == "queued_commands"   \* the name of the queue length sensor's value

ASSUME EntitiesAssumption ==
  /\ Entities \subseteq SUBSET (PropertyNames \cup {TCV, QueuedCommands})
  /\ QueuedCommands \notin PropertyNames \cup {TCV}

VARIABLE shown      \* what each entity last wrote

allVars == <<vars, shown>>

\* get_property
Stored(n) == IF n = TCV THEN control ELSE properties[n]

\* get_known_property: a property never sent nor received has no value.
Native(n) ==
  IF n = QueuedCommands THEN Cardinality(DOMAIN commands_queue)
  ELSE IF n \in known THEN Stored(n) ELSE NoValue

View(e) == [n \in e |-> Native(n)]

\* Mutant: a first value equal to the protocol default is no change.
ChangedValues(names, isReport) == {n \in names : Stored(n)' # Stored(n)}

\* The names update_property finds changed among those it stores.
Changed(names, isReport) ==
  {n \in names : \/ n \notin known
                 \/ Stored(n)' # Stored(n)
                 \/ isReport /\ n \notin reported}

\* The names a write or report of name stores.
Touched(name) == IF name = TCV THEN ControlFields \cup {TCV} ELSE {name}

\* The entities concerned write their state.
Notify(changed) ==
  shown' = [e \in Entities |-> IF e \cap changed # {} THEN View(e)' ELSE shown[e]]

\* The command a fetch takes, and what its updater changes.
FetchAndNotify ==
  \E i \in DOMAIN commands_queue :
    /\ IsNext(commands_queue, i)
    /\ Fetch
    /\ Notify({QueuedCommands} \cup
         IF commands_queue[i].priority = StatusPriority THEN {}
         ELSE Changed(Touched(commands_queue[i].name), FALSE))

InitEntities == Init /\ shown = [e \in Entities |-> View(e)]

NextEntities ==
  \/ \/ \E w \in UserWrites : QueueWrite(w[1], w[2])
     \/ QueueModeOff
     \/ \E mode \in WorkModes : QueueWorkMode(mode)
     \/ QueueTurbo
     /\ Notify({QueuedCommands})
  \/ QueueStatus /\ Notify(IF Missing = {} THEN {} ELSE {QueuedCommands})
  \/ FetchAndNotify
  \/ \E r \in Reports : ReportProperty(r[1], r[2]) /\ Notify(Changed({r[1]}, TRUE))
  \/ \E c \in ReportedControls : ReportControl(c) /\ Notify(Changed(Touched(TCV), TRUE))

SpecEntities == InitEntities /\ [][NextEntities]_allVars
-----------------------------------------------------------------------------
\* Every entity shows what its device holds: no change goes unannounced, also
\* not the first report of a value equal to the protocol default, a field that
\* only changed inside the packed control, or the length of the queue
\* (update_property, _update_controlled_properties, command_handler).
EntityViewFresh == \A e \in Entities : shown[e] = View(e)
=============================================================================
