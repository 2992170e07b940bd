---------------------------- MODULE DeviceProofs ----------------------------
(***************************************************************************)
(* Proofs about Device, for every set of fields, every priority queue      *)
(* contents and every bound MaxOrder.                                      *)
(***************************************************************************)
EXTENDS Device, FiniteSetTheorems, TLAPS

\* The inductive invariant, on the queue part of the state: a record such as
\* the ones queue_command builds, and the set of pending reads.
QueueInv(s) ==
  /\ QueueTypeOK(s)
  /\ ReadsExact(s.queue, pending_status)
  /\ PendingExact(s)
  /\ CarriesWrites(s)

IInv == TypeOK /\ QueueInv(Current)

-----------------------------------------------------------------------------
(* Packed control values.                                                  *)

\* The merged packed value is a packed value.
LEMMA ConvertType ==
  ASSUME NEW c \in Control, NEW f \in ControlFields, NEW v \in Raw
  PROVE  ConvertToControlValue(c, f, v) \in Control
<1> USE RawAssumption, NamesAssumption
<1>1. clear_up_change_flags(c) \in Control
  BY DEF clear_up_change_flags, Control
<1>2. \A d \in Control, g \in ControlFields, w \in Raw : SetField(d, g, w) \in Control
  BY DEF SetField, Control
<1>3. PowerOnForMode(clear_up_change_flags(c), f) \in Control
  BY <1>1, <1>2 DEF PowerOnForMode
<1> QED BY <1>2, <1>3 DEF ConvertToControlValue

\* A field the merged value does not flag keeps the value it had in the base.
LEMMA ConvertMerges ==
  ASSUME NEW c \in Control, NEW f \in ControlFields, NEW v \in Raw,
         NEW g \in ControlFields \ ConvertToControlValue(c, f, v).flags
  PROVE  ConvertToControlValue(c, f, v).val[g] = c.val[g]
<1> USE RawAssumption, NamesAssumption
<1> DEFINE b == clear_up_change_flags(c)
           p == PowerOnForMode(b, f)
<1>1. b \in Control /\ b.val = c.val
  BY DEF clear_up_change_flags, Control
<1>2. \A d \in Control, h \in ControlFields, w \in Raw :
        /\ SetField(d, h, w) \in Control
        /\ g \notin SetField(d, h, w).flags =>
             g \notin d.flags /\ SetField(d, h, w).val[g] = d.val[g]
  BY DEF SetField, Control
<1>3. p \in Control
  BY <1>1, <1>2 DEF PowerOnForMode
<1>4. g \notin p.flags /\ ConvertToControlValue(c, f, v).val[g] = p.val[g]
  BY <1>2, <1>3 DEF ConvertToControlValue
<1>5. p.val[g] = b.val[g]
  BY <1>1, <1>2, <1>4 DEF PowerOnForMode
<1> QED BY <1>1, <1>4, <1>5

-----------------------------------------------------------------------------
(* queue_command: appending a user command.                                *)

\* What a command appended to the queue leaves as it was.
LEMMA EnqueueQueue ==
  ASSUME NEW s, QueueTypeOK(s), NEW name, NEW value,
         UserCommand(name, value) \in CommandTypes
  PROVE  LET t == Enqueue(s, name, value)
         IN  /\ t.order = s.order + 1
             /\ s.order \notin DOMAIN s.queue
             /\ DOMAIN t.queue = DOMAIN s.queue \cup {s.order}
             /\ \A i \in DOMAIN s.queue : i < s.order /\ t.queue[i] = s.queue[i]
             /\ t.queue[s.order] = UserCommand(name, value)
             /\ t.queue \in [DOMAIN t.queue -> CommandTypes]
             /\ DOMAIN t.queue \subseteq 0..(t.order - 1)
             /\ StatusReads(t.queue) = StatusReads(s.queue)
             /\ name = TCV => ControlWrites(t.queue) = ControlWrites(s.queue) \cup {s.order}
             /\ name # TCV => ControlWrites(t.queue) = ControlWrites(s.queue)
<1> DEFINE t == Enqueue(s, name, value)
<1>1. /\ t.order = s.order + 1
      /\ t.queue = [i \in DOMAIN s.queue \cup {s.order} |->
                      IF i = s.order THEN UserCommand(name, value) ELSE s.queue[i]]
  BY DEF Enqueue
<1>2. s.order \in Nat /\ DOMAIN s.queue \subseteq 0..(s.order - 1)
  BY DEF QueueTypeOK
<1>3. s.order \notin DOMAIN s.queue /\ \A i \in DOMAIN s.queue : i < s.order
  BY <1>2
<1>4. /\ DOMAIN t.queue = DOMAIN s.queue \cup {s.order}
      /\ \A i \in DOMAIN s.queue : t.queue[i] = s.queue[i]
      /\ t.queue[s.order] = UserCommand(name, value)
  BY <1>1, <1>3
<1>5. t.queue \in [DOMAIN t.queue -> CommandTypes]
  <2>1. \A i \in DOMAIN s.queue : s.queue[i] \in CommandTypes
    BY DEF QueueTypeOK
  <2> QED BY <1>1, <2>1
<1>6. DOMAIN t.queue \subseteq 0..(t.order - 1)
  BY <1>1, <1>2, <1>4
<1>7. t.queue[s.order].priority = UserPriority /\ t.queue[s.order].name = name
  BY <1>4 DEF UserCommand
<1>8. StatusReads(t.queue) = StatusReads(s.queue)
  BY <1>3, <1>4, <1>7 DEF StatusReads, UserPriority, StatusPriority
<1>9. /\ name = TCV => ControlWrites(t.queue) = ControlWrites(s.queue) \cup {s.order}
      /\ name # TCV => ControlWrites(t.queue) = ControlWrites(s.queue)
  BY <1>3, <1>4, <1>7 DEF ControlWrites
<1> HIDE DEF t
<1>10. QED BY <1>1, <1>3, <1>4, <1>5, <1>6, <1>8, <1>9 DEF t

\* Control writes are finitely many, and their values are packed values.
LEMMA ControlWritesType ==
  ASSUME NEW s, QueueTypeOK(s)
  PROVE  /\ IsFiniteSet(ControlWrites(s.queue))
         /\ ControlWrites(s.queue) \subseteq DOMAIN s.queue
         /\ \A i \in ControlWrites(s.queue) : i \in Nat /\ i < s.order
         /\ \A i \in ControlWrites(s.queue) : s.queue[i].value \in Control
<1>1. s.order \in Nat /\ DOMAIN s.queue \subseteq 0..(s.order - 1)
  BY DEF QueueTypeOK
<1>2. ControlWrites(s.queue) \subseteq 0..(s.order - 1)
  BY <1>1 DEF ControlWrites
<1>3. IsFiniteSet(ControlWrites(s.queue))
  <2>1. IsFiniteSet(0..(s.order - 1))
    BY <1>1, FS_Interval
  <2> QED BY <1>2, <2>1, FS_Subset
<1>4. \A i \in DOMAIN s.queue : s.queue[i] \in CommandTypes
  BY DEF QueueTypeOK
<1>5. \A c \in CommandTypes :
        c.priority = UserPriority /\ c.name = TCV => c.value \in Control
  BY NamesAssumption DEF CommandTypes, UserPriority, StatusPriority
<1> QED BY <1>1, <1>2, <1>3, <1>4, <1>5 DEF ControlWrites

\* A write by name leaves the reads and the packed writes alone.
LEMMA EnqueueByName ==
  ASSUME NEW s, QueueInv(s), NEW name \in PropertyNames, NEW value \in Raw
  PROVE  QueueInv(Enqueue(s, name, value))
<1> DEFINE t == Enqueue(s, name, value)
<1>0. QueueTypeOK(s) /\ name # TCV /\ UserCommand(name, value) \in CommandTypes
  BY NamesAssumption DEF QueueInv, UserCommand, CommandTypes
<1>1. /\ t.order = s.order + 1
      /\ s.order \notin DOMAIN s.queue
      /\ DOMAIN t.queue = DOMAIN s.queue \cup {s.order}
      /\ \A i \in DOMAIN s.queue : i < s.order /\ t.queue[i] = s.queue[i]
      /\ t.queue[s.order] = UserCommand(name, value)
      /\ t.queue \in [DOMAIN t.queue -> CommandTypes]
      /\ DOMAIN t.queue \subseteq 0..(t.order - 1)
      /\ StatusReads(t.queue) = StatusReads(s.queue)
      /\ ControlWrites(t.queue) = ControlWrites(s.queue)
  BY <1>0, EnqueueQueue
<1>2. t.pending = s.pending /\ t.count = s.count
  BY <1>0 DEF Enqueue
<1> HIDE DEF t
<1>3. QueueTypeOK(t)
  BY <1>0, <1>1, <1>2 DEF QueueTypeOK
<1>4. ReadsExact(t.queue, pending_status)
  <2>1. \A i \in StatusReads(s.queue) : t.queue[i] = s.queue[i]
    BY <1>1 DEF StatusReads
  <2> QED BY <1>1, <2>1 DEF QueueInv, ReadsExact
<1>5. \A i \in ControlWrites(s.queue) : t.queue[i] = s.queue[i]
  BY <1>1 DEF ControlWrites
<1>6. PendingExact(t)
  BY <1>1, <1>2, <1>5 DEF QueueInv, PendingExact
<1>7. CarriesWrites(t)
  <2> SUFFICES ASSUME NEW i \in ControlWrites(t.queue), NEW f \in ControlFields
               PROVE  /\ \A j \in ControlWrites(t.queue) :
                           i < j /\ SetLast(t.queue, f, i, j)
                             => t.queue[j].value.val[f] = t.queue[i].value.val[f]
                      /\ SetLast(t.queue, f, i, t.order)
                           => t.pending.val[f] = t.queue[i].value.val[f]
    BY DEF CarriesWrites
  <2>1. \A j \in ControlWrites(s.queue) :
           SetLast(t.queue, f, i, j) <=> SetLast(s.queue, f, i, j)
    BY <1>1, <1>5 DEF SetLast
  <2>2. SetLast(t.queue, f, i, t.order) => SetLast(s.queue, f, i, s.order)
    <3>1. \A k \in ControlWrites(s.queue) : k \in Nat /\ k < s.order
      BY <1>0, ControlWritesType
    <3>2. s.order \in Nat
      BY <1>0 DEF QueueTypeOK
    <3> QED BY <1>1, <1>5, <3>1, <3>2 DEF SetLast
  <2> QED BY <1>1, <1>2, <1>5, <2>1, <2>2 DEF QueueInv, CarriesWrites
<1> QED BY <1>3, <1>4, <1>6, <1>7 DEF QueueInv, t

\* A packed write that keeps every field it does not flag keeps the invariant.
LEMMA EnqueueControl ==
  ASSUME NEW s, QueueInv(s), NEW c \in Control,
         s.pending # NoControl =>
           \A f \in ControlFields \ c.flags : c.val[f] = s.pending.val[f]
  PROVE  QueueInv(Enqueue(s, TCV, c))
<1> DEFINE t == Enqueue(s, TCV, c)
           CW == ControlWrites(s.queue)
<1>0. QueueTypeOK(s) /\ UserCommand(TCV, c) \in CommandTypes /\ s.order \in Nat
  BY DEF QueueInv, QueueTypeOK, UserCommand, CommandTypes
<1>1. /\ t.order = s.order + 1
      /\ s.order \notin DOMAIN s.queue
      /\ DOMAIN t.queue = DOMAIN s.queue \cup {s.order}
      /\ \A i \in DOMAIN s.queue : i < s.order /\ t.queue[i] = s.queue[i]
      /\ t.queue[s.order] = UserCommand(TCV, c)
      /\ t.queue \in [DOMAIN t.queue -> CommandTypes]
      /\ DOMAIN t.queue \subseteq 0..(t.order - 1)
      /\ StatusReads(t.queue) = StatusReads(s.queue)
      /\ ControlWrites(t.queue) = CW \cup {s.order}
  BY <1>0, EnqueueQueue
<1>2. t.pending = c /\ t.count = s.count + 1 /\ t.queue[s.order].value = c
  BY <1>1 DEF Enqueue, UserCommand
<1>3. /\ IsFiniteSet(CW) /\ CW \subseteq DOMAIN s.queue
      /\ \A i \in CW : i \in Nat /\ i < s.order
  BY <1>0, ControlWritesType
<1>4. \A i \in CW : t.queue[i] = s.queue[i]
  BY <1>1, <1>3
<1> HIDE DEF t
<1>5. QueueTypeOK(t)
  BY <1>0, <1>1, <1>2 DEF QueueTypeOK
<1>6. ReadsExact(t.queue, pending_status)
  <2>1. \A i \in StatusReads(s.queue) : t.queue[i] = s.queue[i]
    BY <1>1 DEF StatusReads
  <2> QED BY <1>1, <2>1 DEF QueueInv, ReadsExact
<1>7. PendingExact(t)
  <2>1. Cardinality(CW \cup {s.order}) = Cardinality(CW) + 1
    BY <1>1, <1>3, FS_AddElement
  <2>2. t.count = Cardinality(ControlWrites(t.queue))
    BY <1>1, <1>2, <2>1 DEF QueueInv, PendingExact
  <2>3. t.pending # NoControl /\ ControlWrites(t.queue) # {}
    BY <1>1, <1>2, ValuesAssumption
  <2>4. \A i \in ControlWrites(t.queue) :
          (\A j \in ControlWrites(t.queue) : j <= i) => t.pending = t.queue[i].value
    <3>1. \A i \in CW : ~(s.order <= i)
      BY <1>0, <1>3
    <3> QED BY <1>1, <1>2, <3>1
  <2> QED BY <2>2, <2>3, <2>4 DEF PendingExact
<1>8. CarriesWrites(t)
  <2> SUFFICES ASSUME NEW i \in CW \cup {s.order}, NEW f \in ControlFields
               PROVE  /\ \A j \in CW \cup {s.order} :
                           i < j /\ SetLast(t.queue, f, i, j)
                             => t.queue[j].value.val[f] = t.queue[i].value.val[f]
                      /\ SetLast(t.queue, f, i, t.order)
                           => t.pending.val[f] = t.queue[i].value.val[f]
    BY <1>1 DEF CarriesWrites
  <2>1. CASE i = s.order
    <3>1. \A j \in CW \cup {s.order} : ~(i < j)
      BY <1>0, <1>3, <2>1
    <3> QED BY <1>2, <2>1, <3>1
  <2>2. CASE i \in CW
    <3>1. CW # {} /\ s.pending # NoControl
      BY <2>2 DEF QueueInv, PendingExact
    <3>2. ASSUME NEW j \in CW, i < j, SetLast(t.queue, f, i, j)
          PROVE  t.queue[j].value.val[f] = t.queue[i].value.val[f]
      <4>1. SetLast(s.queue, f, i, j)
        BY <1>1, <1>4, <2>2, <3>2 DEF SetLast
      <4> QED BY <1>4, <2>2, <3>2, <4>1 DEF QueueInv, CarriesWrites
    <3>3. ASSUME SetLast(t.queue, f, i, s.order) \/ SetLast(t.queue, f, i, t.order)
          PROVE  c.val[f] = t.queue[i].value.val[f]
      <4>1. \A k \in CW : k <= s.order /\ k <= t.order
        BY <1>0, <1>1, <1>3
      <4>2. SetLast(s.queue, f, i, s.order)
        BY <1>1, <1>4, <2>2, <3>3, <4>1 DEF SetLast
      <4>3. s.pending.val[f] = s.queue[i].value.val[f]
        BY <2>2, <4>2 DEF QueueInv, CarriesWrites
      <4>4. i < s.order /\ s.order <= t.order
        BY <1>0, <1>1, <1>3, <2>2
      <4>5. f \notin t.queue[s.order].value.flags
        BY <1>0, <1>1, <3>3, <4>4 DEF SetLast
      <4> QED BY <1>2, <1>4, <2>2, <3>1, <4>3, <4>5
    <3> QED BY <1>2, <2>2, <3>2, <3>3
  <2> QED BY <2>1, <2>2
<1> QED BY <1>5, <1>6, <1>7, <1>8 DEF QueueInv, t

\* Device.queue_command keeps the invariant, packed or by name.
LEMMA BaseQueueCommandInv ==
  ASSUME NEW s, QueueInv(s), control \in Control \cup {NoControl},
         NEW name \in PropertyNames, NEW value \in Raw
  PROVE  QueueInv(BaseQueueCommand(s, name, value))
<1> DEFINE c == CommandControl(s.pending)
<1>1. CASE name \in ControlFields /\ c \notin {NoControl, ZeroControl}
  <2>1. c \in Control
    BY <1>1 DEF CommandControl, QueueInv, QueueTypeOK
  <2> DEFINE d == ConvertToControlValue(c, name, value)
  <2>2. d \in Control
    BY <1>1, <2>1, ConvertType
  <2>3. \A f \in ControlFields \ d.flags : d.val[f] = c.val[f]
    BY <1>1, <2>1, ConvertMerges
  <2>4. s.pending # NoControl => c = s.pending
    BY DEF CommandControl
  <2> HIDE DEF d
  <2>5. QueueInv(Enqueue(s, TCV, d))
    BY <2>2, <2>3, <2>4, EnqueueControl
  <2> QED BY <1>1, <2>5 DEF BaseQueueCommand, d
<1>2. CASE ~(name \in ControlFields /\ c \notin {NoControl, ZeroControl})
  BY <1>2, EnqueueByName DEF BaseQueueCommand
<1> QED BY <1>1, <1>2

-----------------------------------------------------------------------------
(* One lemma per action.                                                   *)

\* Storing what a queue_command call accumulated.
LEMMA QueueStep ==
  ASSUME TypeOK, NEW s, QueueInv(s), Queue(s)
  PROVE  IInv'
<1>1. /\ Current'.queue = s.queue /\ Current'.order = s.order
      /\ Current'.pending = s.pending /\ Current'.count = s.count
      /\ pending_status' = pending_status
  BY DEF Queue, Current
<1>2. QueueTypeOK(Current)'
  BY <1>1 DEF QueueInv, QueueTypeOK
<1>3. ReadsExact(Current.queue, pending_status)'
  BY <1>1 DEF QueueInv
<1>4. PendingExact(Current)'
  BY <1>1 DEF QueueInv, PendingExact
<1>5. CarriesWrites(Current)'
  BY <1>1 DEF QueueInv, CarriesWrites
<1>6. TypeOK'
  BY <1>2 DEF TypeOK, Queue, storeVars
<1> QED BY <1>2, <1>3, <1>4, <1>5, <1>6 DEF IInv, QueueInv

\* A write of an ordinary name keeps the invariant.
LEMMA QueueWriteStep ==
  ASSUME IInv, NEW w \in UserWrites, QueueWrite(w[1], w[2])
  PROVE  IInv'
<1>1. w[1] \in PropertyNames /\ w[2] \in Raw
  BY ValuesAssumption
<1>2. QueueInv(BaseQueueCommand(Current, w[1], w[2]))
  BY <1>1, BaseQueueCommandInv DEF IInv, TypeOK
<1> QED BY <1>2, QueueStep DEF IInv, QueueWrite

\* So does the work mode OFF, a power command.
LEMMA QueueModeOffStep ==
  ASSUME IInv, QueueModeOff
  PROVE  IInv'
<1>1. "t_power" \in PropertyNames /\ Off \in Raw
  BY RawAssumption, NamesAssumption DEF PropertyNames
<1>2. QueueInv(BaseQueueCommand(Current, "t_power", Off))
  BY <1>1, BaseQueueCommandInv DEF IInv, TypeOK
<1> QED BY <1>2, QueueStep DEF IInv, QueueModeOff

\* So does any other work mode, which queues a power command first.
LEMMA QueueWorkModeStep ==
  ASSUME IInv, NEW mode \in WorkModes, QueueWorkMode(mode)
  PROVE  IInv'
<1>1. {"t_power", "t_work_mode"} \subseteq PropertyNames /\ {On, mode} \subseteq Raw
  BY RawAssumption, NamesAssumption, ValuesAssumption DEF PropertyNames
<1>2. QueueInv(BaseQueueCommand(Current, "t_power", On))
  BY <1>1, BaseQueueCommandInv DEF IInv, TypeOK
<1>3. QueueInv(BaseQueueCommand(BaseQueueCommand(Current, "t_power", On), "t_work_mode", mode))
  BY <1>1, <1>2, BaseQueueCommandInv DEF IInv, TypeOK
<1> QED BY <1>3, QueueStep DEF IInv, QueueWorkMode

\* So do the five commands of the turbo macro.
LEMMA QueueTurboStep ==
  ASSUME IInv, QueueTurbo
  PROVE  IInv'
<1> DEFINE turbo == BaseQueueCommand(Current, "t_temp_heatcold", On)
           speed == BaseQueueCommand(turbo, "t_fan_speed", Off)
           quiet == BaseQueueCommand(speed, "t_fan_mute", Off)
           sleep == BaseQueueCommand(quiet, "t_sleep", Off)
           eight == BaseQueueCommand(sleep, "t_temp_eight", Off)
<1>0. /\ {"t_temp_heatcold", "t_fan_speed", "t_fan_mute", "t_sleep", "t_temp_eight"}
           \subseteq PropertyNames
      /\ {On, Off} \subseteq Raw
      /\ control \in Control \cup {NoControl}
  BY RawAssumption DEF QueueTurbo, PropertyNames, IInv, TypeOK
<1>1. QueueInv(turbo)
  BY <1>0, BaseQueueCommandInv DEF IInv
<1> HIDE DEF turbo
<1>2. QueueInv(speed)
  BY <1>0, <1>1, BaseQueueCommandInv
<1> HIDE DEF speed
<1>3. QueueInv(quiet)
  BY <1>0, <1>2, BaseQueueCommandInv
<1> HIDE DEF quiet
<1>4. QueueInv(sleep)
  BY <1>0, <1>3, BaseQueueCommandInv
<1> HIDE DEF sleep
<1>5. QueueInv(eight)
  BY <1>0, <1>4, BaseQueueCommandInv
<1>6. Queue(eight)
  BY DEF QueueTurbo, turbo, speed, quiet, sleep
<1> HIDE DEF eight
<1> QED BY <1>5, <1>6, QueueStep DEF IInv

\* update_property keeps the types of the property store.
LEMMA UpdatePropertyType ==
  ASSUME TypeOK, NEW name \in PropertyNames, NEW value \in Raw, NEW isReport \in BOOLEAN,
         UpdateProperty(name, value, isReport)
  PROVE  /\ control' \in Control \cup {NoControl}
         /\ properties' \in [PropertyNames -> Values]
         /\ known' \subseteq PropertyNames \cup {TCV}
         /\ reported' \subseteq known'
<1>1. properties' \in [PropertyNames -> Values]
  <2>1. \A n \in PropertyNames : properties[n] \in Values /\ value \in Values
    BY DEF TypeOK, Values
  <2> QED BY <2>1 DEF UpdateProperty, StoreUpdate
<1>2. control' = control /\ known' = known \cup {name}
      /\ reported' \in {reported, reported \cup {name}}
  BY DEF UpdateProperty, StoreUpdate
<1> QED BY <1>1, <1>2 DEF TypeOK

\* So does storing a packed control with all the fields it controls.
LEMMA UpdateControlType ==
  ASSUME TypeOK, NEW c \in Control, NEW isReport \in BOOLEAN, UpdateControl(c, isReport)
  PROVE  /\ control' \in Control \cup {NoControl}
         /\ properties' \in [PropertyNames -> Values]
         /\ known' \subseteq PropertyNames \cup {TCV}
         /\ reported' \subseteq known'
<1>1. properties' \in [PropertyNames -> Values]
  <2> DEFINE update == [f \in ControlFields |-> Decode(f, c.val[f])]
  <2>1. \A f \in ControlFields : update[f] \in Values
    BY DEF Decode, Values, Control
  <2>2. \A n \in PropertyNames : properties[n] \in Values
    BY DEF TypeOK
  <2> HIDE DEF update
  <2>3. DOMAIN update = ControlFields
    BY DEF update
  <2>4. properties' = [n \in PropertyNames |->
                         IF n \in DOMAIN update THEN update[n] ELSE properties[n]]
    BY DEF UpdateControl, StoreUpdate, update
  <2> QED BY <2>1, <2>2, <2>3, <2>4
<1>2. /\ control' = c /\ known' = known \cup ControlFields \cup {TCV}
      /\ reported' \in {reported, reported \cup ControlFields \cup {TCV}}
  BY DEF UpdateControl, StoreUpdate
<1> QED BY <1>1, <1>2 DEF TypeOK, PropertyNames

\* A report of one property leaves the queue alone.
LEMMA ReportPropertyStep ==
  ASSUME IInv, NEW r \in Reports, ReportProperty(r[1], r[2])
  PROVE  IInv'
<1>1. r[1] \in PropertyNames /\ r[2] \in Raw
  BY ValuesAssumption
<1>2. Current' = Current /\ pending_status' = pending_status
  BY DEF ReportProperty, queueVars, Current
<1>3. QueueInv(Current)'
  BY <1>2 DEF IInv, QueueInv
<1>4. TypeOK'
  BY <1>1, <1>2, UpdatePropertyType DEF IInv, TypeOK, ReportProperty
<1> QED BY <1>3, <1>4 DEF IInv

\* So does a report of the packed control.
LEMMA ReportControlStep ==
  ASSUME IInv, NEW c \in ReportedControls, ReportControl(c)
  PROVE  IInv'
<1>1. c \in Control
  BY ValuesAssumption
<1>2. Current' = Current /\ pending_status' = pending_status
  BY DEF ReportControl, queueVars, Current
<1>3. QueueInv(Current)'
  BY <1>2 DEF IInv, QueueInv
<1>4. TypeOK'
  BY <1>1, <1>2, UpdateControlType DEF IInv, TypeOK, ReportControl
<1> QED BY <1>3, <1>4 DEF IInv

\* Taking the next command i out of the queue: the reads and the packed writes
\* that remain are those of before, and i was the first of its kind.
LEMMA TakeNext ==
  ASSUME QueueTypeOK(Current), NEW i \in DOMAIN commands_queue,
         IsNext(commands_queue, i),
         commands_queue' = Restrict(commands_queue, DOMAIN commands_queue \ {i})
  PROVE  /\ DOMAIN commands_queue' = DOMAIN commands_queue \ {i}
         /\ \A j \in DOMAIN commands_queue' : commands_queue'[j] = commands_queue[j]
         /\ commands_queue' \in [DOMAIN commands_queue' -> CommandTypes]
         /\ StatusReads(commands_queue') = StatusReads(commands_queue) \ {i}
         /\ ControlWrites(commands_queue') = ControlWrites(commands_queue) \ {i}
         /\ i \in ControlWrites(commands_queue) =>
              \A j \in ControlWrites(commands_queue) : i <= j
         /\ i \in ControlWrites(commands_queue) => i \notin StatusReads(commands_queue)
<1>1. /\ DOMAIN commands_queue' = DOMAIN commands_queue \ {i}
      /\ \A j \in DOMAIN commands_queue' : commands_queue'[j] = commands_queue[j]
  BY DEF Restrict
<1>2. \A j \in DOMAIN commands_queue : commands_queue[j] \in CommandTypes
  BY DEF QueueTypeOK, Current
<1>3. commands_queue' \in [DOMAIN commands_queue' -> CommandTypes]
  BY <1>1, <1>2 DEF Restrict
<1>4. StatusReads(commands_queue') = StatusReads(commands_queue) \ {i}
  BY <1>1 DEF StatusReads
<1>5. ControlWrites(commands_queue') = ControlWrites(commands_queue) \ {i}
  BY <1>1 DEF ControlWrites
<1>6. ASSUME i \in ControlWrites(commands_queue)
      PROVE  /\ \A j \in ControlWrites(commands_queue) : i <= j
             /\ i \notin StatusReads(commands_queue)
  BY <1>6 DEF IsNext, Before, ControlWrites, StatusReads, UserPriority, StatusPriority
<1> QED BY <1>1, <1>3, <1>4, <1>5, <1>6

\* A field's last write among the remaining packed writes was its last write.
LEMMA TakeSetLast ==
  ASSUME NEW q, NEW r, NEW i, NEW a \in ControlWrites(r), NEW b, NEW f,
         ControlWrites(r) = ControlWrites(q) \ {i},
         \A j \in ControlWrites(r) : r[j] = q[j],
         i \in ControlWrites(q) => \A j \in ControlWrites(q) : i <= j,
         ControlWrites(q) \subseteq Nat,
         SetLast(r, f, a, b)
  PROVE  SetLast(q, f, a, b)
<1>1. a \in ControlWrites(q) /\ r[a] = q[a]
  OBVIOUS
<1>2. ASSUME NEW k \in ControlWrites(q), a < k, k <= b
      PROVE  f \notin q[k].value.flags
  <2>1. k # i
    <3>1. i \in ControlWrites(q) => i <= a
      BY <1>1
    <3>2. k = i => FALSE
      BY <1>1, <1>2, <3>1
    <3> QED BY <3>2
  <2>2. k \in ControlWrites(r)
    BY <2>1
  <2> QED BY <1>2, <2>2 DEF SetLast
<1> QED BY <1>1, <1>2 DEF SetLast

\* command_handler keeps the invariant: the least command leaves the queue and
\* its updater settles _pending_status or _pending_control for it.
LEMMA FetchStep ==
  ASSUME IInv, Fetch
  PROVE  IInv'
<1> DEFINE q == commands_queue
           r == commands_queue'
<1>1. PICK i \in DOMAIN q :
        /\ IsNext(q, i)
        /\ r = Restrict(q, DOMAIN q \ {i})
        /\ UNCHANGED command_order
        /\ FetchRead(i) \/ FetchControl(i) \/ FetchProperty(i)
  BY DEF Fetch
<1>2. QueueTypeOK(Current) /\ TypeOK /\ QueueInv(Current)
  BY DEF IInv, QueueInv
<1>3. /\ DOMAIN r = DOMAIN q \ {i}
      /\ \A j \in DOMAIN r : r[j] = q[j]
      /\ r \in [DOMAIN r -> CommandTypes]
      /\ StatusReads(r) = StatusReads(q) \ {i}
      /\ ControlWrites(r) = ControlWrites(q) \ {i}
      /\ i \in ControlWrites(q) => \A j \in ControlWrites(q) : i <= j
      /\ i \in ControlWrites(q) => i \notin StatusReads(q)
  BY <1>1, <1>2, TakeNext
<1>4. /\ IsFiniteSet(ControlWrites(q)) /\ ControlWrites(q) \subseteq DOMAIN q
      /\ ControlWrites(q) \subseteq Nat
      /\ \A j \in ControlWrites(q) : j < command_order /\ q[j].value \in Control
  BY <1>2, ControlWritesType DEF Current
<1>5. /\ command_order \in Nat /\ DOMAIN q \subseteq 0..(command_order - 1)
      /\ pending_control \in Control \cup {NoControl}
      /\ pending_control_count \in Nat
      /\ \A j \in DOMAIN q : q[j] \in CommandTypes
  BY <1>2 DEF QueueTypeOK, Current
<1>6. /\ \A j \in StatusReads(r) : r[j] = q[j]
      /\ \A j \in ControlWrites(r) : r[j] = q[j]
  BY <1>3 DEF StatusReads, ControlWrites
<1>7. /\ pending_status = {q[j].name : j \in StatusReads(q)}
      /\ \A j, k \in StatusReads(q) : q[j].name = q[k].name => j = k
  BY <1>2 DEF QueueInv, ReadsExact, Current
<1>8. /\ pending_control_count = Cardinality(ControlWrites(q))
      /\ pending_control = NoControl <=> ControlWrites(q) = {}
      /\ \A j \in ControlWrites(q) :
           (\A k \in ControlWrites(q) : k <= j) => pending_control = q[j].value
  BY <1>2 DEF QueueInv, PendingExact, Current
<1>9. \A j \in ControlWrites(q), f \in ControlFields :
        /\ \A k \in ControlWrites(q) :
             j < k /\ SetLast(q, f, j, k) => q[k].value.val[f] = q[j].value.val[f]
        /\ SetLast(q, f, j, command_order) => pending_control.val[f] = q[j].value.val[f]
  BY <1>2 DEF QueueInv, CarriesWrites, Current
\* What is left once the three kinds of command have been told apart.
<1>10. SUFFICES /\ pending_control' \in Control \cup {NoControl}
                /\ pending_control_count' \in Nat
                /\ pending_status' = {q[j].name : j \in StatusReads(q) \ {i}}
                /\ pending_control_count' = Cardinality(ControlWrites(r))
                /\ pending_control' = NoControl <=> ControlWrites(r) = {}
                /\ ControlWrites(r) # {} => pending_control' = pending_control
                /\ control' \in Control \cup {NoControl}
                /\ properties' \in [PropertyNames -> Values]
                /\ known' \subseteq PropertyNames \cup {TCV}
                /\ reported' \subseteq known'
  <2>1. QueueTypeOK(Current)'
    BY <1>1, <1>3, <1>5, <1>10 DEF QueueTypeOK, Current
  <2>2. ReadsExact(Current.queue, pending_status)'
    BY <1>3, <1>6, <1>7, <1>10 DEF ReadsExact, Current
  <2>3. PendingExact(Current)'
    <3>1. ASSUME NEW j \in ControlWrites(r), \A k \in ControlWrites(r) : k <= j
          PROVE  pending_control' = r[j].value
      <4>1. \A k \in ControlWrites(q) : k <= j
        BY <1>3, <3>1
      <4> QED BY <1>3, <1>6, <1>8, <1>10, <3>1, <4>1
    <3> QED BY <1>10, <3>1 DEF PendingExact, Current
  <2>4. CarriesWrites(Current)'
    <3>1. ASSUME NEW j \in ControlWrites(r), NEW b, NEW f, SetLast(r, f, j, b)
          PROVE  SetLast(q, f, j, b)
      BY <1>3, <1>4, <1>6, <3>1, TakeSetLast
    <3>2. ASSUME NEW j \in ControlWrites(r), NEW f \in ControlFields
          PROVE  /\ \A k \in ControlWrites(r) :
                      j < k /\ SetLast(r, f, j, k) => r[k].value.val[f] = r[j].value.val[f]
                 /\ SetLast(r, f, j, command_order)
                      => pending_control'.val[f] = r[j].value.val[f]
      BY <1>3, <1>6, <1>9, <1>10, <3>1
    <3>3. /\ Current'.queue = r /\ Current'.order = command_order
          /\ Current'.pending = pending_control'
      BY <1>1 DEF Current
    <3> HIDE DEF r
    <3> QED BY <3>2, <3>3 DEF CarriesWrites
  <2>5. TypeOK'
    <3>1. pending_status' \subseteq pending_status
      BY <1>7, <1>10
    <3> QED BY <1>2, <1>10, <2>1, <3>1 DEF TypeOK
  <2> QED BY <2>1, <2>2, <2>3, <2>4, <2>5 DEF IInv, QueueInv
<1>11. CASE FetchRead(i)
  <2>1. i \in StatusReads(q) /\ i \notin ControlWrites(q)
    BY <1>11, <1>3 DEF FetchRead, StatusReads
  <2>2. pending_status' = {q[j].name : j \in StatusReads(q) \ {i}}
    BY <1>7, <1>11, <2>1 DEF FetchRead
  <2>3. UNCHANGED <<pending_control, pending_control_count, control, properties, known, reported>>
    BY <1>11 DEF FetchRead, storeVars
  <2>4. ControlWrites(r) = ControlWrites(q)
    BY <1>3, <2>1
  <2> QED BY <1>2, <1>5, <1>8, <2>2, <2>3, <2>4 DEF TypeOK
<1>12. CASE FetchControl(i)
  <2>1. i \in ControlWrites(q) /\ i \notin StatusReads(q)
    BY <1>3, <1>12 DEF FetchControl
  <2>2. Cardinality(ControlWrites(r)) = pending_control_count - 1
    BY <1>3, <1>4, <1>8, <2>1, FS_RemoveElement
  <2>3. IsFiniteSet(ControlWrites(r))
    BY <1>3, <1>4, FS_RemoveElement
  <2>4. /\ pending_control_count' = Cardinality(ControlWrites(r))
        /\ pending_control_count' \in Nat
        /\ pending_control_count' = 0 <=> ControlWrites(r) = {}
    BY <1>12, <2>2, <2>3, FS_CardinalityType, FS_EmptySet DEF FetchControl
  <2>5. pending_control # NoControl
    BY <1>8, <2>1
  <2>6. pending_control' = IF pending_control_count' = 0 THEN NoControl ELSE pending_control
    BY <1>12 DEF FetchControl
  <2>7. pending_status' = {q[j].name : j \in StatusReads(q) \ {i}}
    BY <1>7, <1>12, <2>1 DEF FetchControl
  <2>8. /\ control' \in Control \cup {NoControl}
        /\ properties' \in [PropertyNames -> Values]
        /\ known' \subseteq PropertyNames \cup {TCV}
        /\ reported' \subseteq known'
    BY <1>2, <1>4, <1>12, <2>1, UpdateControlType DEF FetchControl
  <2> QED BY <1>5, <2>4, <2>5, <2>6, <2>7, <2>8
<1>13. CASE FetchProperty(i)
  <2>1. i \notin StatusReads(q) /\ i \notin ControlWrites(q)
    BY <1>13 DEF FetchProperty, StatusReads, ControlWrites, UserPriority, StatusPriority
  <2>2. q[i].name \in PropertyNames /\ q[i].value \in Raw
    BY <1>5, <1>13 DEF FetchProperty, CommandTypes, UserPriority, StatusPriority
  <2>3. /\ control' \in Control \cup {NoControl}
        /\ properties' \in [PropertyNames -> Values]
        /\ known' \subseteq PropertyNames \cup {TCV}
        /\ reported' \subseteq known'
    BY <1>2, <1>13, <2>2, UpdatePropertyType DEF FetchProperty
  <2>4. ControlWrites(r) = ControlWrites(q) /\ StatusReads(q) \ {i} = StatusReads(q)
    BY <1>3, <2>1
  <2>5. UNCHANGED <<pending_status, pending_control, pending_control_count>>
    BY <1>13 DEF FetchProperty
  <2> QED BY <1>5, <1>7, <1>8, <2>3, <2>4, <2>5
<1> QED BY <1>1, <1>11, <1>12, <1>13

\* queue_status keeps the invariant: it appends one read for each property
\* that has none, behind the numbers already used.
LEMMA QueueStatusStep ==
  ASSUME IInv, QueueStatus
  PROVE  IInv'
<1> DEFINE q == commands_queue
           r == commands_queue'
           n == Cardinality(Missing)
           fresh == command_order..(command_order + n - 1)
<1>1. QueueTypeOK(Current) /\ TypeOK /\ QueueInv(Current)
  BY DEF IInv, QueueInv
<1>2. n \in Nat /\ Missing \subseteq 1..Len(StatusFields)
  <2>1. Len(StatusFields) \in Nat
    BY StatusFieldsAssumption
  <2>2. IsFiniteSet(1..Len(StatusFields))
    BY <2>1, FS_Interval
  <2>3. Missing \in SUBSET (1..Len(StatusFields))
    BY DEF Missing
  <2> QED BY <2>2, <2>3, FS_Subset, FS_CardinalityType
<1>0. /\ Missing \subseteq Nat
      /\ \A p \in Missing : StatusFields[p] \in PropertyNames \cup {TCV}
      /\ \A p, o \in Missing : StatusFields[p] = StatusFields[o] => p = o
  <2>1. Len(StatusFields) \in Nat
    BY StatusFieldsAssumption
  <2>2. \A p \in 1..Len(StatusFields) : p \in Nat /\ StatusFields[p] \in PropertyNames \cup {TCV}
    BY <2>1, StatusFieldsAssumption
  <2> QED BY <1>2, <2>2, StatusFieldsAssumption
<1>3. PICK batch \in [1..n -> Missing] :
        /\ Ordered(batch)
        /\ r = [i \in DOMAIN q \cup fresh |->
                  IF i \in fresh
                  THEN StatusRead(StatusFields[batch[i - command_order + 1]]) ELSE q[i]]
        /\ command_order' = command_order + n
        /\ pending_status' = pending_status \cup {StatusFields[p] : p \in Missing}
        /\ UNCHANGED <<pending_control, pending_control_count, storeVars>>
  BY DEF QueueStatus
<1>4. /\ command_order \in Nat /\ DOMAIN q \subseteq 0..(command_order - 1)
      /\ \A i \in DOMAIN q : q[i] \in CommandTypes
  BY <1>1 DEF QueueTypeOK, Current
<1> DEFINE field(i) == batch[i - command_order + 1]
<1> HIDE DEF n
<1>5. /\ DOMAIN r = DOMAIN q \cup fresh
      /\ \A i \in DOMAIN q : i \notin fresh /\ r[i] = q[i]
      /\ \A i \in fresh : r[i] = StatusRead(StatusFields[field(i)])
  <2>1. \A i \in DOMAIN q : i \notin fresh
    BY <1>2, <1>4
  <2> QED BY <1>3, <2>1
<1>6. \A i \in fresh : field(i) \in Missing
  <2>1. \A i \in fresh : i - command_order + 1 \in 1..n
    BY <1>2, <1>4
  <2> QED BY <1>3, <2>1
<1>7. \A p \in Missing : \E i \in fresh : field(i) = p
  <2> SUFFICES ASSUME NEW p \in Missing PROVE \E i \in fresh : field(i) = p
    OBVIOUS
  <2>1. PICK k \in 1..n : batch[k] = p
    BY <1>3 DEF Ordered
  <2>2. k + command_order - 1 \in fresh /\ (k + command_order - 1) - command_order + 1 = k
    BY <1>2, <1>4
  <2> QED BY <2>1, <2>2
<1>8. \A i, j \in fresh : field(i) = field(j) => i = j
  <2> SUFFICES ASSUME NEW i \in fresh, NEW j \in fresh, field(i) = field(j) PROVE i = j
    OBVIOUS
  <2> DEFINE k == i - command_order + 1
             l == j - command_order + 1
  <2>1. k \in 1..n /\ l \in 1..n /\ i = k + command_order - 1 /\ j = l + command_order - 1
    BY <1>2, <1>4
  <2>2. batch[k] \in Nat /\ batch[l] \in Nat /\ batch[k] = batch[l]
    <3>1. batch[k] = batch[l]
      OBVIOUS
    <3>2. batch[k] \in Missing /\ batch[l] \in Missing
      BY <1>3, <2>1
    <3> QED BY <1>0, <3>1, <3>2
  <2>3. (k < l => batch[k] < batch[l]) /\ (l < k => batch[l] < batch[k])
    BY <1>3, <2>1 DEF Ordered
  <2> HIDE DEF k, l
  <2>4. k = l
    BY <2>1, <2>2, <2>3
  <2> QED BY <2>1, <2>4
<1>9. \A i \in fresh : /\ r[i].name = StatusFields[field(i)]
                       /\ r[i].priority = StatusPriority
                       /\ r[i] \in CommandTypes
  <2> SUFFICES ASSUME NEW i \in fresh
               PROVE  /\ r[i].name = StatusFields[field(i)]
                      /\ r[i].priority = StatusPriority
                      /\ r[i] \in CommandTypes
    OBVIOUS
  <2>1. r[i] = StatusRead(StatusFields[field(i)])
    BY <1>5
  <2>2. StatusFields[field(i)] \in PropertyNames \cup {TCV}
    BY <1>0, <1>6
  <2> HIDE DEF r, field
  <2> QED BY <2>1, <2>2 DEF StatusRead, CommandTypes
<1> HIDE DEF r, field
<1>10. StatusReads(r) = StatusReads(q) \cup fresh
  BY <1>5, <1>9 DEF StatusReads
<1>11. ControlWrites(r) = ControlWrites(q) /\ \A i \in ControlWrites(q) : r[i] = q[i]
  BY <1>5, <1>9 DEF ControlWrites, UserPriority, StatusPriority
<1>12. \A i \in StatusReads(q) : r[i] = q[i] /\ i \notin fresh
  BY <1>5 DEF StatusReads
<1>13. /\ Current'.queue = r /\ Current'.order = command_order + n
       /\ Current'.pending = pending_control /\ Current'.count = pending_control_count
  BY <1>3 DEF Current, r
<1>14. QueueTypeOK(Current)'
  <2>1. \A i \in DOMAIN r : r[i] \in CommandTypes
    BY <1>4, <1>5, <1>9
  <2>2. r \in [DOMAIN r -> CommandTypes]
    BY <1>3, <2>1 DEF r
  <2>3. DOMAIN r \subseteq 0..(command_order + n - 1)
    BY <1>2, <1>4, <1>5
  <2> QED BY <1>1, <1>2, <1>4, <1>13, <2>2, <2>3 DEF QueueTypeOK, Current
<1>15. ReadsExact(Current.queue, pending_status)'
  <2>1. /\ pending_status = {q[j].name : j \in StatusReads(q)}
        /\ \A j, k \in StatusReads(q) : q[j].name = q[k].name => j = k
    BY <1>1 DEF QueueInv, ReadsExact, Current
  <2>2. {StatusFields[p] : p \in Missing} = {r[i].name : i \in fresh}
    BY <1>6, <1>7, <1>9
  <2>3. {r[i].name : i \in StatusReads(q)} = {q[i].name : i \in StatusReads(q)}
    BY <1>12
  <2>4. pending_status' = {r[i].name : i \in StatusReads(r)}
    BY <1>3, <1>10, <2>1, <2>2, <2>3
  <2>5. \A i, j \in fresh : r[i].name = r[j].name => i = j
    <3> SUFFICES ASSUME NEW i \in fresh, NEW j \in fresh, r[i].name = r[j].name
                 PROVE  i = j
      OBVIOUS
    <3>1. StatusFields[field(i)] = StatusFields[field(j)]
      BY <1>9
    <3>2. field(i) = field(j)
      BY <1>0, <1>6, <3>1
    <3> QED BY <1>8, <3>2
  <2>6. \A i \in StatusReads(q), j \in fresh : r[i].name # r[j].name
    BY <1>6, <1>9, <1>12, <2>1 DEF Missing
  <2>7. \A i, j \in StatusReads(r) : r[i].name = r[j].name => i = j
    BY <1>10, <1>12, <2>1, <2>5, <2>6
  <2> QED BY <1>13, <2>4, <2>7 DEF ReadsExact
<1>16. PendingExact(Current)'
  BY <1>1, <1>11, <1>13 DEF QueueInv, PendingExact, Current
<1>17. CarriesWrites(Current)'
  <2>1. \A k \in ControlWrites(q) : k \in Nat /\ k < command_order /\ k < command_order + n
    BY <1>1, <1>2, <1>4, ControlWritesType DEF Current
  <2>2. ASSUME NEW i \in ControlWrites(q), NEW f, NEW b, SetLast(r, f, i, b)
        PROVE  SetLast(q, f, i, b)
    BY <1>11, <2>2 DEF SetLast
  <2>3. ASSUME NEW i \in ControlWrites(q), NEW f, SetLast(q, f, i, command_order + n)
        PROVE  SetLast(q, f, i, command_order)
    BY <1>2, <1>4, <2>1, <2>3 DEF SetLast
  <2>4. \A i \in ControlWrites(q), f \in ControlFields :
          /\ \A j \in ControlWrites(q) :
               i < j /\ SetLast(q, f, i, j) => q[j].value.val[f] = q[i].value.val[f]
          /\ SetLast(q, f, i, command_order) => pending_control.val[f] = q[i].value.val[f]
    BY <1>1 DEF QueueInv, CarriesWrites, Current
  <2> QED BY <1>11, <1>13, <2>2, <2>3, <2>4 DEF CarriesWrites
<1>18. TypeOK'
  <2>1. {StatusFields[p] : p \in Missing} \subseteq PropertyNames \cup {TCV}
    BY <1>0
  <2> QED BY <1>1, <1>3, <1>14, <2>1 DEF TypeOK, storeVars
<1> QED BY <1>14, <1>15, <1>16, <1>17, <1>18 DEF IInv, QueueInv

-----------------------------------------------------------------------------
(* The theorems.                                                           *)

\* An idle device with its defaults satisfies the invariant.
LEMMA InitInv == Init => IInv
<1> SUFFICES ASSUME Init PROVE IInv
  OBVIOUS
<1>1. DOMAIN commands_queue = {}
  BY DEF Init
<1>2. ControlWrites(commands_queue) = {} /\ StatusReads(commands_queue) = {}
  BY <1>1 DEF ControlWrites, StatusReads
<1>3. QueueTypeOK(Current)
  <2>1. commands_queue \in [{} -> CommandTypes]
    BY DEF Init
  <2> QED BY <1>1, <2>1 DEF Init, QueueTypeOK, Current
<1>4. TypeOK
  BY <1>3, ValuesAssumption DEF Init, TypeOK
<1>5. PendingExact(Current)
  BY <1>2, FS_EmptySet DEF Init, PendingExact, Current
<1>6. ReadsExact(Current.queue, pending_status) /\ CarriesWrites(Current)
  BY <1>2 DEF Init, ReadsExact, CarriesWrites, Current
<1> QED BY <1>3, <1>4, <1>5, <1>6 DEF IInv, QueueInv

\* Every call and every stuttering step keeps the invariant.
LEMMA NextInv == IInv /\ [Next]_vars => IInv'
<1> SUFFICES ASSUME IInv, [Next]_vars PROVE IInv'
  OBVIOUS
<1>1. CASE \E w \in UserWrites : QueueWrite(w[1], w[2])
  BY <1>1, QueueWriteStep
<1>2. CASE QueueModeOff
  BY <1>2, QueueModeOffStep
<1>3. CASE \E mode \in WorkModes : QueueWorkMode(mode)
  BY <1>3, QueueWorkModeStep
<1>4. CASE QueueTurbo
  BY <1>4, QueueTurboStep
<1>5. CASE QueueStatus
  BY <1>5, QueueStatusStep
<1>6. CASE Fetch
  BY <1>6, FetchStep
<1>7. CASE \E r \in Reports : ReportProperty(r[1], r[2])
  BY <1>7, ReportPropertyStep
<1>8. CASE \E c \in ReportedControls : ReportControl(c)
  BY <1>8, ReportControlStep
<1>9. CASE UNCHANGED vars
  <2>1. Current' = Current /\ pending_status' = pending_status
    BY <1>9 DEF vars, queueVars, Current
  <2>2. QueueInv(Current)'
    BY <2>1 DEF IInv, QueueInv
  <2>3. TypeOK'
    BY <1>9, <2>1 DEF IInv, TypeOK, vars, storeVars
  <2> QED BY <2>2, <2>3 DEF IInv
<1> QED BY <1>1, <1>2, <1>3, <1>4, <1>5, <1>6, <1>7, <1>8, <1>9 DEF Next

\* The inductive invariant holds in every reachable state.
THEOREM Invariant == Spec => []IInv
BY InitInv, NextInv, PTL DEF Spec

\* The device's state keeps its types, and every queued command an insertion
\* number the counter has already passed (aircon.py Device).
THEOREM TypeCorrect == Spec => []TypeOK
<1>1. IInv => TypeOK
  BY DEF IInv
<1> QED BY <1>1, Invariant, PTL

\* A read is waiting exactly for the properties _pending_status names, and only
\* one for each (queue_status and its commands' discard).
THEOREM NoDuplicateReads == Spec => []PendingStatusExact
<1>1. IInv => PendingStatusExact
  BY DEF IInv, QueueInv, PendingStatusExact, Current
<1> QED BY <1>1, Invariant, PTL

\* The packed bookkeeping is exact: the count is the number of queued packed
\* writes, and _pending_control the last of them (queue_command's updater).
THEOREM PendingControlTracksQueue == Spec => []PendingControlExact
<1>1. IInv => PendingControlExact
  BY DEF IInv, QueueInv, PendingControlExact
<1> QED BY <1>1, Invariant, PTL

\* No queued packed write is lost to a later merge, whatever is reported in
\* between (_command_control, _convert_to_control_value).
THEOREM QueuedWritesSurvive == Spec => []NoQueuedWriteDropped
<1>1. IInv => NoQueuedWriteDropped
  BY DEF IInv, QueueInv, NoQueuedWriteDropped
<1> QED BY <1>1, Invariant, PTL

\* Fetching a command leaves the merge base of pending packed writes.
LEMMA FetchKeepsMergeBase ==
  ASSUME IInv, Fetch, pending_control # NoControl
  PROVE  CommandControl(pending_control)' = CommandControl(pending_control)
<1> DEFINE q == commands_queue
<1>1. PICK i \in DOMAIN q : FetchRead(i) \/ FetchControl(i) \/ FetchProperty(i)
  BY DEF Fetch
<1>2. CASE FetchRead(i) \/ FetchProperty(i)
  BY <1>2 DEF FetchRead, FetchProperty, CommandControl
<1>3. CASE FetchControl(i)
  <2>1. i \in ControlWrites(q) /\ control' = q[i].value
    BY <1>3 DEF FetchControl, UpdateControl
  <2>2. /\ pending_control_count = Cardinality(ControlWrites(q))
        /\ \A j \in ControlWrites(q) :
             (\A k \in ControlWrites(q) : k <= j) => pending_control = q[j].value
    BY DEF IInv, QueueInv, PendingExact, Current
  <2>3. IsFiniteSet(ControlWrites(q)) /\ \A j \in ControlWrites(q) : j \in Nat
    BY ControlWritesType DEF IInv, QueueInv, Current
  <2>4. CASE pending_control_count' = 0
    <3>1. Cardinality(ControlWrites(q) \ {i}) = Cardinality(ControlWrites(q)) - 1
          /\ IsFiniteSet(ControlWrites(q) \ {i})
      BY <2>1, <2>3, FS_RemoveElement
    <3>2. Cardinality(ControlWrites(q) \ {i}) = 0
      BY <1>3, <2>2, <2>4, <3>1 DEF FetchControl
    <3>3. ControlWrites(q) \ {i} = {}
      BY <3>1, <3>2, FS_EmptySet
    <3>4. \A k \in ControlWrites(q) : k <= i
      BY <2>1, <2>3, <3>3
    <3>5. pending_control = q[i].value
      BY <2>1, <2>2, <3>4
    <3>6. pending_control' = NoControl
      BY <1>3, <2>4 DEF FetchControl
    <3> QED BY <2>1, <3>5, <3>6 DEF CommandControl
  <2>5. CASE pending_control_count' # 0
    <3>1. pending_control' = pending_control
      BY <1>3, <2>5 DEF FetchControl
    <3> QED BY <3>1 DEF CommandControl
  <2> QED BY <2>4, <2>5
<1> QED BY <1>1, <1>2, <1>3

\* Sending a command never changes what the next write is merged into while
\* packed writes are pending (the updater in queue_command).
THEOREM SendingKeepsMergeBase == Spec => SendKeepsMergeBase
<1>1. IInv /\ [Next]_vars =>
        [(Fetch /\ pending_control # NoControl)
           => CommandControl(pending_control)' = CommandControl(pending_control)]_vars
  BY FetchKeepsMergeBase
<1> QED BY <1>1, Invariant, PTL DEF Spec, SendKeepsMergeBase

-----------------------------------------------------------------------------
(* When a write by name and a packed write wait together.                  *)

\* The queued writes by name of a controlled field.
NamedWrites(q) ==
  {i \in DOMAIN q : q[i].priority = UserPriority /\ q[i].name \in ControlFields}

\* While one waits there is nothing to merge into, in the queue or in the store.
Apart(s) ==
  /\ s.pending # ZeroControl
  /\ NamedWrites(s.queue) # {} =>
       ControlWrites(s.queue) = {} /\ control \in {NoControl, ZeroControl}

\* A packed report that is the integer 0, or meets no write by name.
ReportsInTime ==
  \A c \in ReportedControls :
    ReportControl(c) => c = ZeroControl \/ NamedWrites(commands_queue) = {}

\* A merged value flags the field it sets.
LEMMA ConvertFlags ==
  ASSUME NEW c, NEW f, NEW v
  PROVE  f \in ConvertToControlValue(c, f, v).flags
  BY DEF ConvertToControlValue, SetField

\* A merged value is never the integer 0, nor is None.
LEMMA ConvertNotZero ==
  ASSUME NEW c, NEW f, NEW v
  PROVE  ConvertToControlValue(c, f, v) # ZeroControl
  BY ConvertFlags DEF ZeroControl

LEMMA NoControlNotZero == NoControl # ZeroControl
<1>1. ZeroControl \in Control
  BY RawAssumption DEF ZeroControl, Control
<1> QED BY <1>1, ValuesAssumption

\* Without packed writes in the queue nothing is pending.
LEMMA NothingPending ==
  ASSUME NEW s, QueueInv(s)
  PROVE  s.pending = NoControl <=> ControlWrites(s.queue) = {}
  BY DEF QueueInv, PendingExact

\* What an appended command adds to the writes of each kind.
LEMMA EnqueueNamed ==
  ASSUME NEW s, QueueTypeOK(s), NEW name, NEW value,
         UserCommand(name, value) \in CommandTypes
  PROVE  LET t == Enqueue(s, name, value)
         IN  /\ name \notin ControlFields => NamedWrites(t.queue) = NamedWrites(s.queue)
             /\ name # TCV => ControlWrites(t.queue) = ControlWrites(s.queue)
<1> DEFINE t == Enqueue(s, name, value)
<1>1. /\ DOMAIN t.queue = DOMAIN s.queue \cup {s.order}
      /\ s.order \notin DOMAIN s.queue
      /\ \A i \in DOMAIN s.queue : t.queue[i] = s.queue[i]
      /\ t.queue[s.order] = UserCommand(name, value)
      /\ name # TCV => ControlWrites(t.queue) = ControlWrites(s.queue)
  BY EnqueueQueue
<1> HIDE DEF t
<1>2. t.queue[s.order].name = name
  BY <1>1 DEF UserCommand
<1>3. name \notin ControlFields => NamedWrites(t.queue) = NamedWrites(s.queue)
  BY <1>1, <1>2 DEF NamedWrites
<1> QED BY <1>1, <1>3 DEF t

\* Device.queue_command keeps them apart.
LEMMA BaseQueueCommandApart ==
  ASSUME NEW s, QueueInv(s), Apart(s), control \in Control \cup {NoControl},
         NEW name \in PropertyNames, NEW value \in Raw
  PROVE  Apart(BaseQueueCommand(s, name, value))
<1> DEFINE c == CommandControl(s.pending)
<1>0. QueueTypeOK(s) /\ TCV \notin PropertyNames /\ ControlFields \subseteq PropertyNames
  BY NamesAssumption DEF QueueInv, PropertyNames
<1>1. CASE name \in ControlFields /\ c \notin {NoControl, ZeroControl}
  <2>1. c \in Control
    BY <1>1 DEF CommandControl, QueueInv, QueueTypeOK
  <2>2. PICK d : d = ConvertToControlValue(c, name, value)
    OBVIOUS
  <2>3. d \in Control /\ d # ZeroControl
    BY <1>1, <2>1, <2>2, ConvertType, ConvertNotZero
  <2>4. PICK t : t = Enqueue(s, TCV, d)
    OBVIOUS
  <2>5. UserCommand(TCV, d) \in CommandTypes
    BY <2>3 DEF UserCommand, CommandTypes
  <2>6. t.pending = d
    BY <2>4 DEF Enqueue
  <2>7. NamedWrites(t.queue) = NamedWrites(s.queue)
    BY <1>0, <2>4, <2>5, EnqueueNamed
  <2>8. NamedWrites(s.queue) = {}
    BY <1>1, NothingPending DEF Apart, CommandControl
  <2>9. BaseQueueCommand(s, name, value) = t
    BY <1>1, <2>2, <2>4 DEF BaseQueueCommand
  <2> QED BY <2>3, <2>6, <2>7, <2>8, <2>9 DEF Apart
<1>2. CASE ~(name \in ControlFields /\ c \notin {NoControl, ZeroControl})
  <2>1. PICK t : t = Enqueue(s, name, value)
    OBVIOUS
  <2>2. UserCommand(name, value) \in CommandTypes /\ name # TCV
    BY <1>0 DEF UserCommand, CommandTypes
  <2>3. t.pending = s.pending
    BY <2>1, <2>2 DEF Enqueue
  <2>4. ControlWrites(t.queue) = ControlWrites(s.queue)
    BY <1>0, <2>1, <2>2, EnqueueNamed
  <2>5. ASSUME name \in ControlFields PROVE Apart(t)
    <3>1. ControlWrites(s.queue) = {} /\ control \in {NoControl, ZeroControl}
      BY <1>2, <2>5, NothingPending DEF Apart, CommandControl
    <3> QED BY <2>3, <2>4, <3>1 DEF Apart
  <2>6. ASSUME name \notin ControlFields PROVE Apart(t)
    <3>1. NamedWrites(t.queue) = NamedWrites(s.queue)
      BY <1>0, <2>1, <2>2, <2>6, EnqueueNamed
    <3> QED BY <2>3, <2>4, <3>1 DEF Apart
  <2>7. BaseQueueCommand(s, name, value) = t
    BY <1>2, <2>1 DEF BaseQueueCommand
  <2> QED BY <2>5, <2>6, <2>7
<1> QED BY <1>1, <1>2

\* Both invariants of what a queue_command call accumulates.
ApartInv(s) == QueueInv(s) /\ Apart(s)

LEMMA BaseQueueCommandBoth ==
  ASSUME NEW s, ApartInv(s), control \in Control \cup {NoControl},
         NEW name \in PropertyNames, NEW value \in Raw
  PROVE  ApartInv(BaseQueueCommand(s, name, value))
  BY BaseQueueCommandInv, BaseQueueCommandApart DEF ApartInv

\* Every call that queues commands keeps them apart.
LEMMA WritesApart ==
  ASSUME IInv, Apart(Current),
         \/ \E w \in UserWrites : QueueWrite(w[1], w[2])
         \/ QueueModeOff
         \/ \E mode \in WorkModes : QueueWorkMode(mode)
         \/ QueueTurbo
  PROVE  Apart(Current)'
<1>1. ApartInv(Current) /\ control \in Control \cup {NoControl}
  BY DEF ApartInv, IInv, TypeOK
<1>2. /\ {"t_power", "t_work_mode"} \subseteq PropertyNames /\ {On, Off} \subseteq Raw
      /\ WorkModes \subseteq Raw
  BY RawAssumption, NamesAssumption, ValuesAssumption DEF PropertyNames
<1>3. \E s : Apart(s) /\ Queue(s)
  <2>1. ASSUME NEW w \in UserWrites, QueueWrite(w[1], w[2]) PROVE \E s : Apart(s) /\ Queue(s)
    <3>1. w[1] \in PropertyNames /\ w[2] \in Raw
      BY ValuesAssumption
    <3>2. ApartInv(BaseQueueCommand(Current, w[1], w[2]))
      BY <1>1, <3>1, BaseQueueCommandBoth
    <3> QED BY <2>1, <3>2 DEF QueueWrite, ApartInv
  <2>2. CASE QueueModeOff
    <3>1. ApartInv(BaseQueueCommand(Current, "t_power", Off))
      BY <1>1, <1>2, BaseQueueCommandBoth
    <3> QED BY <2>2, <3>1 DEF QueueModeOff, ApartInv
  <2>3. ASSUME NEW mode \in WorkModes, QueueWorkMode(mode) PROVE \E s : Apart(s) /\ Queue(s)
    <3>1. ApartInv(BaseQueueCommand(Current, "t_power", On))
      BY <1>1, <1>2, BaseQueueCommandBoth
    <3>2. ApartInv(BaseQueueCommand(BaseQueueCommand(Current, "t_power", On), "t_work_mode", mode))
      BY <1>1, <1>2, <3>1, BaseQueueCommandBoth
    <3> QED BY <2>3, <3>2 DEF QueueWorkMode, ApartInv
  <2>4. CASE QueueTurbo
    <3> DEFINE turbo == BaseQueueCommand(Current, "t_temp_heatcold", On)
               speed == BaseQueueCommand(turbo, "t_fan_speed", Off)
               quiet == BaseQueueCommand(speed, "t_fan_mute", Off)
               sleep == BaseQueueCommand(quiet, "t_sleep", Off)
               eight == BaseQueueCommand(sleep, "t_temp_eight", Off)
    <3>0. {"t_temp_heatcold", "t_fan_speed", "t_fan_mute", "t_sleep", "t_temp_eight"}
            \subseteq PropertyNames
      BY <2>4 DEF QueueTurbo, PropertyNames
    <3>1. ApartInv(turbo)
      BY <1>1, <1>2, <3>0, BaseQueueCommandBoth
    <3> HIDE DEF turbo
    <3>2. ApartInv(speed)
      BY <1>1, <1>2, <3>0, <3>1, BaseQueueCommandBoth
    <3> HIDE DEF speed
    <3>3. ApartInv(quiet)
      BY <1>1, <1>2, <3>0, <3>2, BaseQueueCommandBoth
    <3> HIDE DEF quiet
    <3>4. ApartInv(sleep)
      BY <1>1, <1>2, <3>0, <3>3, BaseQueueCommandBoth
    <3> HIDE DEF sleep
    <3>5. ApartInv(eight)
      BY <1>1, <1>2, <3>0, <3>4, BaseQueueCommandBoth
    <3>6. Queue(eight)
      BY <2>4 DEF QueueTurbo, turbo, speed, quiet, sleep
    <3> HIDE DEF eight
    <3> QED BY <3>5, <3>6 DEF ApartInv
  <2> QED BY <2>1, <2>2, <2>3, <2>4
<1>4. PICK s : Apart(s) /\ Queue(s)
  BY <1>3
<1>5. /\ commands_queue' = s.queue /\ pending_control' = s.pending /\ control' = control
  BY <1>4 DEF Queue, storeVars
<1> QED BY <1>4, <1>5 DEF Apart, Current

\* Sending a command keeps the rest apart, and reads are no writes.
LEMMA FetchApart ==
  ASSUME IInv, Apart(Current), Fetch
  PROVE  Apart(Current)'
<1> DEFINE q == commands_queue
           r == commands_queue'
<1>1. PICK i \in DOMAIN q :
        /\ IsNext(q, i)
        /\ r = Restrict(q, DOMAIN q \ {i})
        /\ FetchRead(i) \/ FetchControl(i) \/ FetchProperty(i)
  BY DEF Fetch
<1>2. /\ DOMAIN r = DOMAIN q \ {i} /\ \A j \in DOMAIN r : r[j] = q[j]
      /\ ControlWrites(r) = ControlWrites(q) \ {i}
  BY <1>1, TakeNext DEF IInv, QueueInv
<1>3. NamedWrites(r) \subseteq NamedWrites(q)
  BY <1>2 DEF NamedWrites
<1>4. pending_control' # ZeroControl
  BY <1>1, NoControlNotZero DEF FetchRead, FetchControl, FetchProperty, Apart, Current
<1>5. CASE FetchControl(i)
  BY <1>3, <1>4, <1>5 DEF FetchControl, Apart, Current
<1>6. CASE FetchRead(i) \/ FetchProperty(i)
  <2>1. control' = control
    BY <1>6 DEF FetchRead, FetchProperty, UpdateProperty, storeVars
  <2> QED BY <1>2, <1>3, <1>4, <2>1 DEF Apart, Current
<1> QED BY <1>1, <1>5, <1>6

LEMMA QueueStatusApart ==
  ASSUME IInv, Apart(Current), QueueStatus
  PROVE  Apart(Current)'
<1> DEFINE q == commands_queue
           r == commands_queue'
<1>0. PICK fresh, batch :
        /\ r = [i \in DOMAIN q \cup fresh |->
                  IF i \in fresh
                  THEN StatusRead(StatusFields[batch[i - command_order + 1]]) ELSE q[i]]
        /\ UNCHANGED <<pending_control, pending_control_count, storeVars>>
  BY DEF QueueStatus
<1>1. /\ DOMAIN r = DOMAIN q \cup fresh
      /\ \A i \in fresh : r[i].priority = StatusPriority
      /\ \A i \in DOMAIN q \ fresh : r[i] = q[i]
      /\ pending_control' = pending_control /\ control' = control
  BY <1>0 DEF StatusRead, storeVars
<1>2. NamedWrites(r) \subseteq NamedWrites(q) /\ ControlWrites(r) \subseteq ControlWrites(q)
  BY <1>1 DEF NamedWrites, ControlWrites, UserPriority, StatusPriority
<1> QED BY <1>1, <1>2 DEF Apart, Current

\* The only way to a packed write that does not carry an unsent write by name
\* (the run device_mixed) is a first packed report that arrives while the write
\* by name waits: when packed reports come in time, MergeCoversUnsentWrites holds
\* for any fields, writes and bounds (Device.queue_command, _command_control).
THEOREM OnlyEarlyReportsMix == Spec /\ [][ReportsInTime]_vars => []MergeCoversUnsentWrites
<1>1. Init => Apart(Current)
  BY NoControlNotZero DEF Init, Apart, Current, NamedWrites
<1>2. IInv /\ Apart(Current) /\ [Next]_vars /\ [ReportsInTime]_vars => Apart(Current)'
  <2> SUFFICES ASSUME IInv, Apart(Current), [Next]_vars, [ReportsInTime]_vars
               PROVE  Apart(Current)'
    OBVIOUS
  <2>1. CASE UNCHANGED <<commands_queue, pending_control, control>>
    BY <2>1 DEF Apart, Current
  <2>2. CASE UNCHANGED vars
    BY <2>1, <2>2 DEF vars, queueVars, storeVars
  <2>3. CASE \E r \in Reports : ReportProperty(r[1], r[2])
    BY <2>1, <2>3 DEF ReportProperty, UpdateProperty, queueVars
  <2>4. ASSUME NEW c \in ReportedControls, ReportControl(c)
        PROVE  Apart(Current)'
    <3>1. /\ control' = c
          /\ UNCHANGED <<commands_queue, pending_control>>
      BY <2>4 DEF ReportControl, UpdateControl, queueVars
    <3>2. CASE UNCHANGED vars
      BY <2>2, <3>2
    <3>3. CASE ReportsInTime
      BY <2>4, <3>1, <3>3 DEF ReportsInTime, Apart, Current
    <3> QED BY <3>2, <3>3
  <2> QED
    BY <2>2, <2>3, <2>4, WritesApart, FetchApart, QueueStatusApart DEF Next
<1>3. IInv /\ Apart(Current) => MergeCoversUnsentWrites
  <2> SUFFICES ASSUME Apart(Current),
                      NEW i \in DOMAIN commands_queue, NEW j \in ControlWrites(commands_queue),
                      commands_queue[i].priority = UserPriority,
                      commands_queue[i].name \in ControlFields
               PROVE  FALSE
    BY DEF MergeCoversUnsentWrites
  <2>1. i \in NamedWrites(commands_queue)
    BY DEF NamedWrites
  <2> QED BY <2>1 DEF Apart, Current
<1> QED BY <1>1, <1>2, <1>3, Invariant, PTL DEF Spec
=============================================================================
