------------------------ MODULE ControlRegisterProofs ------------------------
(***************************************************************************)
(* The packed control integer implements PackedControl: proofs about every *)
(* register, field and fitting value, not only those of the TLC instance.  *)
(***************************************************************************)
EXTENDS ControlRegister, TLAPS

At(f) == Layout[f].at
Width(f) == Layout[f].width

\* The ten fields by name, with their places.
LEMMA FieldPlaces ==
  /\ Fields = {"t_fan_speed", "t_power", "t_work_mode", "t_temp_heatcold", "t_eco",
               "t_temp", "t_fan_power", "t_fan_leftright", "t_fan_mute", "t_temptype"}
  /\ At("t_fan_speed") = 0      /\ Width("t_fan_speed") = 4
  /\ At("t_power") = 5          /\ Width("t_power") = 1
  /\ At("t_work_mode") = 8      /\ Width("t_work_mode") = 3
  /\ At("t_temp_heatcold") = 12 /\ Width("t_temp_heatcold") = 1
  /\ At("t_eco") = 14           /\ Width("t_eco") = 1
  /\ At("t_temp") = 16          /\ Width("t_temp") = 6
  /\ At("t_fan_power") = 24     /\ Width("t_fan_power") = 1
  /\ At("t_fan_leftright") = 26 /\ Width("t_fan_leftright") = 1
  /\ At("t_fan_mute") = 28      /\ Width("t_fan_mute") = 1
  /\ At("t_temptype") = 30      /\ Width("t_temptype") = 1
BY DEF Fields, Layout, At, Width

\* Every field lies within the 32 bits.
LEMMA FieldBounds ==
  ASSUME NEW f \in Fields
  PROVE  At(f) \in 0..30 /\ Width(f) \in 1..6 /\ At(f) + Width(f) <= 31
BY FieldPlaces

\* No two fields overlap.
LEMMA FieldsDisjoint ==
  ASSUME NEW f \in Fields, NEW g \in Fields, f # g
  PROVE  At(f) + Width(f) < At(g) \/ At(g) + Width(g) < At(f)
BY FieldPlaces

\* The mask clears every change flag and no value bit.
LEMMA MaskClearsFlagsOnly ==
  ASSUME NEW f \in Fields
  PROVE  At(f) \notin MaskBits /\ \A b \in 1..Width(f) : At(f) + b \in MaskBits
BY FieldPlaces DEF MaskBits, Bit

-----------------------------------------------------------------------------
(* Setting and reading one field.                                          *)

\* A set field reads back as written and is flagged, within the 32 bits.
LEMMA SetterOwn ==
  ASSUME NEW r \in SUBSET Bit, NEW f \in Fields, NEW v, Fits(f, v)
  PROVE  /\ Setter(r, f, v) \in SUBSET Bit
         /\ Getter(Setter(r, f, v), f) = v
         /\ At(f) \in Setter(r, f, v)
<1>1. At(f) \in 0..30 /\ Width(f) \in 1..6 /\ At(f) + Width(f) <= 31
  BY FieldBounds
<1>2. v \subseteq 0..(Width(f) - 1)
  BY DEF Fits, Width
<1>3. Setter(r, f, v) = (r \ (At(f)..(At(f) + Width(f)))) \cup {At(f)}
                          \cup {At(f) + 1 + b : b \in v}
  BY DEF Setter, At, Width
<1>4. Setter(r, f, v) \in SUBSET Bit
  <2>1. \A b \in v : At(f) + 1 + b \in Bit
    BY <1>1, <1>2 DEF Bit
  <2>2. At(f) \in Bit
    BY <1>1 DEF Bit
  <2> QED BY <1>3, <2>1, <2>2
<1>5. \A b \in 0..(Width(f) - 1) : At(f) + 1 + b \in Setter(r, f, v) <=> b \in v
  BY <1>1, <1>2, <1>3 DEF Bit
<1>6. Getter(Setter(r, f, v), f) = v
  BY <1>2, <1>5 DEF Getter, At, Width
<1> QED BY <1>3, <1>4, <1>6

\* The other fields keep their values and flags.
LEMMA SetterOther ==
  ASSUME NEW r \in SUBSET Bit, NEW f \in Fields, NEW v, Fits(f, v),
         NEW g \in Fields, f # g
  PROVE  /\ Getter(Setter(r, f, v), g) = Getter(r, g)
         /\ At(g) \in Setter(r, f, v) <=> At(g) \in r
<1>1. /\ At(f) \in 0..30 /\ Width(f) \in 1..6
      /\ At(g) \in 0..30 /\ Width(g) \in 1..6
  BY FieldBounds
<1>2. At(f) + Width(f) < At(g) \/ At(g) + Width(g) < At(f)
  BY FieldsDisjoint
<1>3. v \subseteq 0..(Width(f) - 1)
  BY DEF Fits, Width
<1>4. Setter(r, f, v) = (r \ (At(f)..(At(f) + Width(f)))) \cup {At(f)}
                          \cup {At(f) + 1 + b : b \in v}
  BY DEF Setter, At, Width
<1>5. \A b \in 0..Width(g) : At(g) + b \in Setter(r, f, v) <=> At(g) + b \in r
  BY <1>1, <1>2, <1>3, <1>4
<1>6. At(g) \in Setter(r, f, v) <=> At(g) \in r
  BY <1>1, <1>5
<1>7. \A b \in 0..(Width(g) - 1) : At(g) + 1 + b \in Setter(r, f, v) <=> At(g) + 1 + b \in r
  <2>1. \A b \in 0..(Width(g) - 1) : b + 1 \in 0..Width(g) /\ At(g) + (b + 1) = At(g) + 1 + b
    BY <1>1
  <2> QED BY <1>5, <2>1
<1>8. Getter(Setter(r, f, v), g) = Getter(r, g)
  BY <1>7 DEF Getter, At, Width
<1> QED BY <1>6, <1>8

\* Clearing the change flags clears all of them and changes no value.
LEMMA ClearKeepsValues ==
  ASSUME NEW r \in SUBSET Bit, NEW f \in Fields
  PROVE  /\ clear_up_change_flags(r) \in SUBSET Bit
         /\ Getter(clear_up_change_flags(r), f) = Getter(r, f)
         /\ At(f) \notin clear_up_change_flags(r)
<1>1. At(f) \in 0..30 /\ Width(f) \in 1..6
  BY FieldBounds
<1>2. At(f) \notin MaskBits /\ \A b \in 1..Width(f) : At(f) + b \in MaskBits
  BY MaskClearsFlagsOnly
<1>3. \A b \in 0..(Width(f) - 1) : At(f) + (b + 1) \in MaskBits
  BY <1>1, <1>2
<1>4. \A b \in 0..(Width(f) - 1) : At(f) + 1 + b \in MaskBits
  BY <1>1, <1>3
<1>5. Getter(clear_up_change_flags(r), f) = Getter(r, f)
  BY <1>4 DEF Getter, clear_up_change_flags, At, Width
<1> QED BY <1>2, <1>5 DEF clear_up_change_flags

-----------------------------------------------------------------------------
(* The abstraction commutes with clearing, setting and merging.            *)

\* clear_up_change_flags on the integer is clearing the set of flags.
LEMMA AbstractClear ==
  ASSUME NEW r \in SUBSET Bit
  PROVE  Abstract(clear_up_change_flags(r)) = P!clear_up_change_flags(Abstract(r))
<1>1. [f \in Fields |-> Getter(clear_up_change_flags(r), f)] = [f \in Fields |-> Getter(r, f)]
  BY ClearKeepsValues
<1>2. {f \in Fields : Layout[f].at \in clear_up_change_flags(r)} = {}
  BY ClearKeepsValues DEF At
<1>3. \A A, B : [[val |-> A, flags |-> B] EXCEPT !.flags = {}] = [val |-> A, flags |-> {}]
  OBVIOUS
<1>4. P!clear_up_change_flags(Abstract(r))
        = [val |-> [f \in Fields |-> Getter(r, f)], flags |-> {}]
  BY <1>3 DEF Abstract, P!clear_up_change_flags
<1> QED BY <1>1, <1>2, <1>4 DEF Abstract

\* A setter on the integer is SetField.
LEMMA AbstractSetter ==
  ASSUME NEW r \in SUBSET Bit, NEW f \in Fields, NEW v, Fits(f, v)
  PROVE  Abstract(Setter(r, f, v)) = P!SetField(Abstract(r), f, v)
<1>1. [g \in Fields |-> Getter(Setter(r, f, v), g)]
        = [[g \in Fields |-> Getter(r, g)] EXCEPT ![f] = v]
  <2> DEFINE old == [g \in Fields |-> Getter(r, g)]
  <2>1. Getter(Setter(r, f, v), f) = v
    BY SetterOwn
  <2>2. \A g \in Fields : g # f => Getter(Setter(r, f, v), g) = old[g]
    BY SetterOther
  <2>3. \A g \in Fields : Getter(Setter(r, f, v), g) = [old EXCEPT ![f] = v][g]
    BY <2>1, <2>2
  <2> HIDE DEF old
  <2>4. [old EXCEPT ![f] = v] = [g \in Fields |-> [old EXCEPT ![f] = v][g]]
    BY DEF old
  <2> QED BY <2>3, <2>4 DEF old
<1>2. {g \in Fields : Layout[g].at \in Setter(r, f, v)}
        = {g \in Fields : Layout[g].at \in r} \cup {f}
  BY SetterOwn, SetterOther DEF At
<1> QED BY <1>1, <1>2 DEF Abstract, P!SetField

\* _convert_to_control_value on the integer is the merge of PackedControl.
THEOREM ConvertIsPackedMerge ==
  ASSUME NEW r \in SUBSET Bit, NEW f \in Fields, NEW v, Fits(f, v)
  PROVE  /\ Convert(r, f, v) \in SUBSET Bit
         /\ Abstract(Convert(r, f, v)) = P!ConvertToControlValue(Abstract(r), f, v)
         /\ Getter(Convert(r, f, v), f) = v
<1> DEFINE c == clear_up_change_flags(r)
           turnOn == f = "t_work_mode" /\ Getter(c, "t_power") = Off
           base == IF turnOn THEN Setter(c, "t_power", On) ELSE c
           a == P!clear_up_change_flags(Abstract(r))
<1>1. c \in SUBSET Bit
  BY ClearKeepsValues
<1>2. Abstract(c) = a
  BY AbstractClear
<1>3. "t_power" \in Fields
  BY FieldPlaces
<1>4. Fits("t_power", On)
  BY FieldPlaces DEF Fits, On, Width
<1>5. base \in SUBSET Bit
  BY <1>1, <1>3, <1>4, SetterOwn
<1>6. a.val["t_power"] = Getter(c, "t_power")
  BY <1>2, <1>3 DEF Abstract
<1>7. Abstract(base) = P!PowerOnForMode(a, f)
  <2>1. CASE turnOn
    <3>1. Abstract(base) = P!SetField(a, "t_power", On)
      BY <1>1, <1>2, <1>3, <1>4, <2>1, AbstractSetter
    <3> QED BY <1>6, <2>1, <3>1 DEF P!PowerOnForMode
  <2>2. CASE ~turnOn
    BY <1>2, <1>6, <2>2 DEF P!PowerOnForMode
  <2> QED BY <2>1, <2>2
<1>8. Convert(r, f, v) = Setter(base, f, v)
  BY DEF Convert
<1> HIDE DEF c, turnOn, base, a
<1>9. Abstract(Setter(base, f, v)) = P!SetField(Abstract(base), f, v)
  BY <1>5, AbstractSetter
<1>10. Setter(base, f, v) \in SUBSET Bit /\ Getter(Setter(base, f, v), f) = v
  BY <1>5, SetterOwn
<1> QED BY <1>7, <1>8, <1>9, <1>10 DEF P!ConvertToControlValue, a

-----------------------------------------------------------------------------
(* Temperatures wider than their field: the Fahrenheit targets.            *)

\* What the six bits of t_temp keep of a temperature.
Cut(v) == v \ {6}

\* The one bit such a temperature sets beyond its field, which no field has.
Spilt(v) == {23 : b \in v \cap {6}}

\* The spare bit is not part of what control_value.py says of the integer.
LEMMA SpareBit ==
  ASSUME NEW r \in SUBSET Bit, NEW s \in SUBSET {23}
  PROVE  Abstract(r \cup s) = Abstract(r)
<1>1. \A f \in Fields : At(f) # 23 /\ \A b \in 0..(Width(f) - 1) : At(f) + 1 + b # 23
  BY FieldPlaces
<1>2. \A f \in Fields : Getter(r \cup s, f) = Getter(r, f)
  BY <1>1 DEF Getter, At, Width
<1>3. [f \in Fields |-> Getter(r \cup s, f)] = [f \in Fields |-> Getter(r, f)]
  BY <1>2
<1>4. {f \in Fields : Layout[f].at \in r \cup s} = {f \in Fields : Layout[f].at \in r}
  BY <1>1 DEF At
<1> QED BY <1>3, <1>4 DEF Abstract

\* Setting a wide temperature sets what fits of it, and the spare bit.
LEMMA SetterCut ==
  ASSUME NEW r, NEW v \in Values
  PROVE  Setter(r, "t_temp", v) = Setter(r, "t_temp", Cut(v)) \cup Spilt(v)
<1>1. \A w : Setter(r, "t_temp", w) = (r \ (16..22)) \cup {16} \cup {17 + b : b \in w}
  BY FieldPlaces DEF Setter, At, Width
<1>2. {17 + b : b \in v} = {17 + b : b \in Cut(v)} \cup Spilt(v)
  BY DEF Values, Cut, Spilt
<1>3. Setter(r, "t_temp", v) = (r \ (16..22)) \cup {16} \cup {17 + b : b \in v}
  BY <1>1
<1>4. Setter(r, "t_temp", Cut(v)) = (r \ (16..22)) \cup {16} \cup {17 + b : b \in Cut(v)}
  BY <1>1
<1> QED BY <1>2, <1>3, <1>4

\* Writing a temperature that is too wide is writing what fits of it: it reads
\* back 64 lower, and every other field and every change flag is as it should be.
THEOREM WideTemperatureIsCut ==
  ASSUME NEW r \in SUBSET Bit, NEW v \in Values
  PROVE  /\ Convert(r, "t_temp", v) \in SUBSET Bit
         /\ Abstract(Convert(r, "t_temp", v))
              = P!ConvertToControlValue(Abstract(r), "t_temp", Cut(v))
         /\ Getter(Convert(r, "t_temp", v), "t_temp") = Cut(v)
<1>1. "t_temp" \in Fields
  BY FieldPlaces
<1>2. Fits("t_temp", Cut(v))
  BY FieldPlaces DEF Fits, Cut, Values, Width
<1>3. Convert(r, "t_temp", v) = Convert(r, "t_temp", Cut(v)) \cup Spilt(v)
  BY SetterCut DEF Convert
<1>4. /\ Convert(r, "t_temp", Cut(v)) \in SUBSET Bit
      /\ Abstract(Convert(r, "t_temp", Cut(v)))
           = P!ConvertToControlValue(Abstract(r), "t_temp", Cut(v))
      /\ Getter(Convert(r, "t_temp", Cut(v)), "t_temp") = Cut(v)
  BY <1>1, <1>2, ConvertIsPackedMerge
<1>5. Spilt(v) \in SUBSET {23} /\ 23 \in Bit
  BY DEF Spilt, Bit
<1>6. Convert(r, "t_temp", v) \in SUBSET Bit
  BY <1>3, <1>4, <1>5
<1>7. Abstract(Convert(r, "t_temp", v)) = Abstract(Convert(r, "t_temp", Cut(v)))
  BY <1>3, <1>4, <1>5, SpareBit
<1>8. Getter(Convert(r, "t_temp", v), "t_temp") = Cut(v)
  <2>1. \A s : Getter(s, "t_temp") = Abstract(s).val["t_temp"]
    BY <1>1 DEF Abstract
  <2> QED BY <1>4, <1>7, <2>1
<1> QED BY <1>4, <1>6, <1>7, <1>8

-----------------------------------------------------------------------------
(* The theorems about every behaviour.                                     *)

\* The code's writes: the only values wider than their field are temperatures
\* (the hypothesis of the theorems that do not ask that all values fit).
OnlyTemperaturesWide == \A w \in Writes : Fits(w[1], w[2]) \/ w[1] = "t_temp"

\* What is left of a value that is written.
Kept(f, v) == IF f = "t_temp" THEN Cut(v) ELSE v

\* Every write the code makes is a merge of what is left of its value.
LEMMA WriteIsMerge ==
  ASSUME OnlyTemperaturesWide, NEW r \in SUBSET Bit, NEW w \in Writes
  PROVE  /\ Convert(r, w[1], w[2]) \in SUBSET Bit
         /\ Abstract(Convert(r, w[1], w[2]))
              = P!ConvertToControlValue(Abstract(r), w[1], Kept(w[1], w[2]))
<1>1. w[1] \in Fields /\ w[2] \in Values
  BY WritesAssumption
<1>2. CASE w[1] = "t_temp"
  BY <1>1, <1>2, WideTemperatureIsCut DEF Kept
<1>3. CASE w[1] # "t_temp"
  BY <1>1, <1>3, ConvertIsPackedMerge DEF Kept, OnlyTemperaturesWide
<1> QED BY <1>2, <1>3

\* The control stays a 32 bit word (control_value.py setters), Fahrenheit
\* temperatures included.
THEOREM StaysWord ==
  ASSUME OnlyTemperaturesWide
  PROVE  Spec => []TypeOK
<1>1. Init => TypeOK
  BY RegistersAssumption DEF Init, TypeOK
<1>2. TypeOK /\ [Next]_register => TypeOK'
  <2> SUFFICES ASSUME TypeOK, [Next]_register PROVE TypeOK'
    OBVIOUS
  <2>1. ASSUME NEW w \in Writes, Write(w[1], w[2]) PROVE TypeOK'
    BY <2>1, WriteIsMerge DEF TypeOK, Write
  <2>2. ASSUME NEW r \in Registers, Report(r) PROVE TypeOK'
    BY <2>2, RegistersAssumption DEF TypeOK, Report
  <2>3. CASE UNCHANGED register
    BY <2>3 DEF TypeOK
  <2> QED BY <2>1, <2>2, <2>3 DEF Next
<1> QED BY <1>1, <1>2, PTL DEF Spec

\* The integer implements the packed control: every step is a merge of
\* PackedControl or a report (control_value.py, _convert_to_control_value).
THEOREM RegisterImplementsPacked ==
  ASSUME \A w \in Writes : Fits(w[1], w[2])
  PROVE  Spec => ImplementsPacked
<1> DEFINE Merge == \/ \E w \in Writes : Abstract(register')
                                           = P!ConvertToControlValue(Abstract(register), w[1], w[2])
                    \/ register' \in Registers
<1>1. TypeOK /\ [Next]_register => [Merge]_register
  <2> SUFFICES ASSUME TypeOK, Next PROVE Merge
    OBVIOUS
  <2>1. ASSUME NEW w \in Writes, Write(w[1], w[2]) PROVE Merge
    <3>1. w[1] \in Fields /\ Fits(w[1], w[2])
      BY WritesAssumption
    <3> QED BY <2>1, <3>1, ConvertIsPackedMerge DEF TypeOK, Write
  <2>2. ASSUME NEW r \in Registers, Report(r) PROVE Merge
    BY <2>2 DEF Report
  <2> QED BY <2>1, <2>2 DEF Next
<1>2. OnlyTemperaturesWide
  BY DEF OnlyTemperaturesWide
<1> QED BY <1>1, <1>2, StaysWord, PTL DEF Spec, ImplementsPacked

\* Every step merges what is left of the value written, or is a report.
MergesCut ==
  [][\/ \E w \in Writes :
          Abstract(register')
            = P!ConvertToControlValue(Abstract(register), w[1], Kept(w[1], w[2]))
     \/ register' \in Registers]_register

\* With Fahrenheit temperatures, every step is the merge of what is left of the
\* value, or a report: a target of 64 or more reads back 64 lower, which is the
\* run that fails, and nothing else control_value.py reads of the integer is wrong,
\* now or after later writes (set_temp, aircon.py's _convert_to_control_value).
THEOREM OnlyTemperaturesCut ==
  ASSUME OnlyTemperaturesWide
  PROVE  Spec => MergesCut
<1> DEFINE Merge == \/ \E w \in Writes :
                          Abstract(register')
                            = P!ConvertToControlValue(Abstract(register), w[1], Kept(w[1], w[2]))
                    \/ register' \in Registers
<1>1. TypeOK /\ [Next]_register => [Merge]_register
  <2> SUFFICES ASSUME TypeOK, Next PROVE Merge
    OBVIOUS
  <2>1. ASSUME NEW w \in Writes, Write(w[1], w[2]) PROVE Merge
    BY <2>1, WriteIsMerge DEF TypeOK, Write
  <2>2. ASSUME NEW r \in Registers, Report(r) PROVE Merge
    BY <2>2 DEF Report
  <2> QED BY <2>1, <2>2 DEF Next
<1> QED BY <1>1, StaysWord, PTL DEF Spec, MergesCut

\* A value that fits its field reads back as it was written; the Fahrenheit
\* temperatures from 64 on, which do not fit, are the instance that fails.
THEOREM FittingWritesReadBack ==
  ASSUME \A w \in Writes : Fits(w[1], w[2])
  PROVE  Spec => ReadsBackWrites
<1> DEFINE ReadBack == \A w \in Writes : register' = Convert(register, w[1], w[2])
                         => Getter(register', w[1]) = w[2]
<1>1. TypeOK => ReadBack
  <2> SUFFICES ASSUME TypeOK, NEW w \in Writes, register' = Convert(register, w[1], w[2])
               PROVE  Getter(register', w[1]) = w[2]
    OBVIOUS
  <2>1. w[1] \in Fields /\ Fits(w[1], w[2])
    BY WritesAssumption
  <2> QED BY <2>1, ConvertIsPackedMerge DEF TypeOK
<1>2. OnlyTemperaturesWide
  BY DEF OnlyTemperaturesWide
<1> QED BY <1>1, <1>2, StaysWord, PTL DEF Spec, ReadsBackWrites
=============================================================================
