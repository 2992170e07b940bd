--------------------------- MODULE ControlRegister ---------------------------
(***************************************************************************)
(* control_value.py: the packed control integer as the set of its one      *)
(* bits.  Every field is a change flag followed by the bits of its value.  *)
(* A value is the set of its one bits too, so that masks and shifts are    *)
(* differences, unions and translations of sets.                           *)
(*                                                                         *)
(* The behaviour is a control value rewritten by successive merged writes  *)
(* and replaced by reports; Abstract maps it to PackedControl.             *)
(***************************************************************************)
EXTENDS Integers

CONSTANTS
  Writes,     \* the <<field, value>> pairs written
  Registers   \* the control values the appliance reports

Bit == 0..31

\* Where a field's change flag is, and how many value bits follow it.
Layout == [t_fan_speed     |-> [at |-> 0,  width |-> 4],
           t_power         |-> [at |-> 5,  width |-> 1],
           t_work_mode     |-> [at |-> 8,  width |-> 3],
           t_temp_heatcold |-> [at |-> 12, width |-> 1],
           t_eco           |-> [at |-> 14, width |-> 1],
           t_temp          |-> [at |-> 16, width |-> 6],
           t_fan_power     |-> [at |-> 24, width |-> 1],
           t_fan_leftright |-> [at |-> 26, width |-> 1],
           t_fan_mute      |-> [at |-> 28, width |-> 1],
           t_temptype      |-> [at |-> 30, width |-> 1]]

Fields == DOMAIN Layout

\* The values as bit sets, and those no wider than field f.
Values == SUBSET (0..6)
Fits(f, v) == v \in SUBSET (0..(Layout[f].width - 1))

ASSUME WritesAssumption == Writes \subseteq Fields \X Values
ASSUME RegistersAssumption == Registers \subseteq SUBSET Bit

\* Mutant: the mask keeps the change flag of t_fan_mute.
MaskBitsKeepMute == Bit \ {0, 5, 7, 8, 12, 14, 16, 24, 26, 30}

\* The one bits of the mask 2868817502 (16#AAFEAE5E): all but bits 0, 5, 7, 8, ...
MaskBits == Bit \ {0, 5, 7, 8, 12, 14, 16, 24, 26, 28, 30}

clear_up_change_flags(r) == r \cap MaskBits

\* Mutant: the old value's bits are not cleared.
SetterOrs(r, f, v) ==
  LET at == Layout[f].at IN r \cup {at} \cup {at + 1 + b : b \in v}

\* Mutant: the value is shifted past the change flag twice.
SetterShiftsTwice(r, f, v) ==
  LET at == Layout[f].at IN
  (r \ (at..(at + Layout[f].width))) \cup {at} \cup {at + 2 + b : b \in v}

\* (control & ~mask) | (((value << 1) | 1) << at).  The mask is as wide as the
\* field, the value is not cut to it.
Setter(r, f, v) ==
  LET at == Layout[f].at IN
  (r \ (at..(at + Layout[f].width))) \cup {at} \cup {at + 1 + b : b \in v}

Getter(r, f) == {b \in 0..(Layout[f].width - 1) : Layout[f].at + 1 + b \in r}

\* The bits of Power.OFF (0) and Power.ON (1).
Off == {}
On == {0}

\* AcDevice._convert_to_control_value on the integer.
Convert(r, f, v) ==
  LET c == clear_up_change_flags(r) IN
  Setter(IF f = "t_work_mode" /\ Getter(c, "t_power") = Off
         THEN Setter(c, "t_power", On) ELSE c, f, v)

VARIABLE register

Init == register \in Registers
Write(f, v) == register' = Convert(register, f, v)
Report(r) == register' = r
Next == \/ \E w \in Writes : Write(w[1], w[2])
        \/ \E r \in Registers : Report(r)
Spec == Init /\ [][Next]_register

-----------------------------------------------------------------------------

P == INSTANCE PackedControl WITH ControlFields <- Fields, Raw <- Values

\* What control_value.py's getters and the change flags say of the integer.
Abstract(r) ==
  [val |-> [f \in Fields |-> Getter(r, f)],
   flags |-> {f \in Fields : Layout[f].at \in r}]

\* The control stays a 32 bit word, whatever fields are written (the shifts of
\* control_value.py's setters).
TypeOK == register \in SUBSET Bit

\* Rewriting the bits is exactly the merge PackedControl describes: the new
\* field gets its value and flag, a work mode turns an off unit on, every other
\* field keeps its value and loses its flag (the ten setters, their masks and
\* clear_up_change_flags against each other).
ImplementsPacked ==
  [][\/ \E w \in Writes :
          Abstract(register') = P!ConvertToControlValue(Abstract(register), w[1], w[2])
     \/ register' \in Registers]_register

\* Reading a field back after it was written gives the value written, for
\* every value the integration lets a user choose.
ReadsBackWrites ==
  [][\A w \in Writes : register' = Convert(register, w[1], w[2])
                         => Getter(register', w[1]) = w[2]]_register
=============================================================================
