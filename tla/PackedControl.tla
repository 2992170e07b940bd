---------------------------- MODULE PackedControl ----------------------------
(***************************************************************************)
(* The packed control value of an air conditioner (the t_control_value     *)
(* property), seen as what control_value.py says it holds: a value for     *)
(* each controlled field and, per field, a change flag that tells the      *)
(* appliance which of the values this command sets.                        *)
(*                                                                         *)
(* ControlRegister gives the same operations on the bits of the integer    *)
(* and is shown to implement these.  Device uses the operators below.      *)
(***************************************************************************)
CONSTANTS
  ControlFields,   \* the names in _CONTROL_FIELDS
  Raw,             \* the raw (bit field) values a field can hold
  Off, On          \* the raw values of Power.OFF and Power.ON; Off is raw zero

ASSUME RawAssumption == Off \in Raw /\ On \in Raw /\ Off # On

Control == [val : [ControlFields -> Raw], flags : SUBSET ControlFields]

\* The integer 0: the one value that `if self._command_control()` takes for false.
ZeroControl == [val |-> [f \in ControlFields |-> Off], flags |-> {}]

clear_up_change_flags(c) == [c EXCEPT !.flags = {}]

\* set_<field>: the field's value and its change flag are both set.
SetField(c, f, v) ==
  [val |-> [c.val EXCEPT ![f] = v], flags |-> c.flags \cup {f}]

\* A work mode written to a unit whose packed power is off also turns it on.
PowerOnForMode(c, f) ==
  IF f = "t_work_mode" /\ c.val["t_power"] = Off
  THEN SetField(c, "t_power", On)
  ELSE c

\* The packed value queued for writing v to field f, merged into control c.
ConvertToControlValue(c, f, v) ==
  SetField(PowerOnForMode(clear_up_change_flags(c), f), f, v)
=============================================================================
