------------------------- MODULE MCControlRegister -------------------------
(* Small instances of ControlRegister for TLC.                             *)
EXTENDS ControlRegister

\* The bits of a number: no value the integration writes is longer than seven.
BitsOf(n) == {b \in 0..6 : (n \div 2^b) % 2 = 1}

\* Every field is written; the temperatures are a Celsius unit's extremes.
MCWrites ==
  {<<"t_fan_speed", BitsOf(9)>>, <<"t_work_mode", BitsOf(0)>>, <<"t_work_mode", BitsOf(4)>>,
   <<"t_temp", BitsOf(16)>>, <<"t_temp", BitsOf(30)>>,
   <<"t_temp_heatcold", Off>>, <<"t_eco", On>>, <<"t_fan_power", On>>,
   <<"t_fan_leftright", On>>, <<"t_fan_mute", Off>>, <<"t_temptype", On>>,
   <<"t_power", On>>, <<"t_power", Off>>}

\* The two reports recorded in tests/test_protocol.py (808715331, 540279874).
MCRegisters ==
  {{0, 1, 6, 10, 18, 20, 21, 28, 29}, {1, 6, 10, 18, 20, 21, 29}}

\* The temperatures of a Fahrenheit unit, from climate.py's bounds.
FahrenheitWrites == {<<"t_temp", BitsOf(t)>> : t \in 61..86} \cup ({"t_power"} \X {Off, On})
=============================================================================
