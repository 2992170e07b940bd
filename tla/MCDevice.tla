------------------------------ MODULE MCDevice ------------------------------
(* Small instances of Device and its entities for TLC, with what it        *)
(* promises as a queue.                                                    *)
EXTENDS DeviceEntities, DeviceQueue

\* The fields of the turbo macro, which queues five commands at once.
MCControlFields ==
  {"t_power", "t_work_mode", "t_temp_heatcold", "t_fan_speed", "t_fan_mute"}
MCOtherFields == {"t_sleep", "t_temp_eight"}
MCStatusFields == <<TCV, "t_power", "t_sleep">>
MCDefaults == [n \in MCControlFields \cup MCOtherFields |-> IF n = "t_power" THEN 1 ELSE 0]

\* Work mode 2 decodes to nothing: a reported code the enum has no member for.
MCDecodes == [f \in MCControlFields |-> {0, 1}]
MCUserWrites == {<<"t_power", 1>>, <<"t_sleep", 1>>}

\* A first report of the default.
MCReports == {<<"t_power", 0>>, <<"t_sleep", 0>>}

\* The zero control, which the code does not merge into, and a unit at work.
MCReportedControls ==
  {[val |-> [f \in MCControlFields |-> 0], flags |-> {}],
   [val |-> [f \in MCControlFields |-> IF f = "t_power" THEN 0 ELSE 2], flags |-> {"t_power"}]}

\* A climate entity, the quiet switch, a sensor of one property and the queue
\* length sensor.
MCEntities ==
  {{"t_power", "t_work_mode", "t_fan_speed"}, {"t_fan_mute"}, {"t_sleep"}, {QueuedCommands}}

-----------------------------------------------------------------------------
\* Writes of two fields, before and after the unit's first packed report.
MixedControlFields == {"t_power", "t_work_mode", "t_fan_mute"}
MixedDefaults == [n \in MixedControlFields \cup MCOtherFields |-> 0]
MixedDecodes == [f \in MixedControlFields |-> {0, 1}]
MixedUserWrites == {<<"t_power", 1>>, <<"t_fan_mute", 1>>}
MixedReportedControls ==
  {[val |-> [f \in MixedControlFields |-> IF f = "t_work_mode" THEN 1 ELSE 0], flags |-> {}]}

=============================================================================
