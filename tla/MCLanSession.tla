---------------------------- MODULE MCLanSession ----------------------------
(* Appliances and networks for TLC: numbers that restart, or messages that *)
(* are delivered again, in two sessions of a few messages each.            *)
EXTENDS LanSession

MCWorlds ==
  {[resets |-> TRUE, repeats |-> FALSE], [resets |-> FALSE, repeats |-> TRUE]}
ResettingWorld == {[resets |-> TRUE, repeats |-> FALSE]}
=============================================================================
