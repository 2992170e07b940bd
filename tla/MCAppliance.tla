----------------------------- MODULE MCAppliance -----------------------------
(* One appliance for TLC, with one property: properties share the queue,   *)
(* the session and the appliance's one request, and each of these is at    *)
(* its limit with one property and two writes already.                     *)
EXTENDS Appliance
=============================================================================
