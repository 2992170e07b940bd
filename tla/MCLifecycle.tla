----------------------------- MODULE MCLifecycle -----------------------------
(* Two devices: one can be registered or removed while the other is not.   *)
EXTENDS Lifecycle
=============================================================================
