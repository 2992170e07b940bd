----------------------------- MODULE MCNotifier -----------------------------
(* One loop of Notifier for TLC.  The loops share only running, so another *)
(* device adds interleavings and no behaviour of a loop.  Times are the    *)
(* code's in seconds, but the handling time is 2, not 0.1: it has to span  *)
(* several ticks for a loop to be woken within it.                         *)
EXTENDS Notifier
=============================================================================
