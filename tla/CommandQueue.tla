---------------------------- MODULE CommandQueue ----------------------------
(***************************************************************************)
(* What a device's command queue promises its callers: commands a user     *)
(* gives are sent first, in the order they were given; a refresh leaves    *)
(* exactly one read of every status property waiting, and reads are sent   *)
(* in the order they were queued.  aircon.py keeps this with a priority    *)
(* queue, an insertion counter and the set of pending reads; DeviceQueue   *)
(* shows that Device does.                                                 *)
(***************************************************************************)
EXTENDS Naturals, Sequences

CONSTANT Fields  \* the status properties

VARIABLES
  writes,  \* the user commands waiting, oldest first
  reads    \* the properties whose reads are waiting, oldest first

vars == <<writes, reads>>

Extends(new, old) == Len(new) >= Len(old) /\ SubSeq(new, 1, Len(old)) = old
Names(s) == {s[i] : i \in DOMAIN s}

Init == writes = <<>> /\ reads = <<>>

\* A call queues one or more commands.
Submit ==
  /\ writes' # writes /\ Extends(writes', writes)
  /\ UNCHANGED reads

\* Every property that has no read waiting gets one.
Refresh ==
  /\ Extends(reads', reads)
  /\ Names(reads') = Fields
  /\ \A i, j \in DOMAIN reads' : reads'[i] = reads'[j] => i = j
  /\ UNCHANGED writes

\* The appliance fetches the next command.
TakeWrite == writes # <<>> /\ writes' = Tail(writes) /\ UNCHANGED reads
TakeRead == writes = <<>> /\ reads # <<>> /\ reads' = Tail(reads) /\ UNCHANGED writes

Next == Submit \/ Refresh \/ TakeWrite \/ TakeRead
Spec == Init /\ [][Next]_vars
=============================================================================
