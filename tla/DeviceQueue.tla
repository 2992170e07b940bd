----------------------------- MODULE DeviceQueue -----------------------------
(***************************************************************************)
(* Device implements CommandQueue: the priority queue, keyed by insertion  *)
(* order, read as the two queues its callers think of.                     *)
(***************************************************************************)
EXTENDS Device

Orders(q, priority) == {i \in DOMAIN q : q[i].priority = priority}

\* The k-th of S has k - 1 smaller ones in S.
Rank(S, i) == Cardinality({j \in S : j < i})
Kth(S, k) == CHOOSE i \in S : Rank(S, i) = k - 1

\* The commands of one priority, oldest first.
InOrder(q, priority) ==
  [k \in 1..Cardinality(Orders(q, priority)) |-> q[Kth(Orders(q, priority), k)]]

WritesInOrder == InOrder(commands_queue, UserPriority)
ReadsInOrder ==
  LET waiting == InOrder(commands_queue, StatusPriority)
  IN  [k \in DOMAIN waiting |-> waiting[k].name]

Promised ==
  INSTANCE CommandQueue WITH Fields <- {StatusFields[p] : p \in 1..Len(StatusFields)},
                             writes <- WritesInOrder, reads <- ReadsInOrder

\* User commands are fetched first and first come first served, reads are
\* neither duplicated nor lost nor reordered, whatever calls interleave
\* (Command's ordering, queue_command, queue_status, command_handler).
ImplementsCommandQueue == Promised!Spec
=============================================================================
