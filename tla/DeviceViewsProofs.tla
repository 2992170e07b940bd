-------------------------- MODULE DeviceViewsProofs --------------------------
(***************************************************************************)
(* What others see of a Device, for any fields, writes, reports and        *)
(* entities and any length of the queue: its callers two queues of         *)
(* commands (DeviceQueue implements CommandQueue), its entities the values *)
(* it holds (DeviceEntities).  Both rest on Device's inductive invariant.  *)
(***************************************************************************)
EXTENDS DeviceEntities, DeviceQueue, DeviceProofs, SequenceTheorems

-----------------------------------------------------------------------------
(* Counting a finite set of orders from the least to the greatest.         *)

\* The rank of an element counts others, so it stays below the number of all.
LEMMA RankRange ==
  ASSUME NEW S \in SUBSET Nat, IsFiniteSet(S), NEW i \in S
  PROVE  Rank(S, i) \in 0..(Cardinality(S) - 1)
<1> DEFINE below == {j \in S : j < i}
<1>1. below \in SUBSET (S \ {i})
  OBVIOUS
<1>2. IsFiniteSet(S \ {i}) /\ Cardinality(S \ {i}) = Cardinality(S) - 1
  BY FS_RemoveElement
<1>3. IsFiniteSet(below) /\ Cardinality(below) <= Cardinality(S \ {i})
  BY <1>1, <1>2, FS_Subset
<1>4. Cardinality(below) \in Nat /\ Cardinality(S) \in Nat
  BY <1>3, FS_CardinalityType
<1> QED
  BY <1>2, <1>3, <1>4 DEF Rank

\* Ranks are ordered as the elements are.
LEMMA RankOrder ==
  ASSUME NEW S \in SUBSET Nat, IsFiniteSet(S), NEW i \in S, NEW j \in S, i < j
  PROVE  Rank(S, i) < Rank(S, j)
<1> DEFINE below(k) == {l \in S : l < k}
<1>1. IsFiniteSet(below(i)) /\ IsFiniteSet(below(j))
  BY FS_Subset
<1>2. i \notin below(i) /\ below(i) \cup {i} \in SUBSET below(j)
  <2>1. ~(i < i) /\ \A l \in S : l < i => l < j
    OBVIOUS
  <2> QED
    BY <2>1
<1>3. Cardinality(below(i) \cup {i}) = Cardinality(below(i)) + 1
  BY <1>1, <1>2, FS_AddElement
<1>4. Cardinality(below(i) \cup {i}) <= Cardinality(below(j))
  BY <1>1, <1>2, FS_Subset
<1>5. Cardinality(below(i)) \in Nat /\ Cardinality(below(j)) \in Nat
  BY <1>1, FS_CardinalityType
<1> HIDE DEF below
<1>6. Cardinality(below(i)) < Cardinality(below(j))
  BY <1>3, <1>4, <1>5
<1> QED
  BY <1>6 DEF below, Rank

\* An element is the one its rank says.
LEMMA KthOfRank ==
  ASSUME NEW S \in SUBSET Nat, IsFiniteSet(S), NEW i \in S, NEW k \in Nat, Rank(S, i) = k - 1
  PROVE  Kth(S, k) = i
<1>1. \A j \in S : Rank(S, j) = k - 1 => j = i
  <2> SUFFICES ASSUME NEW j \in S, Rank(S, j) = k - 1, j # i PROVE FALSE
    OBVIOUS
  <2>1. i < j \/ j < i
    OBVIOUS
  <2>2. Rank(S, i) < Rank(S, j) \/ Rank(S, j) < Rank(S, i)
    BY <2>1, RankOrder
  <2> QED
    BY <2>2
<1> QED
  BY <1>1 DEF Kth

\* Every rank is that of some element.
LEMMA KthHasRank ==
  ASSUME NEW S \in SUBSET Nat, IsFiniteSet(S), NEW k \in 1..Cardinality(S)
  PROVE  Kth(S, k) \in S /\ Rank(S, Kth(S, k)) = k - 1
<1> DEFINE n == Cardinality(S)
           f == [i \in S |-> Rank(S, i)]
<1>1. n \in Nat
  BY FS_CardinalityType
<1>2. f \in [S -> 0..(n - 1)]
  BY RankRange
<1>3. \A i, j \in S : f[i] = f[j] => i = j
  <2> SUFFICES ASSUME NEW i \in S, NEW j \in S, Rank(S, i) = Rank(S, j), i # j PROVE FALSE
    OBVIOUS
  <2>1. i < j \/ j < i
    OBVIOUS
  <2>2. Rank(S, i) < Rank(S, j) \/ Rank(S, j) < Rank(S, i)
    BY <2>1, RankOrder
  <2>3. Rank(S, i) \in Int /\ Rank(S, j) \in Int
    BY RankRange
  <2> QED
    BY <2>2, <2>3
<1>4. f \in Injection(S, 0..(n - 1))
  BY <1>2, <1>3 DEF Injection, IsInjective
<1>5. IsFiniteSet(0..(n - 1)) /\ Cardinality(0..(n - 1)) = n
  <2>1. Cardinality(0..(n - 1)) = IF 0 > n - 1 THEN 0 ELSE (n - 1) - 0 + 1
    BY <1>1, FS_Interval
  <2>2. IsFiniteSet(0..(n - 1))
    BY <1>1, FS_Interval
  <2> QED
    BY <1>1, <2>1, <2>2
<1>6. f \in Surjection(S, 0..(n - 1))
  BY <1>4, <1>5, FS_Injection
<1>7. \E i \in S : f[i] = k - 1
  <2>1. k - 1 \in 0..(n - 1)
    BY <1>1
  <2> HIDE DEF f, n
  <2> QED
    BY <1>6, <2>1 DEF Surjection
<1>8. \E i \in S : Rank(S, i) = k - 1
  BY <1>7
<1> QED
  BY <1>8 DEF Kth

\* Larger elements put in leave the first ones in their places.
LEMMA KthAppend ==
  ASSUME NEW S \in SUBSET Nat, IsFiniteSet(S), NEW F \in SUBSET Nat, IsFiniteSet(F),
         \A i \in S, j \in F : i < j, NEW k \in 1..Cardinality(S)
  PROVE  Kth(S \cup F, k) = Kth(S, k)
<1> DEFINE i == Kth(S, k)
<1>1. i \in S /\ Rank(S, i) = k - 1
  BY KthHasRank
<1> HIDE DEF i
<1>2. {j \in S \cup F : j < i} = {j \in S : j < i}
  <2>1. \A j \in F : ~(j < i)
    BY <1>1
  <2> QED
    BY <2>1
<1>3. Rank(S \cup F, i) = k - 1
  BY <1>1, <1>2 DEF Rank
<1>4. IsFiniteSet(S \cup F) /\ S \cup F \in SUBSET Nat
  BY FS_Union
<1>5. Kth(S \cup F, k) = i
  BY <1>1, <1>3, <1>4, KthOfRank, FS_CardinalityType
<1> QED
  BY <1>5 DEF i

\* Without the least element, every other is one place further on.
LEMMA KthRemove ==
  ASSUME NEW S \in SUBSET Nat, IsFiniteSet(S), NEW i \in S, \A j \in S : i <= j,
         NEW k \in 1..(Cardinality(S) - 1)
  PROVE  Kth(S \ {i}, k) = Kth(S, k + 1)
<1> DEFINE x == Kth(S, k + 1)
<1>0. Cardinality(S) \in Nat
  BY FS_CardinalityType
<1>1. x \in S /\ Rank(S, x) = k
  BY <1>0, KthHasRank
<1> HIDE DEF x
<1>2. Rank(S, i) = 0
  <2>1. \A j \in S : ~(j < i)
    OBVIOUS
  <2>2. {j \in S : j < i} = {}
    BY <2>1
  <2> QED
    BY <2>2, FS_EmptySet DEF Rank
<1>3. i < x
  BY <1>1, <1>2
<1>4. {j \in S \ {i} : j < x} = {j \in S : j < x} \ {i} /\ i \in {j \in S : j < x}
  BY <1>3
<1>5. IsFiniteSet({j \in S : j < x})
  BY FS_Subset
<1>6. Cardinality({j \in S : j < x} \ {i}) = Cardinality({j \in S : j < x}) - 1
  BY <1>4, <1>5, FS_RemoveElement
<1>7. Rank(S \ {i}, x) = k - 1
  BY <1>1, <1>4, <1>6 DEF Rank
<1>8. IsFiniteSet(S \ {i}) /\ S \ {i} \in SUBSET Nat /\ x \in S \ {i}
  BY <1>1, <1>3, FS_RemoveElement
<1>9. Kth(S \ {i}, k) = x
  BY <1>7, <1>8, KthOfRank
<1> QED
  BY <1>9 DEF x

-----------------------------------------------------------------------------
(* The commands of one priority as a sequence.                             *)

\* A queue as TypeOK describes it: finitely many insertion numbers.
Counted(q) == DOMAIN q \in SUBSET Nat /\ IsFiniteSet(DOMAIN q)

\* The orders of a priority are listed once each.
LEMMA InOrderType ==
  ASSUME NEW q, Counted(q), NEW p
  PROVE  /\ Orders(q, p) \in SUBSET Nat /\ IsFiniteSet(Orders(q, p))
         /\ Cardinality(Orders(q, p)) \in Nat
         /\ InOrder(q, p) \in Seq({q[i] : i \in DOMAIN q})
         /\ Len(InOrder(q, p)) = Cardinality(Orders(q, p))
         /\ \A k \in 1..Cardinality(Orders(q, p)) :
              /\ Kth(Orders(q, p), k) \in Orders(q, p)
              /\ InOrder(q, p)[k] = q[Kth(Orders(q, p), k)]
<1> DEFINE S == Orders(q, p)
           n == Cardinality(S)
<1>1. S \in SUBSET Nat /\ IsFiniteSet(S) /\ S \in SUBSET DOMAIN q
  BY FS_Subset DEF Orders, Counted
<1>2. n \in Nat
  BY <1>1, FS_CardinalityType
<1> HIDE DEF S
<1>3. \A k \in 1..n : Kth(S, k) \in S
  BY <1>1, KthHasRank
<1>4. InOrder(q, p) = [k \in 1..n |-> q[Kth(S, k)]]
  BY DEF InOrder, S
<1> HIDE DEF n
<1>5. InOrder(q, p) \in [1..n -> {q[i] : i \in DOMAIN q}]
  BY <1>1, <1>3, <1>4
<1>6. InOrder(q, p) \in Seq({q[i] : i \in DOMAIN q})
  BY <1>2, <1>5, SeqDef
<1>7. DOMAIN InOrder(q, p) = 1..n
  BY <1>4
<1>8. Len(InOrder(q, p)) = n
  BY <1>2, <1>6, <1>7, LenProperties
<1> QED
  BY <1>1, <1>2, <1>3, <1>4, <1>6, <1>8 DEF S, n

\* Two listings of the same orders are the same.
LEMMA InOrderSame ==
  ASSUME NEW q, NEW r, NEW p, Counted(q), Orders(r, p) = Orders(q, p),
         \A i \in Orders(q, p) : r[i] = q[i]
  PROVE  InOrder(r, p) = InOrder(q, p)
<1> DEFINE S == Orders(q, p)
<1>1. \A k \in 1..Cardinality(S) : r[Kth(S, k)] = q[Kth(S, k)]
  BY InOrderType
<1> HIDE DEF S
<1>2. [k \in 1..Cardinality(S) |-> r[Kth(S, k)]] = [k \in 1..Cardinality(S) |-> q[Kth(S, k)]]
  BY <1>1
<1> QED
  BY <1>2 DEF InOrder, S

\* q became r by queueing commands under the numbers F.
Grown(q, r, F) ==
  /\ Counted(q) /\ F \in SUBSET Nat /\ IsFiniteSet(F)
  /\ DOMAIN r = DOMAIN q \cup F
  /\ \A i \in DOMAIN q : r[i] = q[i]
  /\ \A i \in DOMAIN q, j \in F : i < j

\* What its listing of priority p became.
ListGrown(q, r, F, p) ==
  /\ Counted(r)
  /\ Len(InOrder(r, p)) >= Len(InOrder(q, p))
  /\ \A k \in 1..Len(InOrder(q, p)) : InOrder(r, p)[k] = InOrder(q, p)[k]
  /\ (\E j \in F : r[j].priority = p) => Len(InOrder(r, p)) > Len(InOrder(q, p))
  /\ (\A j \in F : r[j].priority # p) => InOrder(r, p) = InOrder(q, p)

\* Commands queued behind the others come last.
LEMMA InOrderAppend ==
  ASSUME NEW q, NEW r, NEW F, NEW p, Grown(q, r, F)
  PROVE  ListGrown(q, r, F, p)
<1> USE DEF Grown
<1> DEFINE S == Orders(q, p)
           A == {j \in F : r[j].priority = p}
<1>1. Counted(r)
  BY FS_Union DEF Counted
<1>2. Orders(r, p) = S \cup A
  BY DEF Orders
<1>3. A \in SUBSET Nat /\ IsFiniteSet(A) /\ \A i \in S, j \in A : i < j
  BY FS_Subset DEF Orders
<1>4. /\ S \in SUBSET Nat /\ IsFiniteSet(S) /\ Cardinality(S) \in Nat
      /\ \A i \in S : i \in DOMAIN q
  BY InOrderType DEF Orders
<1>5. (\A j \in F : r[j].priority # p) => A = {}
  OBVIOUS
<1>6. (\E j \in F : r[j].priority = p) => A # {}
  OBVIOUS
<1> HIDE DEF A
<1>7. S \cap A = {}
  <2>1. \A i \in S : ~(i < i)
    BY <1>4
  <2> QED
    BY <1>3, <2>1
<1>8. Cardinality(S \cup A) = Cardinality(S) + Cardinality(A)
  <2>1. Cardinality(S \cup A) = Cardinality(S) + Cardinality(A) - Cardinality(S \cap A)
    BY <1>3, <1>4, FS_Union
  <2>2. Cardinality(S \cap A) = 0 /\ Cardinality(A) \in Nat
    BY <1>3, <1>7, FS_EmptySet, FS_CardinalityType
  <2> QED
    BY <1>4, <2>1, <2>2
<1>9. Cardinality(A) \in Nat /\ (A # {} => Cardinality(A) > 0)
  <2>1. Cardinality(A) \in Nat /\ (Cardinality(A) = 0 <=> A = {})
    BY <1>3, FS_EmptySet, FS_CardinalityType
  <2> QED
    BY <2>1
<1>10. /\ Len(InOrder(q, p)) = Cardinality(S)
       /\ Len(InOrder(r, p)) = Cardinality(S) + Cardinality(A)
  BY <1>1, <1>2, <1>8, InOrderType
<1>11. ASSUME NEW k \in 1..Cardinality(S) PROVE InOrder(r, p)[k] = InOrder(q, p)[k]
  <2>1. Kth(S \cup A, k) = Kth(S, k)
    BY <1>3, <1>4, KthAppend
  <2>2. Kth(S, k) \in S /\ InOrder(q, p)[k] = q[Kth(S, k)]
    BY InOrderType
  <2>3. k \in 1..Cardinality(S \cup A)
    BY <1>4, <1>8, <1>9
  <2>4. InOrder(r, p)[k] = r[Kth(S \cup A, k)]
    <3>1. \A m \in 1..Cardinality(Orders(r, p)) : InOrder(r, p)[m] = r[Kth(Orders(r, p), m)]
      BY <1>1, InOrderType
    <3> QED
      BY <1>2, <2>3, <3>1
  <2> HIDE DEF S
  <2> QED
    BY <1>4, <2>1, <2>2, <2>4
<1>12. (\A j \in F : r[j].priority # p) => InOrder(r, p) = InOrder(q, p)
  <2> SUFFICES ASSUME A = {} PROVE InOrder(r, p) = InOrder(q, p)
    BY <1>5
  <2>1. Orders(r, p) = Orders(q, p) /\ \A i \in Orders(q, p) : r[i] = q[i]
    BY <1>2, <1>4
  <2> QED
    BY <2>1, InOrderSame
<1> HIDE DEF S
<1> QED
  BY <1>1, <1>4, <1>6, <1>9, <1>10, <1>11, <1>12 DEF ListGrown

\* The first command of its priority is the head of its listing.
LEMMA InOrderRemove ==
  ASSUME NEW q, NEW r, NEW p, Counted(q), NEW i \in Orders(q, p),
         \A j \in Orders(q, p) : i <= j,
         DOMAIN r = DOMAIN q \ {i}, \A j \in DOMAIN r : r[j] = q[j]
  PROVE  InOrder(q, p) # <<>> /\ InOrder(r, p) = Tail(InOrder(q, p))
<1> DEFINE S == Orders(q, p)
           T == {q[j] : j \in DOMAIN q}
<1>1. Counted(r)
  BY FS_RemoveElement DEF Counted
<1>2. Orders(r, p) = S \ {i}
  BY DEF Orders
<1>3. S \in SUBSET Nat /\ IsFiniteSet(S) /\ Cardinality(S) \in Nat /\ i \in S
  BY InOrderType
<1>4. Cardinality(S \ {i}) = Cardinality(S) - 1 /\ Cardinality(S \ {i}) \in Nat
  BY <1>3, FS_RemoveElement, FS_CardinalityType
<1>5. /\ InOrder(q, p) \in Seq(T) /\ Len(InOrder(q, p)) = Cardinality(S)
      /\ \A k \in 1..Cardinality(S) : InOrder(q, p)[k] = q[Kth(S, k)]
  BY InOrderType
<1>6. /\ InOrder(r, p) \in Seq({r[j] : j \in DOMAIN r})
      /\ Len(InOrder(r, p)) = Cardinality(S) - 1
      /\ \A k \in 1..(Cardinality(S) - 1) :
           Kth(S \ {i}, k) \in S \ {i} /\ InOrder(r, p)[k] = r[Kth(S \ {i}, k)]
  BY <1>1, <1>2, <1>4, InOrderType
<1>7. \A j \in S \ {i} : r[j] = q[j]
  BY DEF Orders
<1>8. \A k \in 1..(Cardinality(S) - 1) : Kth(S \ {i}, k) = Kth(S, k + 1)
  BY <1>3, KthRemove
<1> HIDE DEF S, T
<1>9. InOrder(q, p) # <<>>
  BY <1>3, <1>4, <1>5, EmptySeq
<1>10. /\ Tail(InOrder(q, p)) \in Seq(T)
       /\ Len(Tail(InOrder(q, p))) = Cardinality(S) - 1
       /\ \A k \in 1..(Cardinality(S) - 1) : Tail(InOrder(q, p))[k] = InOrder(q, p)[k + 1]
  BY <1>5, <1>9, HeadTailProperties
<1>11. \A k \in 1..(Cardinality(S) - 1) : InOrder(r, p)[k] = Tail(InOrder(q, p))[k]
  <2> SUFFICES ASSUME NEW k \in 1..(Cardinality(S) - 1)
               PROVE  InOrder(r, p)[k] = Tail(InOrder(q, p))[k]
    OBVIOUS
  <2>1. InOrder(r, p)[k] = q[Kth(S, k + 1)]
    BY <1>6, <1>7, <1>8
  <2>2. k + 1 \in 1..Cardinality(S)
    BY <1>3
  <2> QED
    BY <1>5, <1>10, <2>1, <2>2
<1>12. InOrder(r, p) = Tail(InOrder(q, p))
  BY <1>6, <1>10, <1>11, SeqEqual
<1> QED
  BY <1>9, <1>12

-----------------------------------------------------------------------------
(* The steps of the device as steps of the two queues.                     *)

\* A sequence that agrees with another on its whole length extends it.
LEMMA PrefixExtends ==
  ASSUME NEW T, NEW U, NEW s \in Seq(T), NEW t \in Seq(U), Len(t) >= Len(s),
         \A k \in 1..Len(s) : t[k] = s[k]
  PROVE  Promised!Extends(t, s)
<1>1. Len(s) \in Nat /\ Len(t) \in Nat
  BY LenProperties
<1>2. /\ SubSeq(t, 1, Len(s)) \in Seq(U)
      /\ Len(SubSeq(t, 1, Len(s))) = Len(s)
      /\ \A k \in 1..Len(s) : SubSeq(t, 1, Len(s))[k] = s[k]
  <2>1. \A k \in 1..Len(s) : t[k] \in U
    BY <1>1, ElementOfSeq
  <2>2. \A m, n \in Int : m = 1 /\ n = Len(s) => 1 <= m /\ n <= Len(t)
    BY <1>1
  <2>3. /\ SubSeq(t, 1, Len(s)) \in Seq(U)
        /\ Len(SubSeq(t, 1, Len(s))) = IF 1 <= Len(s) THEN Len(s) - 1 + 1 ELSE 0
        /\ \A k \in 1..(Len(s) - 1 + 1) : SubSeq(t, 1, Len(s))[k] = t[1 + k - 1]
    BY <1>1, SubSeqProperties
  <2> QED
    BY <1>1, <2>3
<1>3. SubSeq(t, 1, Len(s)) = s
  BY <1>2, SeqEqual
<1> QED
  BY <1>3 DEF Promised!Extends

LEMMA DeviceCounted == QueueTypeOK(Current) => Counted(commands_queue)
<1> SUFFICES ASSUME QueueTypeOK(Current) PROVE Counted(commands_queue)
  OBVIOUS
<1>1. command_order \in Nat /\ DOMAIN commands_queue \subseteq 0..(command_order - 1)
  BY DEF QueueTypeOK, Current
<1>2. IsFiniteSet(0..(command_order - 1))
  BY <1>1, FS_Interval
<1> QED
  BY <1>1, <1>2, FS_Subset DEF Counted

\* s became t by queueing user commands.
Appended(s, t) ==
  /\ QueueTypeOK(s) /\ QueueTypeOK(t) /\ s.order < t.order
  /\ DOMAIN s.queue \subseteq DOMAIN t.queue
  /\ \A i \in DOMAIN s.queue : t.queue[i] = s.queue[i]
  /\ s.order \in DOMAIN t.queue
  /\ \A j \in DOMAIN t.queue \ DOMAIN s.queue :
       s.order <= j /\ t.queue[j].priority = UserPriority

LEMMA AppendedTwice ==
  ASSUME NEW s, NEW t, NEW u, Appended(s, t), Appended(t, u)
  PROVE  Appended(s, u)
<1>1. s.order \in Nat /\ t.order \in Nat /\ u.order \in Nat
  BY DEF Appended, QueueTypeOK
<1>2. s.order < u.order
  BY <1>1 DEF Appended
<1>3. \A j \in DOMAIN u.queue : j \in Nat
  BY DEF Appended, QueueTypeOK
<1>4. ASSUME NEW j \in DOMAIN u.queue \ DOMAIN s.queue
      PROVE  s.order <= j /\ u.queue[j].priority = UserPriority
  <2>1. CASE j \in DOMAIN t.queue
    BY <2>1 DEF Appended
  <2>2. CASE j \notin DOMAIN t.queue
    <3>1. t.order <= j /\ u.queue[j].priority = UserPriority /\ s.order < t.order
      BY <2>2 DEF Appended
    <3> QED
      BY <1>1, <1>3, <3>1
  <2> QED
    BY <2>1, <2>2
<1> QED
  BY <1>2, <1>4 DEF Appended

\* queue_command appends one user command.
LEMMA BaseQueueCommandAppends ==
  ASSUME NEW s, QueueInv(s), control \in Control \cup {NoControl},
         NEW name \in PropertyNames, NEW value \in Raw
  PROVE  Appended(s, BaseQueueCommand(s, name, value))
<1> DEFINE t == BaseQueueCommand(s, name, value)
<1>1. QueueTypeOK(s) /\ QueueTypeOK(t)
  <2>1. QueueInv(t)
    BY BaseQueueCommandInv
  <2> QED
    BY <2>1 DEF QueueInv
<1>2. PICK n, v : t = Enqueue(s, n, v)
  BY DEF BaseQueueCommand
<1> HIDE DEF t
<1>3. /\ t.order = s.order + 1 /\ s.order \in Nat
      /\ t.queue = [i \in DOMAIN s.queue \cup {s.order} |->
                      IF i = s.order THEN UserCommand(n, v) ELSE s.queue[i]]
  BY <1>1, <1>2 DEF Enqueue, QueueTypeOK
<1>4. s.order \notin DOMAIN s.queue
  BY <1>1 DEF QueueTypeOK
<1>5. /\ DOMAIN t.queue = DOMAIN s.queue \cup {s.order}
      /\ \A i \in DOMAIN s.queue : t.queue[i] = s.queue[i]
      /\ t.queue[s.order].priority = UserPriority
  BY <1>3, <1>4 DEF UserCommand
<1>6. s.order < t.order /\ s.order <= s.order
  BY <1>3
<1>7. Appended(s, t)
  BY <1>1, <1>5, <1>6 DEF Appended
<1> QED
  BY <1>7 DEF t

\* A call that queues commands submits them.
LEMMA QueueSubmits ==
  ASSUME NEW s, Appended(Current, s), Queue(s)
  PROVE  Promised!Submit
<1>0. PICK q, r, F : q = commands_queue /\ r = commands_queue' /\ F = DOMAIN r \ DOMAIN q
  OBVIOUS
<1>1. r = s.queue /\ Current.queue = q /\ Current.order = command_order
  BY <1>0 DEF Queue, Current
<1>2. /\ Counted(q) /\ command_order \in Nat /\ s.order \in Nat
      /\ DOMAIN q \subseteq 0..(command_order - 1) /\ DOMAIN r \subseteq 0..(s.order - 1)
  BY <1>0, <1>1, DeviceCounted DEF Appended, QueueTypeOK
<1>3. /\ DOMAIN q \subseteq DOMAIN r /\ \A i \in DOMAIN q : r[i] = q[i]
      /\ command_order \in DOMAIN r
      /\ \A j \in F : command_order <= j /\ r[j].priority = UserPriority
  BY <1>0, <1>1 DEF Appended
<1>4. F \in SUBSET Nat /\ IsFiniteSet(F) /\ command_order \in F
  <2>1. IsFiniteSet(0..(s.order - 1))
    BY <1>2, FS_Interval
  <2>2. F \in SUBSET (0..(s.order - 1))
    BY <1>0, <1>2
  <2>3. IsFiniteSet(F)
    BY <2>1, <2>2, FS_Subset
  <2>4. command_order \notin DOMAIN q
    BY <1>2
  <2> QED
    BY <1>0, <1>3, <2>2, <2>3, <2>4
<1>5. Grown(q, r, F)
  <2>1. \A i \in DOMAIN q : i \in Nat /\ i < command_order
    BY <1>2
  <2>2. \A j \in F : j \in Nat /\ command_order <= j
    BY <1>3, <1>4
  <2>3. \A i \in DOMAIN q, j \in F : i < j
    BY <1>2, <2>1, <2>2
  <2>4. DOMAIN r = DOMAIN q \cup F
    BY <1>0, <1>3
  <2> QED
    BY <1>2, <1>3, <1>4, <2>3, <2>4 DEF Grown
<1>6. ListGrown(q, r, F, UserPriority) /\ ListGrown(q, r, F, StatusPriority)
  BY <1>5, InOrderAppend
<1>7. InOrder(r, StatusPriority) = InOrder(q, StatusPriority)
  <2>1. \A j \in F : r[j].priority # StatusPriority
    BY <1>3 DEF UserPriority, StatusPriority
  <2> QED
    BY <1>6, <2>1 DEF ListGrown
<1>8. /\ InOrder(q, UserPriority) \in Seq({q[i] : i \in DOMAIN q})
      /\ InOrder(r, UserPriority) \in Seq({r[i] : i \in DOMAIN r})
  BY <1>2, <1>6, InOrderType DEF ListGrown
<1>9. Promised!Extends(InOrder(r, UserPriority), InOrder(q, UserPriority))
  BY <1>6, <1>8, PrefixExtends DEF ListGrown
<1>10. InOrder(r, UserPriority) # InOrder(q, UserPriority)
  <2>1. Len(InOrder(r, UserPriority)) > Len(InOrder(q, UserPriority))
    BY <1>3, <1>4, <1>6 DEF ListGrown
  <2>2. Len(InOrder(q, UserPriority)) \in Nat
    BY <1>8, LenProperties
  <2> QED
    BY <2>1, <2>2
<1>11. WritesInOrder = InOrder(q, UserPriority) /\ WritesInOrder' = InOrder(r, UserPriority)
  BY <1>0 DEF WritesInOrder
<1>12. ReadsInOrder' = ReadsInOrder
  BY <1>0, <1>7 DEF ReadsInOrder
<1> QED
  BY <1>9, <1>10, <1>11, <1>12 DEF Promised!Submit

\* The names of the reads of q in the order they will be sent.
ReadNames(q) ==
  [k \in DOMAIN InOrder(q, StatusPriority) |-> InOrder(q, StatusPriority)[k].name]

LEMMA ReadNamesType ==
  ASSUME NEW q, Counted(q)
  PROVE  /\ ReadNames(q) \in Seq({q[i].name : i \in DOMAIN q})
         /\ Len(ReadNames(q)) = Len(InOrder(q, StatusPriority))
         /\ Len(ReadNames(q)) = Cardinality(StatusReads(q))
         /\ \A k \in 1..Len(ReadNames(q)) :
              /\ Kth(StatusReads(q), k) \in StatusReads(q)
              /\ ReadNames(q)[k] = InOrder(q, StatusPriority)[k].name
              /\ ReadNames(q)[k] = q[Kth(StatusReads(q), k)].name
<1> DEFINE L == InOrder(q, StatusPriority)
           n == Cardinality(StatusReads(q))
           T == {q[i].name : i \in DOMAIN q}
<1>1. Orders(q, StatusPriority) = StatusReads(q)
  BY DEF Orders, StatusReads
<1>2. /\ L \in Seq({q[i] : i \in DOMAIN q}) /\ Len(L) = n /\ n \in Nat
      /\ \A k \in 1..n : Kth(StatusReads(q), k) \in StatusReads(q)
                         /\ L[k] = q[Kth(StatusReads(q), k)]
  BY <1>1, InOrderType
<1>3. DOMAIN L = 1..n
  BY <1>2, LenProperties
<1>4. \A k \in 1..n : L[k].name \in T
  BY <1>2 DEF StatusReads
<1>5. ReadNames(q) = [k \in 1..n |-> L[k].name]
  BY <1>3 DEF ReadNames
<1> HIDE DEF L, n, T
<1>6. ReadNames(q) \in [1..n -> T]
  BY <1>4, <1>5
<1>7. ReadNames(q) \in Seq(T)
  BY <1>2, <1>6, SeqDef
<1>8. Len(ReadNames(q)) = n
  BY <1>2, <1>5, <1>7, LenProperties
<1> QED
  BY <1>2, <1>5, <1>7, <1>8 DEF L, n, T

\* The reads listed are those waiting, each once.
LEMMA ReadNamesExact ==
  ASSUME NEW q, NEW names, Counted(q), ReadsExact(q, names)
  PROVE  /\ Promised!Names(ReadNames(q)) = names
         /\ \A k, l \in DOMAIN ReadNames(q) : ReadNames(q)[k] = ReadNames(q)[l] => k = l
<1> DEFINE S == StatusReads(q)
           n == Cardinality(S)
<1>1. S \in SUBSET Nat /\ IsFiniteSet(S) /\ n \in Nat
  <2>1. S = Orders(q, StatusPriority)
    BY DEF StatusReads, Orders
  <2> QED
    BY <2>1, InOrderType
<1>2. /\ ReadNames(q) \in Seq({q[i].name : i \in DOMAIN q}) /\ Len(ReadNames(q)) = n
      /\ \A k \in 1..n : Kth(S, k) \in S /\ ReadNames(q)[k] = q[Kth(S, k)].name
  BY ReadNamesType
<1>3. DOMAIN ReadNames(q) = 1..n
  BY <1>2, LenProperties
<1>4. names = {q[i].name : i \in S} /\ \A i, j \in S : q[i].name = q[j].name => i = j
  BY DEF ReadsExact
<1> HIDE DEF S
<1>5. ASSUME NEW k \in 1..n, NEW l \in 1..n, ReadNames(q)[k] = ReadNames(q)[l] PROVE k = l
  <2>1. Kth(S, k) = Kth(S, l)
    BY <1>2, <1>4, <1>5
  <2>2. Rank(S, Kth(S, k)) = k - 1
    BY <1>1, KthHasRank
  <2>3. Rank(S, Kth(S, l)) = l - 1
    BY <1>1, KthHasRank
  <2> QED
    BY <1>1, <2>1, <2>2, <2>3
<1>6. ASSUME NEW i \in S PROVE \E k \in 1..n : ReadNames(q)[k] = q[i].name
  <2>1. Rank(S, i) \in 0..(n - 1)
    BY <1>1, RankRange
  <2>2. PICK k \in 1..n : Rank(S, i) = k - 1
    <3>1. Rank(S, i) + 1 \in 1..n /\ Rank(S, i) = (Rank(S, i) + 1) - 1
      BY <1>1, <2>1
    <3> QED
      BY <3>1
  <2>3. Kth(S, k) = i
    BY <1>1, <2>2, KthOfRank
  <2> QED
    BY <1>2, <2>3
<1>7. Promised!Names(ReadNames(q)) = {ReadNames(q)[k] : k \in 1..n}
  BY <1>3 DEF Promised!Names
<1>8. {ReadNames(q)[k] : k \in 1..n} = names
  BY <1>2, <1>4, <1>6
<1> QED
  BY <1>3, <1>5, <1>7, <1>8

\* The properties with a read waiting are status properties.
FieldsOnly == pending_status \subseteq {StatusFields[p] : p \in 1..Len(StatusFields)}

LEMMA FieldsOnlyStep == FieldsOnly /\ [Next]_vars => FieldsOnly'
<1> SUFFICES ASSUME FieldsOnly, [Next]_vars PROVE FieldsOnly'
  OBVIOUS
<1>1. CASE QueueStatus
  BY <1>1 DEF QueueStatus, FieldsOnly, Missing
<1>2. CASE Fetch
  <2>1. pending_status' \subseteq pending_status
    BY <1>2 DEF Fetch, FetchRead, FetchControl, FetchProperty
  <2> QED
    BY <2>1 DEF FieldsOnly
<1>3. CASE pending_status' = pending_status
  BY <1>3 DEF FieldsOnly
<1> QED
  BY <1>1, <1>2, <1>3 DEF Next, QueueWrite, QueueModeOff, QueueWorkMode, QueueTurbo, Queue,
    ReportProperty, ReportControl, vars

\* A refresh reads every status property that has no read waiting.
LEMMA StatusRefreshes ==
  ASSUME IInv, IInv', FieldsOnly, QueueStatus
  PROVE  Promised!Refresh
<1> DEFINE n == Cardinality(Missing)
<1>0. PICK q, r, F : /\ q = commands_queue /\ r = commands_queue'
                     /\ F = command_order..(command_order + n - 1)
  OBVIOUS
<1>1. n \in Nat
  <2>1. Len(StatusFields) \in Nat
    BY StatusFieldsAssumption
  <2>2. IsFiniteSet(1..Len(StatusFields))
    BY <2>1, FS_Interval
  <2>3. Missing \in SUBSET (1..Len(StatusFields))
    BY DEF Missing
  <2> QED
    BY <2>2, <2>3, FS_Subset, FS_CardinalityType
<1>2. /\ Counted(q) /\ command_order \in Nat /\ DOMAIN q \subseteq 0..(command_order - 1)
  BY <1>0, DeviceCounted DEF IInv, TypeOK, QueueTypeOK, Current
<1>3. PICK batch \in [1..n -> Missing] :
        r = [i \in DOMAIN q \cup F |->
               IF i \in F THEN StatusRead(StatusFields[batch[i - command_order + 1]]) ELSE q[i]]
  BY <1>0 DEF QueueStatus
<1> HIDE DEF n
<1>4. Grown(q, r, F)
  <2>1. IsFiniteSet(F) /\ F \in SUBSET Nat
    BY <1>0, <1>1, <1>2, FS_Interval
  <2>2. \A i \in DOMAIN q : i \in Nat /\ i < command_order
    BY <1>2
  <2>3. \A j \in F : j \in Nat /\ command_order <= j
    BY <1>0, <1>1, <1>2
  <2>4. \A i \in DOMAIN q, j \in F : i < j
    BY <1>2, <2>2, <2>3
  <2>5. \A i \in DOMAIN q : i \notin F
    BY <2>2, <2>4
  <2>6. DOMAIN r = DOMAIN q \cup F /\ \A i \in DOMAIN q : r[i] = q[i]
    BY <1>3, <2>5
  <2> QED
    BY <1>2, <2>1, <2>4, <2>6 DEF Grown
<1>5. \A j \in F : r[j].priority = StatusPriority
  BY <1>3 DEF StatusRead
<1>6. ListGrown(q, r, F, UserPriority) /\ ListGrown(q, r, F, StatusPriority)
  BY <1>4, InOrderAppend
<1>7. InOrder(r, UserPriority) = InOrder(q, UserPriority) /\ Counted(r)
  <2>1. \A j \in F : r[j].priority # UserPriority
    BY <1>5 DEF UserPriority, StatusPriority
  <2> QED
    BY <1>6, <2>1 DEF ListGrown
<1>8. Promised!Extends(ReadNames(r), ReadNames(q))
  <2>1. /\ ReadNames(q) \in Seq({q[i].name : i \in DOMAIN q})
        /\ ReadNames(r) \in Seq({r[i].name : i \in DOMAIN r})
    BY <1>2, <1>7, ReadNamesType
  <2>2. /\ Len(ReadNames(q)) = Len(InOrder(q, StatusPriority))
        /\ Len(ReadNames(r)) = Len(InOrder(r, StatusPriority))
    BY <1>2, <1>7, ReadNamesType
  <2>3. Len(ReadNames(r)) >= Len(ReadNames(q))
    BY <1>6, <2>2 DEF ListGrown
  <2>4. Len(ReadNames(q)) \in Nat /\ Len(ReadNames(r)) \in Nat
    BY <2>1, LenProperties
  <2>5. ASSUME NEW k \in 1..Len(ReadNames(q)) PROVE ReadNames(r)[k] = ReadNames(q)[k]
    <3>1. InOrder(r, StatusPriority)[k] = InOrder(q, StatusPriority)[k]
      BY <1>6, <2>2 DEF ListGrown
    <3>2. ReadNames(q)[k] = InOrder(q, StatusPriority)[k].name
      BY <1>2, ReadNamesType
    <3>3. k \in 1..Len(ReadNames(r))
      BY <2>3, <2>4
    <3>4. ReadNames(r)[k] = InOrder(r, StatusPriority)[k].name
      BY <1>7, <3>3, ReadNamesType
    <3> QED
      BY <3>1, <3>2, <3>4
  <2> QED
    BY <2>1, <2>3, <2>5, PrefixExtends
<1>9. pending_status' = {StatusFields[p] : p \in 1..Len(StatusFields)}
  BY DEF QueueStatus, FieldsOnly, Missing
<1>10. ReadsExact(r, pending_status')
  BY <1>0 DEF IInv, QueueInv, Current
<1>11. /\ Promised!Names(ReadNames(r)) = pending_status'
       /\ \A k, l \in DOMAIN ReadNames(r) : ReadNames(r)[k] = ReadNames(r)[l] => k = l
  BY <1>7, <1>10, ReadNamesExact
<1>12. ReadsInOrder = ReadNames(q) /\ ReadsInOrder' = ReadNames(r)
  BY <1>0 DEF ReadsInOrder, ReadNames
<1>13. WritesInOrder' = WritesInOrder
  BY <1>0, <1>7 DEF WritesInOrder
<1> QED
  BY <1>8, <1>9, <1>11, <1>12, <1>13 DEF Promised!Refresh

\* No command of a priority: an empty listing.
LEMMA InOrderEmpty ==
  ASSUME NEW q, NEW p, Orders(q, p) = {}
  PROVE  InOrder(q, p) = <<>>
<1>1. Cardinality(Orders(q, p)) = 0
  BY FS_EmptySet
<1>2. 1..0 = {}
  OBVIOUS
<1>3. InOrder(q, p) = [k \in {} |-> q[Kth(Orders(q, p), k)]]
  BY <1>1, <1>2 DEF InOrder
<1> QED
  BY <1>3

\* Without its first read, the names are listed without the first.
LEMMA ReadNamesRemove ==
  ASSUME NEW q, NEW r, Counted(q), Counted(r), InOrder(q, StatusPriority) # <<>>,
         InOrder(r, StatusPriority) = Tail(InOrder(q, StatusPriority))
  PROVE  ReadNames(q) # <<>> /\ ReadNames(r) = Tail(ReadNames(q))
<1> DEFINE L == InOrder(q, StatusPriority)
           T == {q[i].name : i \in DOMAIN q}
<1>1. L \in Seq({q[i] : i \in DOMAIN q}) /\ L # <<>>
  BY InOrderType
<1>2. /\ ReadNames(q) \in Seq(T) /\ Len(ReadNames(q)) = Len(L)
      /\ \A k \in 1..Len(ReadNames(q)) : ReadNames(q)[k] = L[k].name
  BY ReadNamesType
<1>3. /\ ReadNames(r) \in Seq({r[i].name : i \in DOMAIN r}) /\ Len(ReadNames(r)) = Len(Tail(L))
      /\ \A k \in 1..Len(ReadNames(r)) : ReadNames(r)[k] = Tail(L)[k].name
  BY ReadNamesType
<1> HIDE DEF L, T
<1>4. /\ Len(L) \in Nat /\ Len(L) # 0 /\ Len(Tail(L)) = Len(L) - 1
      /\ \A k \in 1..Len(Tail(L)) : Tail(L)[k] = L[k + 1]
  BY <1>1, HeadTailProperties, EmptySeq, LenProperties
<1>5. ReadNames(q) # <<>>
  BY <1>2, <1>4, EmptySeq
<1>6. /\ Tail(ReadNames(q)) \in Seq(T) /\ Len(Tail(ReadNames(q))) = Len(L) - 1
      /\ \A k \in 1..(Len(L) - 1) : Tail(ReadNames(q))[k] = ReadNames(q)[k + 1]
  BY <1>2, <1>5, HeadTailProperties
<1>7. \A k \in 1..(Len(L) - 1) : ReadNames(r)[k] = Tail(ReadNames(q))[k]
  <2> SUFFICES ASSUME NEW k \in 1..(Len(L) - 1) PROVE ReadNames(r)[k] = Tail(ReadNames(q))[k]
    OBVIOUS
  <2>1. k + 1 \in 1..Len(L)
    BY <1>4
  <2>2. ReadNames(r)[k] = L[k + 1].name
    BY <1>3, <1>4
  <2>3. Tail(ReadNames(q))[k] = L[k + 1].name
    BY <1>2, <1>6, <2>1
  <2> QED
    BY <2>2, <2>3
<1>8. ReadNames(r) = Tail(ReadNames(q))
  BY <1>3, <1>4, <1>6, <1>7, SeqEqual
<1> QED
  BY <1>5, <1>8

\* A fetch takes the oldest write, or the oldest read when no write waits.
LEMMA FetchTakes ==
  ASSUME IInv, Fetch
  PROVE  Promised!TakeWrite \/ Promised!TakeRead
<1>0. PICK q, r : q = commands_queue /\ r = commands_queue'
  OBVIOUS
<1>1. PICK i \in DOMAIN q : IsNext(q, i) /\ r = Restrict(q, DOMAIN q \ {i})
  BY <1>0 DEF Fetch
<1>2. Counted(q) /\ \A j \in DOMAIN q : q[j] \in CommandTypes
  BY <1>0, DeviceCounted DEF IInv, TypeOK, QueueTypeOK, Current
<1>3. DOMAIN r = DOMAIN q \ {i} /\ \A j \in DOMAIN r : r[j] = q[j]
  BY <1>1 DEF Restrict
<1>4. Counted(r)
  BY <1>2, <1>3, FS_RemoveElement DEF Counted
<1>5. /\ q[i].priority \in {UserPriority, StatusPriority}
      /\ \A j \in DOMAIN q : q[j].priority \in {UserPriority, StatusPriority}
  BY <1>2 DEF CommandTypes
<1>6. \A j \in DOMAIN q : Before(q, i, j)
  BY <1>1 DEF IsNext
<1>7. \A j \in Orders(q, q[i].priority) : i <= j
  BY <1>2, <1>5, <1>6 DEF Before, Orders, UserPriority, StatusPriority
<1>8. i \in Orders(q, q[i].priority)
  BY DEF Orders
<1>9. /\ InOrder(q, q[i].priority) # <<>>
      /\ InOrder(r, q[i].priority) = Tail(InOrder(q, q[i].priority))
  BY <1>2, <1>3, <1>7, <1>8, InOrderRemove
<1>10. ASSUME NEW p, p # q[i].priority PROVE InOrder(r, p) = InOrder(q, p)
  <2>1. Orders(r, p) = Orders(q, p) /\ \A j \in Orders(q, p) : r[j] = q[j]
    BY <1>3, <1>10 DEF Orders
  <2> QED
    BY <1>2, <2>1, InOrderSame
<1>11. /\ WritesInOrder = InOrder(q, UserPriority) /\ WritesInOrder' = InOrder(r, UserPriority)
       /\ ReadsInOrder = ReadNames(q) /\ ReadsInOrder' = ReadNames(r)
  BY <1>0 DEF WritesInOrder, ReadsInOrder, ReadNames
<1>12. CASE q[i].priority = UserPriority
  <2>1. StatusPriority # q[i].priority
    BY <1>12 DEF UserPriority, StatusPriority
  <2>2. ReadNames(r) = ReadNames(q)
    BY <1>10, <2>1 DEF ReadNames
  <2> QED
    BY <1>9, <1>11, <1>12, <2>2 DEF Promised!TakeWrite
<1>13. CASE q[i].priority = StatusPriority
  <2>1. UserPriority # q[i].priority
    BY <1>13 DEF UserPriority, StatusPriority
  <2>2. Orders(q, UserPriority) = {}
    BY <1>6, <1>13 DEF Orders, Before, UserPriority, StatusPriority
  <2>3. InOrder(q, UserPriority) = <<>> /\ InOrder(r, UserPriority) = InOrder(q, UserPriority)
    BY <1>10, <2>1, <2>2, InOrderEmpty
  <2>4. ReadNames(q) # <<>> /\ ReadNames(r) = Tail(ReadNames(q))
    BY <1>2, <1>4, <1>9, <1>13, ReadNamesRemove
  <2> QED
    BY <1>11, <2>3, <2>4 DEF Promised!TakeRead
<1> QED
  BY <1>5, <1>12, <1>13

\* Every call of queue_command submits what it queues.
LEMMA CommandsSubmit ==
  ASSUME IInv,
         \/ \E w \in UserWrites : QueueWrite(w[1], w[2])
         \/ QueueModeOff
         \/ \E mode \in WorkModes : QueueWorkMode(mode)
         \/ QueueTurbo
  PROVE  Promised!Submit
<1>1. QueueInv(Current) /\ control \in Control \cup {NoControl}
  BY DEF IInv, TypeOK
<1>2. {"t_power", "t_work_mode"} \subseteq PropertyNames /\ {On, Off} \subseteq Raw
  BY RawAssumption, NamesAssumption DEF PropertyNames
<1>3. ASSUME NEW w \in UserWrites, QueueWrite(w[1], w[2]) PROVE Promised!Submit
  <2>1. w[1] \in PropertyNames /\ w[2] \in Raw
    BY ValuesAssumption
  <2>2. Appended(Current, BaseQueueCommand(Current, w[1], w[2]))
    BY <1>1, <2>1, BaseQueueCommandAppends
  <2> QED
    BY <1>3, <2>2, QueueSubmits DEF QueueWrite
<1>4. CASE QueueModeOff
  <2>1. Appended(Current, BaseQueueCommand(Current, "t_power", Off))
    BY <1>1, <1>2, BaseQueueCommandAppends
  <2> QED
    BY <1>4, <2>1, QueueSubmits DEF QueueModeOff
<1>5. ASSUME NEW mode \in WorkModes, QueueWorkMode(mode) PROVE Promised!Submit
  <2> DEFINE on == BaseQueueCommand(Current, "t_power", On)
             both == BaseQueueCommand(on, "t_work_mode", mode)
  <2>1. mode \in Raw
    BY ValuesAssumption
  <2>2. Appended(Current, on) /\ QueueInv(on)
    BY <1>1, <1>2, BaseQueueCommandAppends, BaseQueueCommandInv
  <2>3. Appended(on, both)
    BY <1>1, <1>2, <2>1, <2>2, BaseQueueCommandAppends
  <2>4. Queue(both)
    BY <1>5 DEF QueueWorkMode
  <2> HIDE DEF on, both
  <2>5. Appended(Current, both)
    BY <2>2, <2>3, AppendedTwice
  <2> QED
    BY <2>4, <2>5, QueueSubmits
<1>6. CASE QueueTurbo
  <2> DEFINE turbo == BaseQueueCommand(Current, "t_temp_heatcold", On)
             speed == BaseQueueCommand(turbo, "t_fan_speed", Off)
             quiet == BaseQueueCommand(speed, "t_fan_mute", Off)
             sleep == BaseQueueCommand(quiet, "t_sleep", Off)
             eight == BaseQueueCommand(sleep, "t_temp_eight", Off)
  <2>0. {"t_temp_heatcold", "t_fan_speed", "t_fan_mute", "t_sleep", "t_temp_eight"}
           \subseteq PropertyNames
    BY <1>6 DEF QueueTurbo, PropertyNames
  <2>1. QueueInv(turbo) /\ Appended(Current, turbo)
    BY <1>1, <1>2, <2>0, BaseQueueCommandAppends, BaseQueueCommandInv
  <2>9. Queue(eight)
    BY <1>6 DEF QueueTurbo
  <2> HIDE DEF turbo
  <2>2. QueueInv(speed) /\ Appended(turbo, speed)
    BY <1>1, <1>2, <2>0, <2>1, BaseQueueCommandAppends, BaseQueueCommandInv
  <2> HIDE DEF speed
  <2>3. QueueInv(quiet) /\ Appended(speed, quiet)
    BY <1>1, <1>2, <2>0, <2>2, BaseQueueCommandAppends, BaseQueueCommandInv
  <2> HIDE DEF quiet
  <2>4. QueueInv(sleep) /\ Appended(quiet, sleep)
    BY <1>1, <1>2, <2>0, <2>3, BaseQueueCommandAppends, BaseQueueCommandInv
  <2> HIDE DEF sleep
  <2>5. Appended(sleep, eight)
    BY <1>1, <1>2, <2>0, <2>4, BaseQueueCommandAppends
  <2> HIDE DEF eight
  <2>6. Appended(Current, quiet)
    BY <2>1, <2>2, <2>3, AppendedTwice
  <2>7. Appended(quiet, eight)
    BY <2>4, <2>5, AppendedTwice
  <2>8. Appended(Current, eight)
    BY <2>6, <2>7, AppendedTwice
  <2> QED
    BY <2>8, <2>9, QueueSubmits
<1> QED
  BY <1>3, <1>4, <1>5, <1>6

\* The device implements the two queues its callers think of, for any fields,
\* writes and reports and any number of commands: writes are sent first and in
\* the order they were given, and each refresh leaves exactly one read of every
\* status property (queue_command, queue_status, Command's ordering).
THEOREM DeviceImplementsCommandQueue == Spec => ImplementsCommandQueue
<1>1. Init => Promised!Init /\ FieldsOnly
  <2> SUFFICES ASSUME Init PROVE Promised!Init /\ FieldsOnly
    OBVIOUS
  <2>1. Orders(commands_queue, UserPriority) = {} /\ Orders(commands_queue, StatusPriority) = {}
    BY DEF Init, Orders
  <2>2. /\ InOrder(commands_queue, UserPriority) = <<>>
        /\ InOrder(commands_queue, StatusPriority) = <<>>
    BY <2>1, InOrderEmpty
  <2>3. DOMAIN <<>> = {}
    OBVIOUS
  <2>4. ReadsInOrder = <<>>
    BY <2>2, <2>3 DEF ReadsInOrder
  <2>5. FieldsOnly
    BY DEF Init, FieldsOnly
  <2> QED
    BY <2>2, <2>4, <2>5 DEF Promised!Init, WritesInOrder
<1>2. IInv /\ IInv' /\ FieldsOnly /\ [Next]_vars => [Promised!Next]_(Promised!vars)
  <2> SUFFICES ASSUME IInv, IInv', FieldsOnly, [Next]_vars
               PROVE  [Promised!Next]_(Promised!vars)
    OBVIOUS
  <2>1. CASE QueueStatus
    BY <2>1, StatusRefreshes DEF Promised!Next
  <2>2. CASE Fetch
    BY <2>2, FetchTakes DEF Promised!Next
  <2>3. CASE UNCHANGED commands_queue
    BY <2>3 DEF Promised!vars, WritesInOrder, ReadsInOrder
  <2>4. CASE \/ \E w \in UserWrites : QueueWrite(w[1], w[2])
             \/ QueueModeOff
             \/ \E mode \in WorkModes : QueueWorkMode(mode)
             \/ QueueTurbo
    BY <2>4, CommandsSubmit DEF Promised!Next
  <2>5. CASE \/ \E r \in Reports : ReportProperty(r[1], r[2])
             \/ \E c \in ReportedControls : ReportControl(c)
             \/ UNCHANGED vars
    BY <2>3, <2>5 DEF ReportProperty, ReportControl, vars, queueVars
  <2> QED
    BY <2>1, <2>2, <2>4, <2>5 DEF Next
<1>3. Spec => []FieldsOnly
  BY <1>1, FieldsOnlyStep, PTL DEF Spec
<1> QED
  BY <1>1, <1>2, <1>3, Invariant, PTL DEF Spec, ImplementsCommandQueue, Promised!Spec

-----------------------------------------------------------------------------
(* The entities.                                                           *)

Names == PropertyNames \cup {TCV, QueuedCommands}

\* A step of the device with its entities is a step of the device.
LEMMA StepOfDevice == [NextEntities]_allVars => [Next]_vars
<1>1. ASSUME FetchAndNotify PROVE Fetch
  BY <1>1 DEF FetchAndNotify
<1> QED
  BY <1>1 DEF NextEntities, Next, allVars

\* A notification that covers every value that changed leaves every view fresh.
LEMMA NotifyCovers ==
  ASSUME NEW changed, EntityViewFresh, Notify(changed),
         \A n \in Names \ changed : Native(n)' = Native(n)
  PROVE  EntityViewFresh'
<1> SUFFICES ASSUME NEW e \in Entities PROVE shown'[e] = View(e)'
  BY DEF EntityViewFresh
<1>1. CASE e \cap changed # {}
  BY <1>1 DEF Notify
<1>2. CASE e \cap changed = {}
  <2>1. \A n \in e : Native(n)' = Native(n)
    BY <1>2, EntitiesAssumption DEF Names
  <2>2. View(e)' = View(e)
    BY <2>1 DEF View
  <2> QED
    BY <1>2, <2>2 DEF Notify, EntityViewFresh
<1> QED
  BY <1>1, <1>2

\* Queueing changes no value but the length of the queue.
LEMMA StoreUntouched ==
  ASSUME UNCHANGED storeVars, NEW n \in Names \ {QueuedCommands}
  PROVE  Native(n)' = Native(n)
  BY DEF Native, Stored, storeVars

\* What update_property does not find changed has the value it had.
LEMMA StoredChanges ==
  ASSUME NEW names, NEW isReport \in BOOLEAN, known' = known \cup names,
         NEW n \in Names \ {QueuedCommands}, n \notin Changed(names, isReport),
         n \notin names => Stored(n)' = Stored(n)
  PROVE  Native(n)' = Native(n)
<1>1. CASE n \in names
  <2>1. n \in known /\ Stored(n)' = Stored(n)
    BY <1>1 DEF Changed
  <2> QED
    BY <1>1, <2>1 DEF Native
<1>2. CASE n \notin names
  BY <1>2 DEF Native
<1> QED
  BY <1>1, <1>2

\* A property that is stored: no other value changes.
LEMMA PropertyChanges ==
  ASSUME TypeOK, NEW name \in PropertyNames, NEW value, NEW isReport \in BOOLEAN,
         UpdateProperty(name, value, isReport),
         NEW n \in Names \ {QueuedCommands}, n \notin Changed(Touched(name), isReport)
  PROVE  Native(n)' = Native(n)
<1>1. Touched(name) = {name}
  BY NamesAssumption DEF Touched
<1>2. known' = known \cup {name} /\ control' = control
  BY DEF UpdateProperty, StoreUpdate
<1>3. n \notin {name} => Stored(n)' = Stored(n)
  BY <1>2 DEF UpdateProperty, StoreUpdate, Stored, TypeOK, Names
<1> QED
  BY <1>1, <1>2, <1>3, StoredChanges

\* A packed control that is stored: only its fields and itself change.
LEMMA ControlChanges ==
  ASSUME TypeOK, NEW c, NEW isReport \in BOOLEAN, UpdateControl(c, isReport),
         NEW n \in Names \ {QueuedCommands}, n \notin Changed(Touched(TCV), isReport)
  PROVE  Native(n)' = Native(n)
<1>1. Touched(TCV) = ControlFields \cup {TCV}
  BY DEF Touched
<1>2. known' = known \cup (ControlFields \cup {TCV})
  BY DEF UpdateControl, StoreUpdate
<1>3. n \notin ControlFields \cup {TCV} => Stored(n)' = Stored(n)
  BY DEF UpdateControl, StoreUpdate, Stored, TypeOK, Names
<1> QED
  BY <1>1, <1>2, <1>3, StoredChanges

\* One command is next.
LEMMA NextUnique ==
  ASSUME TypeOK, NEW i, NEW j, IsNext(commands_queue, i), IsNext(commands_queue, j)
  PROVE  i = j
<1>1. i \in DOMAIN commands_queue /\ j \in DOMAIN commands_queue
  BY DEF IsNext
<1>2. i \in Int /\ j \in Int
  BY <1>1 DEF TypeOK, QueueTypeOK, Current
<1>3. commands_queue[i].priority \in Nat /\ commands_queue[j].priority \in Nat
  BY <1>1 DEF TypeOK, QueueTypeOK, Current, CommandTypes, UserPriority, StatusPriority
<1>4. Before(commands_queue, i, j) /\ Before(commands_queue, j, i)
  BY <1>1 DEF IsNext
<1> QED
  BY <1>2, <1>3, <1>4 DEF Before

\* Taking a command tells the entities of everything its updater stored.
LEMMA FetchTells == IInv /\ EntityViewFresh /\ FetchAndNotify => EntityViewFresh'
<1> SUFFICES ASSUME IInv, EntityViewFresh, FetchAndNotify PROVE EntityViewFresh'
  OBVIOUS
<1>1. TypeOK
  BY DEF IInv
<1> DEFINE told(i) ==
      {QueuedCommands} \cup
        IF commands_queue[i].priority = StatusPriority THEN {}
        ELSE Changed(Touched(commands_queue[i].name), FALSE)
<1>2. PICK i \in DOMAIN commands_queue : IsNext(commands_queue, i) /\ Fetch /\ Notify(told(i))
  BY DEF FetchAndNotify
<1>3. FetchRead(i) \/ FetchControl(i) \/ FetchProperty(i)
  BY <1>1, <1>2, NextUnique DEF Fetch
<1>4. commands_queue[i] \in CommandTypes
  BY <1>1 DEF TypeOK, QueueTypeOK, Current
<1> SUFFICES ASSUME NEW n \in Names \ told(i) PROVE Native(n)' = Native(n)
  <2> HIDE DEF told
  <2> QED
    BY <1>2, NotifyCovers
<1>5. n \in Names \ {QueuedCommands}
  OBVIOUS
<1>6. CASE FetchRead(i)
  BY <1>5, <1>6, StoreUntouched DEF FetchRead
<1>7. CASE FetchControl(i)
  <2>1. commands_queue[i].priority = UserPriority /\ commands_queue[i].name = TCV
    BY <1>7 DEF FetchControl, ControlWrites
  <2>2. n \notin Changed(Touched(TCV), FALSE)
    <3>1. commands_queue[i].priority # StatusPriority
      BY <2>1 DEF UserPriority, StatusPriority
    <3> QED
      BY <2>1, <3>1, Zenon
  <2>3. UpdateControl(commands_queue[i].value, FALSE)
    BY <1>7 DEF FetchControl
  <2> QED
    BY <1>1, <1>5, <2>2, <2>3, ControlChanges
<1>8. CASE FetchProperty(i)
  <2>1. commands_queue[i].priority = UserPriority /\ commands_queue[i].name # TCV
    BY <1>8 DEF FetchProperty
  <2>2. commands_queue[i].name \in PropertyNames
    BY <1>4, <2>1 DEF CommandTypes, UserPriority, StatusPriority
  <2>3. n \notin Changed(Touched(commands_queue[i].name), FALSE)
    <3>1. commands_queue[i].priority # StatusPriority
      BY <2>1 DEF UserPriority, StatusPriority
    <3> QED
      BY <3>1, Zenon
  <2>4. UpdateProperty(commands_queue[i].name, commands_queue[i].value, FALSE)
    BY <1>8 DEF FetchProperty
  <2> QED
    BY <1>1, <1>5, <2>2, <2>3, <2>4, PropertyChanges
<1> QED
  BY <1>3, <1>6, <1>7, <1>8

\* No step leaves an entity behind.
LEMMA FreshStep == IInv /\ EntityViewFresh /\ [NextEntities]_allVars => EntityViewFresh'
<1> SUFFICES ASSUME IInv, EntityViewFresh, [NextEntities]_allVars PROVE EntityViewFresh'
  OBVIOUS
<1>1. TypeOK
  BY DEF IInv
<1>2. ASSUME UNCHANGED storeVars, Notify({QueuedCommands}) PROVE EntityViewFresh'
  BY <1>2, StoreUntouched, NotifyCovers
<1>3. CASE /\ \/ \E w \in UserWrites : QueueWrite(w[1], w[2])
              \/ QueueModeOff
              \/ \E mode \in WorkModes : QueueWorkMode(mode)
              \/ QueueTurbo
           /\ Notify({QueuedCommands})
  BY <1>2, <1>3 DEF QueueWrite, QueueModeOff, QueueWorkMode, QueueTurbo, Queue
<1>4. CASE QueueStatus /\ Notify(IF Missing = {} THEN {} ELSE {QueuedCommands})
  <2>1. UNCHANGED storeVars
    BY <1>4 DEF QueueStatus
  <2>2. CASE Missing = {}
    <3>1. Cardinality(Missing) = 0
      BY <2>2, FS_EmptySet
    <3>2. command_order..(command_order + Cardinality(Missing) - 1) = {}
      BY <1>1, <3>1 DEF TypeOK, QueueTypeOK, Current
    <3>3. DOMAIN commands_queue' = DOMAIN commands_queue
      BY <1>4, <3>2 DEF QueueStatus
    <3>4. Native(QueuedCommands)' = Native(QueuedCommands)
      BY <3>3 DEF Native
    <3>5. \A n \in Names : Native(n)' = Native(n)
      BY <2>1, <3>4, StoreUntouched
    <3>6. Notify({})
      BY <1>4, <2>2
    <3> QED
      BY <3>5, <3>6, NotifyCovers
  <2>3. CASE Missing # {}
    BY <1>2, <1>4, <2>1, <2>3
  <2> QED
    BY <2>2, <2>3
<1>5. CASE FetchAndNotify
  BY <1>5, FetchTells
<1>6. ASSUME NEW r \in Reports, ReportProperty(r[1], r[2]), Notify(Changed({r[1]}, TRUE))
      PROVE  EntityViewFresh'
  <2>1. r[1] \in PropertyNames
    BY ValuesAssumption
  <2>2. UpdateProperty(r[1], r[2], TRUE) /\ UNCHANGED commands_queue
    BY <1>6 DEF ReportProperty, queueVars
  <2>3. Touched(r[1]) = {r[1]}
    BY <2>1, NamesAssumption DEF Touched
  <2>4. Native(QueuedCommands)' = Native(QueuedCommands)
    BY <2>2 DEF Native
  <2>5. \A n \in Names \ Changed({r[1]}, TRUE) : Native(n)' = Native(n)
    BY <1>1, <2>1, <2>2, <2>3, <2>4, PropertyChanges
  <2> QED
    BY <1>6, <2>5, NotifyCovers
<1>7. ASSUME NEW c \in ReportedControls, ReportControl(c), Notify(Changed(Touched(TCV), TRUE))
      PROVE  EntityViewFresh'
  <2>1. UpdateControl(c, TRUE) /\ UNCHANGED commands_queue
    BY <1>7 DEF ReportControl, queueVars
  <2>2. Native(QueuedCommands)' = Native(QueuedCommands)
    BY <2>1 DEF Native
  <2>3. \A n \in Names \ Changed(Touched(TCV), TRUE) : Native(n)' = Native(n)
    BY <1>1, <2>1, <2>2, ControlChanges
  <2> QED
    BY <1>7, <2>3, NotifyCovers
<1>8. CASE UNCHANGED allVars
  <2>1. \A n \in Names : Native(n)' = Native(n)
    BY <1>8 DEF allVars, vars, queueVars, storeVars, Native, Stored
  <2> QED
    BY <1>8, <2>1, EntitiesAssumption DEF EntityViewFresh, View, Names, allVars
<1> QED
  BY <1>3, <1>4, <1>5, <1>6, <1>7, <1>8 DEF NextEntities

\* No entity ever shows what its device no longer holds, whichever names the
\* entities depend on (update_property and the listeners it calls).
THEOREM EntitiesFollowDevice == SpecEntities => []EntityViewFresh
<1>1. InitEntities => IInv /\ EntityViewFresh
  BY InitInv DEF InitEntities, EntityViewFresh
<1>2. IInv /\ EntityViewFresh /\ [NextEntities]_allVars => IInv' /\ EntityViewFresh'
  BY StepOfDevice, NextInv, FreshStep
<1> QED
  BY <1>1, <1>2, PTL DEF SpecEntities
=============================================================================
