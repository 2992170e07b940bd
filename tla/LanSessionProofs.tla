-------------------------- MODULE LanSessionProofs --------------------------
(***************************************************************************)
(* Proofs about LanSession for any number of sessions and messages.  Where *)
(* the appliance does not restart its numbers, they keep updates in order  *)
(* whatever the network loses, repeats and reorders and however many       *)
(* messages are under way.  Where it does, and for commands, the order     *)
(* rests on the chain of ciphertexts and on at most two messages of a      *)
(* direction being under way: with one of two consumed, no pair is left    *)
(* that could follow late (InStep).  Only an appliance that restarts its   *)
(* numbers can have a newer update dropped as stale.                       *)
(***************************************************************************)
EXTENDS LanSession, FiniteSetTheorems, TLAPS

Ciphertexts == (0..MaxSessions) \X Nat

\* A ciphertext is its session and its place in the stream.
LEMMA Pair ==
  ASSUME NEW c \in Ciphertexts
  PROVE  c = <<c[1], c[2]>> /\ c[1] \in 0..MaxSessions /\ c[2] \in Nat
  BY DEF Ciphertexts

\* One of two ciphertexts was produced first, unless they are the same.
LEMMA EarlierTotal ==
  ASSUME NEW a \in Ciphertexts, NEW b \in Ciphertexts, ~Earlier(a, b), ~Earlier(b, a)
  PROVE  a = b
<1>1. a[1] \in Nat /\ b[1] \in Nat /\ a[2] \in Nat /\ b[2] \in Nat
  BY Pair, BoundsAssumption
<1>2. a[1] = b[1] /\ a[2] = b[2]
  BY <1>1 DEF Earlier
<1> QED
  BY <1>2, Pair

-----------------------------------------------------------------------------
\* The state keeps its types.
LEMMA TypeStep == TypeOK /\ [Next]_vars => TypeOK'
<1> SUFFICES ASSUME TypeOK, [Next]_vars PROVE TypeOK'
  OBVIOUS
<1> USE BoundsAssumption DEF TypeOK, handlerVars
<1>1. CASE KeyExchange
  <2>1. keys' \in 1..MaxSessions /\ 0 \in 0..commands_seq_no
    BY <1>1 DEF KeyExchange
  <2>2. <<keys', 0>> \in (0..MaxSessions) \X Nat
    BY <2>1
  <2> QED
    BY <1>1, <2>1, <2>2 DEF KeyExchange
<1>2. CASE KeyRefused
  BY <1>2 DEF KeyRefused
<1>3. CASE Command
  BY <1>3 DEF Command
<1>4. ASSUME NEW u \in updates, Update(u) PROVE TypeOK'
  <2>1. u \in [cipher : (0..MaxSessions) \X Nat, seq : 0..MaxSeq]
    OBVIOUS
  <2>2. updates' \subseteq updates
    BY <1>4 DEF Update
  <2> QED
    BY <1>4, <2>1, <2>2 DEF Update
<1>5. ASSUME NEW s \in answers, UnitKeys(s) PROVE TypeOK'
  <2>1. s \in 0..MaxSessions /\ 0 \in 0..MaxUpdates
    OBVIOUS
  <2>2. <<s, 0>> \in (0..MaxSessions) \X Nat
    BY <2>1
  <2>3. unit' = [unit EXCEPT !.session = s, !.sent = 0, !.decryptor = <<s, 0>>]
    BY <1>5 DEF UnitKeys
  <2>4. unit' \in [session : 0..MaxSessions, sent : 0..MaxUpdates, seq : 0..(MaxSeq + 1),
                   decryptor : (0..MaxSessions) \X Nat, executed : (0..MaxSessions) \X Nat]
    BY <2>1, <2>2, <2>3
  <2> QED
    BY <1>5, <2>4 DEF UnitKeys
<1>6. ASSUME NEW seq \in {0, unit.seq}, seq <= MaxSeq, UnitReports(seq) PROVE TypeOK'
  <2>1. seq \in 0..MaxSeq
    BY <1>6
  <2>2. unit' = [unit EXCEPT !.sent = unit.sent + 1, !.seq = seq + 1] /\ unit.sent < MaxUpdates
    BY <1>6 DEF UnitReports
  <2>3. unit'.sent = unit.sent + 1 /\ unit'.sent \in 0..MaxUpdates /\ unit'.seq \in 0..(MaxSeq + 1)
    BY <2>1, <2>2
  <2>4. unit' \in [session : 0..MaxSessions, sent : 0..MaxUpdates, seq : 0..(MaxSeq + 1),
                   decryptor : (0..MaxSessions) \X Nat, executed : (0..MaxSessions) \X Nat]
    BY <2>1, <2>2, <2>3
  <2>5. [cipher |-> <<unit.session, unit'.sent>>, seq |-> seq]
          \in [cipher : (0..MaxSessions) \X Nat, seq : 0..MaxSeq]
    BY <2>1, <2>3
  <2> QED
    BY <1>6, <2>4, <2>5 DEF UnitReports
<1>7. ASSUME NEW r \in responses, UnitExecutes(r) PROVE TypeOK'
  BY <1>7 DEF UnitExecutes
<1>8. CASE Lose
  BY <1>8 DEF Lose
<1>9. CASE UNCHANGED vars
  BY <1>9 DEF vars
<1> QED
  BY <1>1, <1>2, <1>3, <1>4, <1>5, <1>6, <1>7, <1>8, <1>9 DEF Next

LEMMA InitTypes == Init => TypeOK
<1> SUFFICES ASSUME Init PROVE TypeOK
  OBVIOUS
<1>1. <<0, 0>> \in (0..MaxSessions) \X Nat
  BY BoundsAssumption
<1>2. /\ 0 \in 0..MaxSessions /\ 0 \in 0..MaxUpdates /\ 0 \in 0..(MaxSeq + 1)
      /\ 0 \in 0..MaxSeq /\ 0 \in 0..MaxCommands /\ 0 \in 0..0
  BY BoundsAssumption
<1>3. unit \in [session : 0..MaxSessions, sent : 0..MaxUpdates, seq : 0..(MaxSeq + 1),
                decryptor : (0..MaxSessions) \X Nat, executed : (0..MaxSessions) \X Nat]
  BY <1>1, <1>2 DEF Init
<1> QED
  BY <1>1, <1>2, <1>3 DEF Init, TypeOK

\* Types of the session's state for any bounds.
THEOREM TypeCorrect == Spec => []TypeOK
  BY InitTypes, TypeStep, PTL DEF Spec

-----------------------------------------------------------------------------
(* The order of updates from an appliance that never restarts its numbers. *)

\* The appliance has sent ciphertext c under number n.
Sent(c, n) ==
  /\ c[1] \in 1..unit.session /\ c[2] >= 1
  /\ c[1] = unit.session => c[2] <= unit.sent
  /\ n < unit.seq
  /\ n = 0 => c[2] = 1

\* Numbers tell the order of two updates.
Agree(c, n, e, m) == Earlier(c, e) <=> n < m

UnitKnown ==
  /\ unit.session <= keys /\ \A s \in answers : s <= keys
  /\ unit.seq = 0 => unit.sent = 0

InFlight ==
  \A u \in updates : /\ Sent(u.cipher, u.seq)
                     /\ \A v \in updates : Agree(u.cipher, u.seq, v.cipher, v.seq)

\* An update under number zero decrypts only at the start of its session, when
\* nothing of the session has counted.
Counted ==
  accepted # <<0, 0>> =>
    /\ Sent(accepted, updates_seq_no)
    /\ \A u \in updates : /\ Agree(accepted, updates_seq_no, u.cipher, u.seq)
                          /\ Agree(u.cipher, u.seq, accepted, updates_seq_no)
    /\ decryptor[2] = 0 => accepted[1] < keys

OrderInv == TypeOK /\ world.resets = FALSE /\ UnitKnown /\ InFlight /\ Counted

\* What the invariant knows of the types.
LEMMA Numbers ==
  ASSUME TypeOK
  PROVE  /\ accepted \in Ciphertexts /\ accepted[1] \in Nat /\ accepted[2] \in Nat
         /\ updates_seq_no \in Nat /\ keys \in Nat /\ decryptor[2] \in Nat
         /\ unit.session \in Nat /\ unit.sent \in Nat /\ unit.seq \in Nat
         /\ \A u \in updates : /\ u.cipher \in Ciphertexts /\ u.seq \in Nat
                               /\ u.cipher[1] \in Nat /\ u.cipher[2] \in Nat
  BY BoundsAssumption DEF TypeOK, Ciphertexts

\* An update that counts was sent after the one that counted before.
LEMMA CountsLater ==
  ASSUME OrderInv, NEW u \in updates, Decrypts(keys, decryptor, u.cipher), IsUpdateValid(u.seq)
  PROVE  u.cipher = accepted \/ Earlier(accepted, u.cipher)
<1> USE DEF OrderInv
<1>1. /\ accepted \in Ciphertexts /\ u.cipher \in Ciphertexts
      /\ accepted[1] \in Nat /\ accepted[2] \in Nat /\ u.cipher[1] \in Nat /\ u.cipher[2] \in Nat
      /\ u.seq \in Nat /\ updates_seq_no \in Nat
  BY Numbers
<1>2. Sent(u.cipher, u.seq)
  BY DEF InFlight
<1>3. CASE accepted = <<0, 0>>
  BY <1>1, <1>2, <1>3 DEF Sent, Earlier
<1>4. CASE accepted # <<0, 0>> /\ u.seq = 0
  <2>1. decryptor[2] = 0
    BY <1>1, <1>2, <1>4 DEF Decrypts, Sent
  <2>2. accepted[1] < keys /\ keys = u.cipher[1]
    BY <1>4, <2>1 DEF Counted, Decrypts
  <2> QED
    BY <2>2 DEF Earlier
<1>5. CASE accepted # <<0, 0>> /\ u.seq # 0
  <2>1. ~(u.seq < updates_seq_no)
    BY <1>1, <1>5 DEF IsUpdateValid
  <2>2. /\ Earlier(accepted, u.cipher) <=> updates_seq_no < u.seq
        /\ Earlier(u.cipher, accepted) <=> u.seq < updates_seq_no
    BY <1>5 DEF Counted, Agree
  <2> QED
    BY <1>1, <2>1, <2>2, EarlierTotal
<1> QED
  BY <1>3, <1>4, <1>5

\* The handlers and the network keep the invariant.
LEMMA OrderStep == OrderInv /\ [Next]_vars => OrderInv'
<1> SUFFICES ASSUME OrderInv, [Next]_vars PROVE OrderInv'
  OBVIOUS
<1>1. TypeOK /\ TypeOK' /\ world.resets = FALSE /\ UnitKnown /\ InFlight /\ Counted
  BY TypeStep DEF OrderInv
<1>2. world' = world
  BY DEF Next, KeyExchange, KeyRefused, Command, Update, UnitKeys, UnitReports, UnitExecutes,
         Lose, vars, handlerVars
<1>3. CASE KeyExchange
  <2>1. /\ keys' = keys + 1 /\ decryptor' = <<keys', 0>> /\ answers' = answers \cup {keys'}
        /\ UNCHANGED <<updates_seq_no, accepted, unit, updates>>
    BY <1>3 DEF KeyExchange
  <2>2. UnitKnown'
    <3>1. \A s \in answers : s \in Nat
      BY <1>1, BoundsAssumption DEF TypeOK
    <3> QED
      BY <1>1, <2>1, <3>1, Numbers DEF UnitKnown
  <2>3. InFlight'
    BY <1>1, <2>1 DEF InFlight, Sent
  <2>4. Counted'
    BY <1>1, <2>1, Numbers DEF Counted, Sent, UnitKnown
  <2> QED
    BY <1>1, <1>2, <2>2, <2>3, <2>4 DEF OrderInv
<1>4. CASE KeyRefused \/ Command \/ UNCHANGED vars
  <2>1. /\ answers' = answers
        /\ UNCHANGED <<keys, decryptor, updates_seq_no, accepted, updates>>
        /\ unit' = unit
    BY <1>4 DEF KeyRefused, Command, vars, handlerVars
  <2> QED
    BY <1>1, <1>2, <2>1 DEF OrderInv, UnitKnown, InFlight, Counted, Sent
<1>5. ASSUME NEW u \in updates, Update(u) PROVE OrderInv'
  <2>1. /\ decryptor' = u.cipher /\ updates' \subseteq updates
        /\ UNCHANGED <<keys, unit, answers>>
        /\ \/ UNCHANGED <<updates_seq_no, accepted>>
           \/ updates_seq_no' = u.seq /\ accepted' = u.cipher
    BY <1>5 DEF Update
  <2>2. UnitKnown' /\ InFlight'
    BY <1>1, <2>1 DEF UnitKnown, InFlight, Sent
  <2>3. decryptor'[2] # 0
    BY <1>1, <2>1, Numbers DEF InFlight, Sent
  <2>4. Counted'
    <3>1. CASE UNCHANGED <<updates_seq_no, accepted>>
      BY <1>1, <2>1, <2>3, <3>1 DEF Counted, Sent
    <3>2. CASE updates_seq_no' = u.seq /\ accepted' = u.cipher
      BY <1>1, <2>1, <2>3, <3>2 DEF InFlight, Counted, Sent
    <3> QED
      BY <2>1, <3>1, <3>2
  <2> QED
    BY <1>1, <1>2, <2>2, <2>4 DEF OrderInv
<1>6. ASSUME NEW s \in answers, UnitKeys(s) PROVE OrderInv'
  <2>1. /\ s > unit.session /\ answers' \subseteq answers
        /\ unit' = [unit EXCEPT !.session = s, !.sent = 0, !.decryptor = <<s, 0>>]
        /\ UNCHANGED <<keys, decryptor, updates_seq_no, accepted, updates>>
    BY <1>6 DEF UnitKeys, handlerVars
  <2>2. unit'.session = s /\ unit'.sent = 0 /\ unit'.seq = unit.seq /\ s \in Nat
    BY <1>1, <2>1, BoundsAssumption DEF TypeOK
  <2>3. UnitKnown'
    BY <1>1, <2>1, <2>2 DEF UnitKnown
  <2>4. ASSUME NEW c \in Ciphertexts, NEW n, Sent(c, n) PROVE Sent(c, n)'
    BY <1>1, <2>1, <2>2, <2>4, Numbers DEF Sent
  <2>5. InFlight'
    BY <1>1, <2>1, <2>4, Numbers DEF InFlight
  <2>6. Counted'
    BY <1>1, <2>1, <2>4, Numbers DEF Counted
  <2> QED
    BY <1>1, <1>2, <2>3, <2>5, <2>6 DEF OrderInv
<1>7. ASSUME NEW seq \in {0, unit.seq}, seq <= MaxSeq, UnitReports(seq) PROVE OrderInv'
  <2>1. seq = unit.seq
    BY <1>1, <1>7 DEF UnitReports
  <2>2. unit' = [unit EXCEPT !.sent = unit.sent + 1, !.seq = unit.seq + 1]
    BY <1>7, <2>1 DEF UnitReports
  <2>3. /\ unit'.session = unit.session /\ unit'.sent = unit.sent + 1
        /\ unit'.seq = unit.seq + 1 /\ unit.session > 0
    BY <1>1, <1>7, <2>2 DEF TypeOK, UnitReports
  <2>4. PICK new : /\ new.cipher = <<unit.session, unit.sent + 1>> /\ new.seq = unit.seq
                   /\ updates' = updates \cup {new}
    <3>1. updates' = updates \cup {[cipher |-> <<unit.session, unit.sent + 1>>, seq |-> unit.seq]}
      BY <1>7, <2>1, <2>3 DEF UnitReports
    <3> QED
      BY <3>1
  <2>5. answers' = answers /\ UNCHANGED <<keys, decryptor, updates_seq_no, accepted>>
    BY <1>7 DEF UnitReports, handlerVars
  <2>6. UnitKnown'
    BY <1>1, <2>3, <2>5, Numbers DEF UnitKnown
  <2>7. ASSUME NEW c \in Ciphertexts, NEW n \in Nat, Sent(c, n)
        PROVE  /\ Sent(c, n)'
               /\ Agree(c, n, new.cipher, new.seq) /\ Agree(new.cipher, new.seq, c, n)
    <3>1. c[1] \in Nat /\ c[2] \in Nat
      BY Pair
    <3>2. Sent(c, n)'
      BY <1>1, <2>3, <2>7, <3>1, Numbers DEF Sent
    <3>3. Agree(c, n, new.cipher, new.seq) /\ Agree(new.cipher, new.seq, c, n)
      BY <1>1, <2>4, <2>7, <3>1, Numbers DEF Sent, Agree, Earlier
    <3> QED
      BY <3>2, <3>3
  <2>8. Sent(new.cipher, new.seq)'
    <3>1. new.cipher[1] = unit.session /\ new.cipher[2] = unit.sent + 1 /\ new.seq = unit.seq
      BY <2>4
    <3>2. unit.session \in Nat /\ unit.sent \in Nat /\ unit.seq \in Nat
      BY <1>1, Numbers
    <3>3. unit.seq = 0 => unit.sent = 0
      BY <1>1 DEF UnitKnown
    <3> QED
      BY <2>3, <3>1, <3>2, <3>3 DEF Sent
  <2>9. Agree(new.cipher, new.seq, new.cipher, new.seq)
    BY <1>1, <2>4, Numbers DEF Agree, Earlier
  <2>10. InFlight'
    <3>1. ASSUME NEW u \in updates
          PROVE  /\ Sent(u.cipher, u.seq)'
                 /\ Agree(u.cipher, u.seq, new.cipher, new.seq)
                 /\ Agree(new.cipher, new.seq, u.cipher, u.seq)
      <4>1. u.cipher \in Ciphertexts /\ u.seq \in Nat /\ Sent(u.cipher, u.seq)
        BY <1>1, Numbers DEF InFlight
      <4> QED
        BY <2>7, <4>1
    <3>2. \A u \in updates' : u \in updates \/ u = new
      BY <2>4
    <3>3. \A u \in updates, v \in updates : Agree(u.cipher, u.seq, v.cipher, v.seq)
      BY <1>1 DEF InFlight
    <3>4. \A u \in updates' : Sent(u.cipher, u.seq)'
      BY <2>8, <3>1, <3>2
    <3>5. \A u \in updates', v \in updates' : Agree(u.cipher, u.seq, v.cipher, v.seq)
      BY <2>9, <3>1, <3>2, <3>3
    <3> QED
      BY <3>4, <3>5 DEF InFlight, Agree, Earlier
  <2>11. Counted'
    <3> SUFFICES ASSUME accepted # <<0, 0>> PROVE Counted'
      BY <2>5 DEF Counted
    <3>1. PICK a, m : a = accepted /\ m = updates_seq_no
      OBVIOUS
    <3>2. a \in Ciphertexts /\ m \in Nat /\ Sent(a, m)
      BY <1>1, <3>1, Numbers DEF Counted
    <3>3. Sent(a, m)' /\ Agree(a, m, new.cipher, new.seq) /\ Agree(new.cipher, new.seq, a, m)
      BY <2>7, <3>2
    <3>4. accepted' = a /\ updates_seq_no' = m
      BY <2>5, <3>1
    <3>5. \A u \in updates : Agree(a, m, u.cipher, u.seq) /\ Agree(u.cipher, u.seq, a, m)
      BY <1>1, <3>1 DEF Counted
    <3>6. \A u \in updates' : Agree(a, m, u.cipher, u.seq) /\ Agree(u.cipher, u.seq, a, m)
      BY <2>4, <3>3, <3>5
    <3>7. decryptor'[2] = 0 => a[1] < keys'
      BY <1>1, <2>5, <3>1 DEF Counted
    <3> QED
      BY <3>3, <3>4, <3>6, <3>7 DEF Counted, Sent, Agree, Earlier
  <2> QED
    BY <1>1, <1>2, <2>6, <2>10, <2>11 DEF OrderInv
<1>8. ASSUME NEW r \in responses, UnitExecutes(r) PROVE OrderInv'
  <2>1. /\ unit'.session = unit.session /\ unit'.sent = unit.sent /\ unit'.seq = unit.seq
        /\ UNCHANGED <<keys, decryptor, updates_seq_no, accepted, updates, answers>>
    BY <1>1, <1>8 DEF UnitExecutes, handlerVars, TypeOK
  <2> QED
    BY <1>1, <1>2, <2>1 DEF OrderInv, UnitKnown, InFlight, Counted, Sent
<1>9. CASE Lose
  <2>1. /\ updates' \subseteq updates /\ answers' \subseteq answers
        /\ UNCHANGED <<keys, decryptor, updates_seq_no, accepted, unit>>
    BY <1>9 DEF Lose, handlerVars
  <2> QED
    BY <1>1, <1>2, <2>1 DEF OrderInv, UnitKnown, InFlight, Counted, Sent
<1> QED
  BY <1>3, <1>4, <1>5, <1>6, <1>7, <1>8, <1>9 DEF Next

\* An appliance that never restarts its numbers is never taken back: no update
\* counts from another session or after one sent later, whatever the network
\* loses, repeats and reorders and however many updates are under way.
THEOREM NumbersKeepOrder == Spec /\ world.resets = FALSE => AcceptedInOrder
<1>1. Init /\ world.resets = FALSE => OrderInv
  <2> SUFFICES ASSUME Init, world.resets = FALSE PROVE OrderInv
    OBVIOUS
  <2>1. TypeOK
    BY InitTypes
  <2>2. UnitKnown /\ InFlight /\ Counted
    BY DEF Init, UnitKnown, InFlight, Counted
  <2> QED
    BY <2>1, <2>2 DEF OrderInv
<1>2. OrderInv /\ [Next]_vars =>
        [accepted' # accepted => accepted'[1] = keys /\ Earlier(accepted, accepted')]_vars
  <2> SUFFICES ASSUME OrderInv, [Next]_vars, accepted' # accepted
               PROVE  accepted'[1] = keys /\ Earlier(accepted, accepted')
    OBVIOUS
  <2>1. PICK u \in updates : Update(u)
    BY DEF Next, KeyExchange, KeyRefused, Command, UnitKeys, UnitReports, UnitExecutes, Lose,
           vars, handlerVars
  <2>2. Decrypts(keys, decryptor, u.cipher) /\ IsUpdateValid(u.seq) /\ accepted' = u.cipher
    BY <2>1 DEF Update
  <2> QED
    BY <2>2, CountsLater DEF Decrypts
<1> QED
  BY <1>1, <1>2, OrderStep, PTL DEF Spec, AcceptedInOrder

-----------------------------------------------------------------------------
(* One stream of chained messages, of which two at most are under way.     *)

\* Ciphertext c is one of the first n of its stream's session, or older.
Produced(c, session, n) == c[1] <= session /\ (c[1] = session => c[2] <= n)

\* Whatever the holder of session's keys consumes next, of the ciphertexts C under
\* way or after one of them, decrypts only if it is later than the last one done.
InStep(session, last, done, C) ==
  \A c \in C : \A d \in C \cup {last} : Decrypts(session, d, c) => Earlier(done, c)

AtMostOne(S) == \A a, b \in S : a = b
AtMostTwo(S) == IsFiniteSet(S) /\ \A a, b, c \in S : a = b \/ a = c \/ b = c

\* What a guard on the messages under way leaves, and what it lets in.
LEMMA RoomForOne ==
  ASSUME NEW S, IsFiniteSet(S), Cardinality(S) < Window, Window <= 2, NEW x
  PROVE  AtMostTwo(S \cup {x})
<1>1. Cardinality(S) = 0 \/ Cardinality(S) = 1
  BY FS_CardinalityType, BoundsAssumption
<1>2. AtMostOne(S)
  <2>1. CASE Cardinality(S) = 0
    BY <2>1, FS_EmptySet DEF AtMostOne
  <2>2. CASE Cardinality(S) = 1
    <3>1. PICK y : S = {y}
      BY <2>2, FS_Singleton
    <3> QED
      BY <3>1 DEF AtMostOne
  <2> QED
    BY <1>1, <2>1, <2>2
<1>3. IsFiniteSet(S \cup {x})
  BY FS_AddElement
<1> QED
  BY <1>2, <1>3 DEF AtMostOne, AtMostTwo

LEMMA FewerUnderWay ==
  ASSUME NEW S, NEW T, T \subseteq S, AtMostTwo(S)
  PROVE  AtMostTwo(T) /\ \A x \in S \ T : AtMostOne(T)
<1>1. IsFiniteSet(T)
  BY FS_Subset DEF AtMostTwo
<1> QED
  BY <1>1 DEF AtMostTwo, AtMostOne

\* A ciphertext is consumed, with one other under way: the stream stays in step,
\* whether it decrypted or not.
LEMMA Consume ==
  ASSUME NEW C, C \subseteq Ciphertexts, NEW session, NEW last, NEW done,
         InStep(session, last, done, C),
         NEW c \in C, NEW D, D \subseteq C, AtMostOne(D)
  PROVE  InStep(session, c, done, D) /\ InStep(session, c, c, D)
<1> SUFFICES ASSUME NEW e \in D, NEW d \in D \cup {c}, Decrypts(session, d, e)
             PROVE  Earlier(done, e) /\ Earlier(c, e)
  BY DEF InStep
<1>1. e[2] \in Nat /\ e = <<e[1], e[2]>> /\ c[2] \in Nat
  BY Pair
<1>2. d # e
  BY <1>1 DEF Decrypts
<1>3. d = c
  BY <1>2 DEF AtMostOne
<1>4. Earlier(done, e)
  BY <1>3 DEF InStep
<1>5. Earlier(c, e)
  BY <1>1, <1>3 DEF Decrypts, Earlier
<1> QED
  BY <1>4, <1>5

\* The next ciphertext of a stream joins those under way.
LEMMA Produce ==
  ASSUME NEW C, C \subseteq Ciphertexts, NEW s \in Nat, NEW n \in Nat,
         NEW session, NEW last, NEW done \in Ciphertexts, InStep(session, last, done, C),
         Produced(done, s, n), \A c \in C : Produced(c, s, n)
  PROVE  InStep(session, last, done, C \cup {<<s, n + 1>>})
<1> DEFINE new == <<s, n + 1>>
<1>1. new[1] = s /\ new[2] = n + 1 /\ done[1] \in Nat /\ done[2] \in Nat
  BY Pair, BoundsAssumption
<1>2. Earlier(done, new)
  BY <1>1 DEF Produced, Earlier
<1>3. ASSUME NEW c \in C, Decrypts(session, new, c) PROVE FALSE
  <2>1. c[1] = s /\ n + 1 = c[2] - 1 /\ c[2] \in Nat
    BY <1>1, <1>3, Pair DEF Decrypts
  <2> QED
    BY <2>1 DEF Produced
<1> HIDE DEF new
<1>4. ASSUME NEW c \in C \cup {new}, NEW d \in C \cup {new} \cup {last}, Decrypts(session, d, c)
      PROVE  Earlier(done, c)
  <2>1. CASE c = new
    BY <1>2, <2>1
  <2>2. CASE c \in C
    <3>1. d # new
      BY <1>3, <1>4, <2>2
    <3> QED
      BY <1>4, <2>2, <3>1 DEF InStep
  <2> QED
    BY <2>1, <2>2
<1>5. InStep(session, last, done, C \cup {new})
  BY <1>4 DEF InStep
<1> QED
  BY <1>5 DEF new

\* A new session: nothing of it is done.
LEMMA NewSession ==
  ASSUME NEW C, C \subseteq Ciphertexts, NEW session \in Nat, NEW last,
         NEW done \in Ciphertexts, done[1] < session
  PROVE  InStep(session, last, done, C)
  BY Pair DEF InStep, Decrypts, Earlier

\* Messages that get lost.
LEMMA FewerInStep ==
  ASSUME NEW C, NEW D, D \subseteq C, NEW session, NEW last, NEW done,
         InStep(session, last, done, C)
  PROVE  InStep(session, last, done, D)
  BY DEF InStep

-----------------------------------------------------------------------------
(* The commands the appliance executes.                                    *)

SessionsKnown == unit.session <= keys /\ \A s \in answers : s <= keys

ResponsesInStep ==
  /\ AtMostTwo(responses)
  /\ \A r \in responses : Produced(r, keys, encrypted)
  /\ Produced(unit.executed, keys, encrypted) /\ unit.executed[1] <= unit.session
  /\ InStep(unit.session, unit.decryptor, unit.executed, responses)

CommandInv == TypeOK /\ SessionsKnown /\ ResponsesInStep

LEMMA UnitTypes ==
  ASSUME TypeOK
  PROVE  /\ unit.executed \in Ciphertexts /\ unit.decryptor \in Ciphertexts
         /\ responses \subseteq Ciphertexts
         /\ keys \in Nat /\ encrypted \in Nat /\ unit.session \in Nat
         /\ \A s \in answers : s \in Nat
  BY BoundsAssumption DEF TypeOK, Ciphertexts

\* Ciphertexts of an older session stay produced when a new one begins.
LEMMA StaysProduced ==
  ASSUME NEW c \in Ciphertexts, NEW s \in Nat, NEW n \in Nat, NEW t \in Nat, NEW m \in Nat,
         Produced(c, s, n), s < t \/ (s = t /\ n <= m)
  PROVE  Produced(c, t, m)
  BY Pair DEF Produced

LEMMA SessionsStep == TypeOK /\ SessionsKnown /\ [Next]_vars => SessionsKnown'
<1> SUFFICES ASSUME TypeOK, SessionsKnown, [Next]_vars PROVE SessionsKnown'
  OBVIOUS
<1> USE DEF SessionsKnown, handlerVars
<1>1. CASE KeyExchange
  BY <1>1, UnitTypes DEF KeyExchange
<1>2. CASE KeyRefused \/ Command \/ UNCHANGED vars
  BY <1>2 DEF KeyRefused, Command, vars
<1>3. ASSUME NEW u \in updates, Update(u) PROVE SessionsKnown'
  BY <1>3 DEF Update
<1>4. ASSUME NEW s \in answers, UnitKeys(s) PROVE SessionsKnown'
  <2>1. unit'.session = s
    BY <1>4 DEF UnitKeys, TypeOK
  <2> QED
    BY <1>4, <2>1 DEF UnitKeys
<1>5. ASSUME NEW seq \in {0, unit.seq}, UnitReports(seq) PROVE SessionsKnown'
  <2>1. unit'.session = unit.session
    BY <1>5 DEF UnitReports, TypeOK
  <2> QED
    BY <1>5, <2>1 DEF UnitReports
<1>6. ASSUME NEW r \in responses, UnitExecutes(r) PROVE SessionsKnown'
  <2>1. unit'.session = unit.session
    BY <1>6 DEF UnitExecutes, TypeOK
  <2> QED
    BY <1>6, <2>1 DEF UnitExecutes
<1>7. CASE Lose
  BY <1>7 DEF Lose
<1> QED
  BY <1>1, <1>2, <1>3, <1>4, <1>5, <1>6, <1>7 DEF Next

LEMMA CommandStep ==
  ASSUME Window <= 2, CommandInv, [Next]_vars
  PROVE  CommandInv'
<1>1. TypeOK /\ TypeOK' /\ SessionsKnown /\ SessionsKnown' /\ ResponsesInStep
  BY TypeStep, SessionsStep DEF CommandInv
<1>2. /\ unit.executed \in Ciphertexts /\ unit.decryptor \in Ciphertexts
      /\ responses \subseteq Ciphertexts
      /\ keys \in Nat /\ encrypted \in Nat /\ unit.session \in Nat
      /\ \A s \in answers : s \in Nat
  BY <1>1, UnitTypes
<1> SUFFICES ResponsesInStep'
  BY <1>1 DEF CommandInv
<1>3. CASE KeyExchange
  <2>1. keys' = keys + 1 /\ encrypted' = 0 /\ unit' = unit /\ responses' = responses
    BY <1>3 DEF KeyExchange
  <2>2. ASSUME NEW c \in Ciphertexts, Produced(c, keys, encrypted)
        PROVE  Produced(c, keys', encrypted')
    BY <1>2, <2>1, <2>2, StaysProduced
  <2> QED
    BY <1>1, <1>2, <2>1, <2>2 DEF ResponsesInStep
<1>4. CASE KeyRefused \/ UNCHANGED vars
  BY <1>1, <1>4 DEF KeyRefused, ResponsesInStep, vars, handlerVars
<1>5. CASE Command
  <2>1. /\ keys' = keys /\ encrypted' = encrypted + 1 /\ unit' = unit
        /\ responses' = responses \cup {<<keys, encrypted + 1>>}
        /\ Cardinality(responses) < Window
    BY <1>5 DEF Command
  <2>2. AtMostTwo(responses')
    <3>1. IsFiniteSet(responses)
      BY <1>1 DEF ResponsesInStep, AtMostTwo
    <3> QED
      BY <2>1, <3>1, RoomForOne
  <2>3. ASSUME NEW c \in Ciphertexts, Produced(c, keys, encrypted)
        PROVE  Produced(c, keys', encrypted')
    BY <1>2, <2>1, <2>3, StaysProduced
  <2>4. \A r \in responses' : Produced(r, keys', encrypted')
    <3>1. Produced(<<keys, encrypted + 1>>, keys', encrypted')
      BY <1>2, <2>1 DEF Produced
    <3> QED
      BY <1>1, <1>2, <2>1, <2>3, <3>1 DEF ResponsesInStep
  <2>5. InStep(unit.session, unit.decryptor, unit.executed, responses')
    BY <1>1, <1>2, <2>1, Produce DEF ResponsesInStep
  <2> QED
    BY <1>1, <1>2, <2>1, <2>2, <2>3, <2>4, <2>5 DEF ResponsesInStep
<1>6. ASSUME NEW u \in updates, Update(u) PROVE ResponsesInStep'
  BY <1>1, <1>6 DEF Update, ResponsesInStep
<1>7. ASSUME NEW s \in answers, UnitKeys(s) PROVE ResponsesInStep'
  <2>1. /\ s > unit.session /\ keys' = keys /\ encrypted' = encrypted /\ responses' = responses
        /\ unit'.session = s /\ unit'.decryptor = <<s, 0>> /\ unit'.executed = unit.executed
    BY <1>1, <1>7 DEF UnitKeys, handlerVars, TypeOK
  <2>2. s \in Nat /\ unit.executed[1] \in Nat /\ unit.executed[1] < s
    BY <1>1, <1>2, <2>1, Pair DEF ResponsesInStep
  <2>3. InStep(s, <<s, 0>>, unit.executed, responses)
    BY <1>2, <2>2, NewSession
  <2>4. unit'.executed[1] <= unit'.session
    BY <2>1, <2>2
  <2> QED
    BY <1>1, <2>1, <2>3, <2>4 DEF ResponsesInStep
<1>8. ASSUME NEW seq \in {0, unit.seq}, UnitReports(seq) PROVE ResponsesInStep'
  <2>1. /\ keys' = keys /\ encrypted' = encrypted /\ responses' = responses
        /\ unit'.session = unit.session /\ unit'.decryptor = unit.decryptor
        /\ unit'.executed = unit.executed
    BY <1>1, <1>8 DEF UnitReports, handlerVars, TypeOK
  <2> QED
    BY <1>1, <2>1 DEF ResponsesInStep
<1>9. ASSUME NEW r \in responses, UnitExecutes(r) PROVE ResponsesInStep'
  <2>1. /\ keys' = keys /\ encrypted' = encrypted /\ responses' = responses \ {r}
        /\ unit'.session = unit.session /\ unit'.decryptor = r
        /\ unit'.executed = IF Decrypts(unit.session, unit.decryptor, r) THEN r ELSE unit.executed
    BY <1>1, <1>9 DEF UnitExecutes, handlerVars, TypeOK
  <2>2. AtMostTwo(responses') /\ AtMostOne(responses')
    BY <1>1, <2>1, FewerUnderWay DEF ResponsesInStep
  <2>3. /\ InStep(unit.session, r, unit.executed, responses')
        /\ InStep(unit.session, r, r, responses')
    BY <1>1, <1>2, <2>1, <2>2, Consume DEF ResponsesInStep
  <2>4. Decrypts(unit.session, unit.decryptor, r) => r[1] <= unit.session
    BY <1>2 DEF Decrypts
  <2> QED
    BY <1>1, <2>1, <2>2, <2>3, <2>4 DEF ResponsesInStep
<1>10. CASE Lose
  <2>1. /\ keys' = keys /\ encrypted' = encrypted /\ responses' \subseteq responses
        /\ unit' = unit
    BY <1>10 DEF Lose, handlerVars
  <2>2. AtMostTwo(responses')
    BY <1>1, <2>1, FewerUnderWay DEF ResponsesInStep
  <2>3. InStep(unit.session, unit.decryptor, unit.executed, responses')
    BY <1>1, <2>1, FewerInStep DEF ResponsesInStep
  <2> QED
    BY <1>1, <2>1, <2>2, <2>3 DEF ResponsesInStep
<1> QED
  BY <1>3, <1>4, <1>5, <1>6, <1>7, <1>8, <1>9, <1>10 DEF Next

\* No appliance that leaves at most two responses under way executes a command
\* twice, or one after a later one, in any number of sessions and whatever the
\* network loses and reorders: the chained encryptor of config.py orders them.
THEOREM CommandsInOrder ==
  ASSUME Window <= 2
  PROVE  Spec => ExecutedInOrder
<1>1. Init => CommandInv
  <2> SUFFICES ASSUME Init PROVE CommandInv
    OBVIOUS
  <2>1. TypeOK
    BY InitTypes
  <2>2. SessionsKnown
    BY DEF Init, SessionsKnown
  <2>3. AtMostTwo(responses)
    BY FS_EmptySet DEF Init, AtMostTwo
  <2>4. Produced(unit.executed, keys, encrypted) /\ unit.executed[1] <= unit.session
    BY DEF Init, Produced
  <2> QED
    BY <2>1, <2>2, <2>3, <2>4 DEF Init, CommandInv, ResponsesInStep, InStep
<1>2. CommandInv /\ [Next]_vars => CommandInv'
  BY CommandStep
<1>3. CommandInv /\ [Next]_vars =>
        [unit'.executed # unit.executed => Earlier(unit.executed, unit'.executed)]_vars
  <2> SUFFICES ASSUME CommandInv, [Next]_vars, unit'.executed # unit.executed
               PROVE  Earlier(unit.executed, unit'.executed)
    OBVIOUS
  <2>1. PICK r \in responses : UnitExecutes(r)
    BY DEF CommandInv, TypeOK, Next, KeyExchange, KeyRefused, Command, Update, UnitKeys,
           UnitReports, Lose, vars, handlerVars
  <2>2. Decrypts(unit.session, unit.decryptor, r) /\ unit'.executed = r
    BY <2>1 DEF UnitExecutes, CommandInv, TypeOK
  <2> QED
    BY <2>2 DEF CommandInv, ResponsesInStep, InStep
<1> QED
  BY <1>1, <1>2, <1>3, PTL DEF Spec, ExecutedInOrder

-----------------------------------------------------------------------------
(* The updates that count, where the network repeats none.                 *)

Reports == {u.cipher : u \in updates}

UpdatesInStep ==
  /\ AtMostTwo(updates)
  /\ \A c \in Reports : Produced(c, unit.session, unit.sent)
  /\ Produced(accepted, unit.session, unit.sent)
  /\ InStep(keys, decryptor, accepted, Reports)

UpdateInv == TypeOK /\ SessionsKnown /\ world.repeats = FALSE /\ UpdatesInStep

LEMMA HandlerTypes ==
  ASSUME TypeOK
  PROVE  /\ accepted \in Ciphertexts /\ decryptor \in Ciphertexts
         /\ Reports \subseteq Ciphertexts
         /\ keys \in Nat /\ unit.session \in Nat /\ unit.sent \in Nat
         /\ \A s \in answers : s \in Nat
  BY BoundsAssumption DEF TypeOK, Ciphertexts, Reports

LEMMA UpdateStep ==
  ASSUME Window <= 2, UpdateInv, [Next]_vars
  PROVE  UpdateInv'
<1>1. /\ TypeOK /\ TypeOK' /\ SessionsKnown /\ SessionsKnown' /\ UpdatesInStep
      /\ world.repeats = FALSE
  BY TypeStep, SessionsStep DEF UpdateInv
<1>2. /\ accepted \in Ciphertexts /\ decryptor \in Ciphertexts
      /\ Reports \subseteq Ciphertexts
      /\ keys \in Nat /\ unit.session \in Nat /\ unit.sent \in Nat
      /\ \A s \in answers : s \in Nat
  BY <1>1, HandlerTypes
<1>3. world' = world
  BY DEF Next, KeyExchange, KeyRefused, Command, Update, UnitKeys, UnitReports, UnitExecutes,
         Lose, vars, handlerVars
<1> SUFFICES UpdatesInStep'
  BY <1>1, <1>3 DEF UpdateInv
<1>4. CASE KeyExchange
  <2>1. /\ keys' = keys + 1 /\ decryptor' = <<keys + 1, 0>> /\ accepted' = accepted
        /\ unit' = unit /\ updates' = updates /\ Reports' = Reports
    BY <1>4 DEF KeyExchange, Reports
  <2>2. \A c \in Reports : c[1] < keys + 1
    BY <1>1, <1>2, Pair DEF UpdatesInStep, Produced, SessionsKnown
  <2>3. InStep(keys + 1, <<keys + 1, 0>>, accepted, Reports)
    BY <1>2, <2>2, Pair DEF InStep, Decrypts
  <2> QED
    BY <1>1, <2>1, <2>3 DEF UpdatesInStep
<1>5. CASE KeyRefused \/ Command \/ UNCHANGED vars
  <2>1. UNCHANGED <<keys, decryptor, accepted, unit, updates>>
    BY <1>5 DEF KeyRefused, Command, vars, handlerVars
  <2> QED
    BY <1>1, <2>1 DEF UpdatesInStep, Reports
<1>6. ASSUME NEW u \in updates, Update(u) PROVE UpdatesInStep'
  <2>1. /\ keys' = keys /\ unit' = unit /\ decryptor' = u.cipher
        /\ updates' = updates \ {u}
        /\ accepted' = accepted \/ accepted' = u.cipher
    BY <1>1, <1>6 DEF Update
  <2>2. AtMostTwo(updates') /\ AtMostOne(updates')
    BY <1>1, <2>1, FewerUnderWay DEF UpdatesInStep
  <2>3. u.cipher \in Reports /\ Reports' \subseteq Reports /\ AtMostOne(Reports')
    BY <2>1, <2>2 DEF Reports, AtMostOne
  <2>4. /\ InStep(keys, u.cipher, accepted, Reports')
        /\ InStep(keys, u.cipher, u.cipher, Reports')
    BY <1>1, <1>2, <2>3, Consume DEF UpdatesInStep
  <2>5. Produced(accepted', unit.session, unit.sent)
    BY <1>1, <2>1, <2>3 DEF UpdatesInStep
  <2> QED
    BY <1>1, <2>1, <2>2, <2>3, <2>4, <2>5 DEF UpdatesInStep
<1>7. ASSUME NEW s \in answers, UnitKeys(s) PROVE UpdatesInStep'
  <2>1. /\ s > unit.session /\ keys' = keys /\ decryptor' = decryptor /\ accepted' = accepted
        /\ updates' = updates /\ unit'.session = s /\ unit'.sent = 0
    BY <1>1, <1>7 DEF UnitKeys, handlerVars, TypeOK
  <2>2. ASSUME NEW c \in Ciphertexts, Produced(c, unit.session, unit.sent)
        PROVE  Produced(c, s, 0)
    BY <1>2, <2>1, <2>2, StaysProduced
  <2>3. Reports' = Reports
    BY <2>1 DEF Reports
  <2> QED
    BY <1>1, <1>2, <2>1, <2>2, <2>3 DEF UpdatesInStep
<1>8. ASSUME NEW seq \in {0, unit.seq}, UnitReports(seq) PROVE UpdatesInStep'
  <2>1. /\ keys' = keys /\ decryptor' = decryptor /\ accepted' = accepted
        /\ unit'.session = unit.session /\ unit'.sent = unit.sent + 1
        /\ Cardinality(updates) < Window
    BY <1>1, <1>8 DEF UnitReports, handlerVars, TypeOK
  <2>2. PICK new : new.cipher = <<unit.session, unit.sent + 1>> /\ updates' = updates \cup {new}
    <3>1. updates' = updates \cup {[cipher |-> <<unit.session, unit.sent + 1>>, seq |-> seq]}
      BY <1>8, <2>1 DEF UnitReports
    <3> QED
      BY <3>1
  <2>3. AtMostTwo(updates')
    <3>1. IsFiniteSet(updates)
      BY <1>1 DEF UpdatesInStep, AtMostTwo
    <3> QED
      BY <2>1, <2>2, <3>1, RoomForOne
  <2>4. Reports' = Reports \cup {<<unit.session, unit.sent + 1>>}
    BY <2>2 DEF Reports
  <2>5. ASSUME NEW c \in Ciphertexts, Produced(c, unit.session, unit.sent)
        PROVE  Produced(c, unit.session, unit.sent + 1)
    BY <1>2, <2>5, StaysProduced
  <2>6. \A c \in Reports' : Produced(c, unit.session, unit.sent + 1)
    <3>1. Produced(<<unit.session, unit.sent + 1>>, unit.session, unit.sent + 1)
      BY <1>2 DEF Produced
    <3> QED
      BY <1>1, <1>2, <2>4, <2>5, <3>1 DEF UpdatesInStep
  <2>7. InStep(keys, decryptor, accepted, Reports')
    BY <1>1, <1>2, <2>4, Produce DEF UpdatesInStep
  <2> QED
    BY <1>1, <1>2, <2>1, <2>3, <2>5, <2>6, <2>7 DEF UpdatesInStep
<1>9. ASSUME NEW r \in responses, UnitExecutes(r) PROVE UpdatesInStep'
  <2>1. /\ UNCHANGED <<keys, decryptor, accepted, updates>> /\ Reports' = Reports
        /\ unit'.session = unit.session /\ unit'.sent = unit.sent
    BY <1>1, <1>9 DEF UnitExecutes, handlerVars, TypeOK, Reports
  <2> QED
    BY <1>1, <2>1 DEF UpdatesInStep
<1>10. CASE Lose
  <2>1. UNCHANGED <<keys, decryptor, accepted, unit>> /\ updates' \subseteq updates
    BY <1>10 DEF Lose, handlerVars
  <2>2. Reports' \subseteq Reports
    BY <2>1 DEF Reports
  <2>3. AtMostTwo(updates')
    BY <1>1, <2>1, FewerUnderWay DEF UpdatesInStep
  <2>4. InStep(keys, decryptor, accepted, Reports')
    BY <1>1, <2>2, FewerInStep DEF UpdatesInStep
  <2> QED
    BY <1>1, <2>1, <2>2, <2>3, <2>4 DEF UpdatesInStep
<1> QED
  BY <1>4, <1>5, <1>6, <1>7, <1>8, <1>9, <1>10 DEF Next

\* Where the network repeats nothing, the chained decryptor keeps updates in order
\* also when the appliance restarts its numbers, as long as it leaves at most two
\* under way.
THEOREM ChainKeepsOrder ==
  ASSUME Window <= 2
  PROVE  Spec /\ world.repeats = FALSE => AcceptedInOrder
<1>1. Init /\ world.repeats = FALSE => UpdateInv
  <2> SUFFICES ASSUME Init, world.repeats = FALSE PROVE UpdateInv
    OBVIOUS
  <2>1. TypeOK
    BY InitTypes
  <2>2. SessionsKnown
    BY DEF Init, SessionsKnown
  <2>3. AtMostTwo(updates) /\ Reports = {}
    BY FS_EmptySet DEF Init, AtMostTwo, Reports
  <2>4. Produced(accepted, unit.session, unit.sent)
    BY DEF Init, Produced
  <2> QED
    BY <2>1, <2>2, <2>3, <2>4 DEF UpdateInv, UpdatesInStep, InStep
<1>2. UpdateInv /\ [Next]_vars => UpdateInv'
  BY UpdateStep
<1>3. UpdateInv /\ [Next]_vars =>
        [accepted' # accepted => accepted'[1] = keys /\ Earlier(accepted, accepted')]_vars
  <2> SUFFICES ASSUME UpdateInv, [Next]_vars, accepted' # accepted
               PROVE  accepted'[1] = keys /\ Earlier(accepted, accepted')
    OBVIOUS
  <2>1. PICK u \in updates : Update(u)
    BY DEF Next, KeyExchange, KeyRefused, Command, UnitKeys, UnitReports, UnitExecutes, Lose,
           vars, handlerVars
  <2>2. Decrypts(keys, decryptor, u.cipher) /\ accepted' = u.cipher
    BY <2>1 DEF Update
  <2>3. u.cipher \in Reports
    BY DEF Reports
  <2> QED
    BY <2>2, <2>3 DEF UpdateInv, UpdatesInStep, InStep, Decrypts
<1> QED
  BY <1>1, <1>2, <1>3, PTL DEF Spec, AcceptedInOrder

\* No update counts from another session or after one sent later, for any
\* appliance that leaves at most two under way and any network, unless the
\* appliance restarts its numbers and the network repeats as well.
THEOREM UpdatesInOrder ==
  ASSUME Window <= 2, \A w \in Worlds : w.resets = FALSE \/ w.repeats = FALSE
  PROVE  Spec => AcceptedInOrder
<1>1. Init => world.resets = FALSE \/ world.repeats = FALSE
  BY DEF Init
<1> QED
  BY <1>1, NumbersKeepOrder, ChainKeepsOrder, PTL DEF Spec

-----------------------------------------------------------------------------
\* Only an appliance that restarts its numbers can have an update dropped as stale
\* that its session authenticates and that is newer than all that counted
\* (is_update_valid): the run seq_reset shows that it does.
THEOREM OnlyResetsGoStale == Spec /\ world.resets = FALSE => []ResetNotStale
<1> DEFINE Fresh == accepted = <<0, 0>> => updates_seq_no = 0
<1>1. Init /\ world.resets = FALSE => OrderInv /\ Fresh
  <2> SUFFICES ASSUME Init, world.resets = FALSE PROVE OrderInv /\ Fresh
    OBVIOUS
  <2>1. UnitKnown /\ InFlight /\ Counted /\ Fresh
    BY DEF Init, UnitKnown, InFlight, Counted
  <2> QED
    BY <2>1, InitTypes DEF OrderInv
<1>2. OrderInv /\ Fresh /\ [Next]_vars => Fresh'
  <2> SUFFICES ASSUME OrderInv, Fresh, [Next]_vars PROVE Fresh'
    OBVIOUS
  <2>1. CASE \E u \in updates : Update(u)
    <3>1. PICK u \in updates : Update(u)
      BY <2>1
    <3>2. u.cipher # <<0, 0>>
      BY DEF OrderInv, InFlight, Sent
    <3> QED
      BY <3>1, <3>2 DEF Update
  <2>2. CASE ~\E u \in updates : Update(u)
    BY <2>2 DEF Next, KeyExchange, KeyRefused, Command, UnitKeys, UnitReports, UnitExecutes,
                Lose, vars, handlerVars
  <2> QED
    BY <2>1, <2>2
<1>3. OrderInv /\ Fresh => ResetNotStale
  <2> SUFFICES ASSUME OrderInv, Fresh, NEW u \in updates, Earlier(accepted, u.cipher)
               PROVE  IsUpdateValid(u.seq)
    BY DEF ResetNotStale
  <2>1. u.seq \in Nat /\ updates_seq_no \in Nat
    BY Numbers DEF OrderInv
  <2>2. CASE accepted = <<0, 0>>
    BY <2>1, <2>2 DEF IsUpdateValid
  <2>3. CASE accepted # <<0, 0>>
    <3>1. updates_seq_no < u.seq
      BY <2>3 DEF OrderInv, Counted, Agree
    <3> QED
      BY <2>1, <3>1 DEF IsUpdateValid
  <2> QED
    BY <2>2, <2>3
<1> HIDE DEF Fresh
<1> QED
  BY <1>1, <1>2, <1>3, OrderStep, PTL DEF Spec

=============================================================================
