--------------------------- MODULE ApplianceProofs ---------------------------
(***************************************************************************)
(* Proofs of Appliance's safety properties for any fields, values, bounds. *)
(***************************************************************************)
EXTENDS Appliance, FiniteSetTheorems, SequenceTheorems, TLAPS

\* What the device and the appliance each know of the request under way.
WriteStored(f) == WriteOf(f) => store[f] \in {Unknown, request.command.value}
ReportTrue(f) == request.is = "report" /\ request.name = f => request.value = unit[f]

\* The store is right about f, or will be when the request under way is done.
Right(f) == (store[f] \in {Unknown, unit[f]} \/ UnderWay(f)) /\ WriteStored(f) /\ ReportTrue(f)

StoreRight == \A f \in Fields : f \in dirty \cup suspect \/ Right(f)

QueueOK ==
  /\ writes \in Seq([name : Fields, value : Values]) /\ Len(writes) <= MaxWrites
  /\ reads \in Seq(Fields)
  /\ \A i, j \in DOMAIN reads : reads[i] = reads[j] => i = j
KeysOK == matched \in BOOLEAN /\ app_slip \in BOOLEAN /\ dev_slip \in BOOLEAN
UnitOK ==
  /\ store \in [Fields -> Values \cup {Unknown}]
  /\ unit \in [Fields -> Values]
  /\ dirty \subseteq Fields /\ suspect \subseteq Fields
  /\ request \in Requests
  /\ strays \subseteq {"fetch", "exchange"}
LateOK == late \subseteq LateReports /\ \A r, s \in late : r = s

\* A late report in turn is of a field that only a new report can put right, unless
\* that one is under way; it is in turn because the one after it will not decrypt.
LateKnown ==
  \A r \in late : r.in_turn =>
    dev_slip /\ (r.name \in suspect \/ (request.is = "report" /\ request.name = r.name))

IInv == QueueOK /\ KeysOK /\ UnitOK /\ LateOK /\ StoreRight /\ LateKnown

LEMMA TypeParts == TypeOK <=> QueueOK /\ KeysOK /\ UnitOK /\ LateOK
  BY DEF TypeOK, QueueOK, KeysOK, UnitOK, LateOK

-----------------------------------------------------------------------------
(* What a request of each kind holds.                                      *)

LEMMA ResponseHolds ==
  ASSUME request \in Requests, request.is = "response"
  PROVE  /\ request.command \in Commands
         /\ request.readable \in BOOLEAN
  BY DEF Requests, Idle, Response, Report, Exchange, Answer

LEMMA ReportHolds ==
  ASSUME request \in Requests, request.is = "report"
  PROVE  request.name \in Fields /\ request.value \in Values
  BY DEF Requests, Idle, Response, Report, Exchange, Answer

LEMMA CommandHolds ==
  ASSUME NEW c \in Commands
  PROVE  /\ c.do \in {"write", "read", "nothing"}
         /\ c.do = "write" => c.name \in Fields /\ c.value \in Values
         /\ c.do = "read" => c.name \in Fields
  BY DEF Commands, Write, Read, Nothing

\* The requests the handlers and the appliance make.
LEMMA RequestTypes ==
  /\ Idle \in Requests
  /\ \A c \in Commands, readable \in BOOLEAN : Response(c, readable) \in Requests
  /\ \A orphan \in BOOLEAN : Exchange(orphan) \in Requests
  /\ \A fits \in BOOLEAN : Answer(fits) \in Requests
  BY DEF Requests

\* The Boolean conditions that requests record.
LEMMA Conditions ==
  ASSUME NEW a \in BOOLEAN, NEW b \in BOOLEAN
  PROVE  (a /\ ~b) \in BOOLEAN
<1>1. CASE a /\ ~b
  <2>1. (a /\ ~b) = TRUE
    BY <1>1
  <2> QED
    BY <2>1
<1>2. CASE ~(a /\ ~b)
  <2>1. (a /\ ~b) = FALSE
    BY <1>2
  <2> QED
    BY <2>1
<1> QED
  BY <1>1, <1>2

\* What is late after other ciphertexts came in its stream.
LEMMA OvertakenLate ==
  ASSUME LateOK, late' = Overtaken
  PROVE  LateOK' /\ LateKnown'
<1>1. \A r \in late' : r.in_turn = FALSE
  BY DEF Overtaken, LateOK, LateReports, Late
<1>2. late' \subseteq LateReports
  BY DEF Overtaken, LateOK, LateReports, Late
<1>3. \A r, s \in late' : r = s
  BY DEF Overtaken, LateOK
<1> QED
  BY <1>1, <1>2, <1>3 DEF LateOK, LateKnown

\* A step that leaves alone what is late and the stream, and the request if it is a
\* report, and forgets no suspicion.
LEMMA StillLate ==
  ASSUME LateOK, LateKnown, UNCHANGED <<late, dev_slip>>, suspect \subseteq suspect',
         (request' = request \/ request.is # "report")
  PROVE  LateOK' /\ LateKnown'
  BY DEF LateOK, LateKnown

-----------------------------------------------------------------------------
(* The queue.                                                              *)

\* Taking the first element of a queue.
LEMMA Taken ==
  ASSUME NEW S, NEW s \in Seq(S), s # <<>>
  PROVE  /\ Head(s) \in S
         /\ Tail(s) \in Seq(S)
         /\ Len(Tail(s)) <= Len(s)
         /\ \A i \in DOMAIN Tail(s) : i + 1 \in DOMAIN s /\ Tail(s)[i] = s[i + 1]
  BY HeadTailProperties

LEMMA TakeKeeps ==
  ASSUME QueueOK, UnitOK, NEW c \in Commands, Take(c)
  PROVE  /\ QueueOK'
         /\ store' \in [Fields -> Values \cup {Unknown}]
         /\ c.do = "write" => store' = [store EXCEPT ![c.name] = c.value]
         /\ c.do # "write" => store' = store
<1>1. CASE /\ Queue!TakeWrite
           /\ c = Write(Head(writes).name, Head(writes).value)
           /\ store' = [store EXCEPT ![c.name] = c.value]
  <2>1. writes # <<>> /\ writes' = Tail(writes) /\ reads' = reads
    BY <1>1 DEF Queue!TakeWrite
  <2>2. Head(writes).name \in Fields /\ Head(writes).value \in Values
    <3>1. Head(writes) \in [name : Fields, value : Values]
      BY <2>1, Taken DEF QueueOK
    <3> QED
      BY <3>1
  <2>3. c.do = "write" /\ c.name \in Fields /\ c.value \in Values
    BY <1>1, <2>2 DEF Write
  <2>4. writes' \in Seq([name : Fields, value : Values]) /\ Len(writes') <= Len(writes)
    BY <2>1, Taken DEF QueueOK
  <2>5. Len(writes') \in Nat /\ Len(writes) \in Nat /\ MaxWrites \in Nat
    BY <2>4, BoundsAssumption DEF QueueOK
  <2>6. QueueOK'
    BY <2>1, <2>4, <2>5 DEF QueueOK
  <2> QED
    BY <1>1, <2>3, <2>6 DEF UnitOK
<1>2. CASE Queue!TakeRead /\ c = Read(Head(reads)) /\ UNCHANGED store
  <2>1. reads # <<>> /\ reads' = Tail(reads) /\ writes' = writes
    BY <1>2 DEF Queue!TakeRead
  <2>2. reads' \in Seq(Fields) /\ \A i, j \in DOMAIN reads' : reads'[i] = reads'[j] => i = j
    <3>1. \A i \in DOMAIN reads' : i + 1 \in DOMAIN reads /\ reads'[i] = reads[i + 1]
      BY <2>1, Taken DEF QueueOK
    <3>2. reads' \in Seq(Fields)
      BY <2>1, Taken DEF QueueOK
    <3>3. \A i \in DOMAIN reads' : i \in Nat
      BY <3>2
    <3> QED
      BY <3>1, <3>2, <3>3 DEF QueueOK
  <2>3. QueueOK'
    BY <2>1, <2>2 DEF QueueOK
  <2> QED
    BY <1>2, <2>3 DEF UnitOK, Read
<1>3. CASE queueVars = <<<<>>, <<>>>> /\ c = Nothing /\ UNCHANGED <<queueVars, store>>
  BY <1>3 DEF UnitOK, QueueOK, queueVars, Nothing
<1> QED
  BY <1>1, <1>2, <1>3 DEF Take

LEMMA RefreshKeeps ==
  ASSUME QueueOK, Refresh
  PROVE  QueueOK'
<1>1. writes' = writes /\ \A i, j \in DOMAIN reads' : reads'[i] = reads'[j] => i = j
  BY DEF Refresh, Queue!Refresh
<1>2. PICK batch \in [1..Cardinality(Fields \ Queue!Names(reads)) -> Fields \ Queue!Names(reads)] :
        reads' = reads \o batch
  BY DEF Refresh
<1>3. reads' \in Seq(Fields)
  <2> DEFINE n == Cardinality(Fields \ Queue!Names(reads))
  <2>1. n \in Nat
    BY FieldsAssumption, FS_CardinalityType, FS_Difference
  <2> HIDE DEF n
  <2>2. batch \in Seq(Fields)
    <3>1. batch \in [1..n -> Fields]
      BY <1>2 DEF n
    <3> QED
      BY <2>1, <3>1
  <2> QED
    BY <1>2, <2>2 DEF QueueOK
<1> QED
  BY <1>1, <1>3 DEF QueueOK

-----------------------------------------------------------------------------
(* The handlers and the appliance preserve the invariant.                  *)

\* What is right about a field stays so in a step that leaves alone the store,
\* the appliance and the request, and forgets no reason to be wrong.
LEMMA Untouched ==
  ASSUME StoreRight, UNCHANGED <<store, unit, request>>,
         dirty \subseteq dirty', suspect \subseteq suspect'
  PROVE  StoreRight'
  BY DEF StoreRight, Right, WriteStored, WriteOf, ReportTrue, UnderWay

LEMMA FetchKeeps ==
  ASSUME IInv, Fetch
  PROVE  IInv'
<1>1. PICK c \in Commands :
        /\ request = Idle /\ Take(c)
        /\ request' = Response(c, matched /\ ~app_slip)
        /\ app_slip' = FALSE
        /\ UNCHANGED <<matched, dev_slip, unit, dirty, strays, late, suspect>>
  BY DEF Fetch
<1>2. /\ QueueOK' /\ store' \in [Fields -> Values \cup {Unknown}]
      /\ c.do = "write" => store' = [store EXCEPT ![c.name] = c.value]
      /\ c.do # "write" => store' = store
  BY <1>1, TakeKeeps DEF IInv
<1>3. KeysOK'
  BY <1>1 DEF IInv, KeysOK
<1>4. UnitOK'
  <2>1. (matched /\ ~app_slip) \in BOOLEAN
    BY Conditions DEF IInv, KeysOK
  <2>2. request' \in Requests
    BY <1>1, <2>1, RequestTypes
  <2> QED
    BY <1>1, <1>2, <2>2 DEF IInv, UnitOK
<1>5. StoreRight'
  <2> SUFFICES ASSUME NEW f \in Fields, f \notin dirty' \cup suspect'
               PROVE  Right(f)'
    BY DEF StoreRight
  <2>1. /\ request'.is = "response" /\ request'.command = c
        /\ request.is = "idle" /\ unit' = unit /\ f \notin dirty \cup suspect
    BY <1>1 DEF Response, Idle
  <2>2. store[f] \in {Unknown, unit[f]}
    BY <2>1 DEF IInv, StoreRight, Right, UnderWay, WriteOf
  <2>3. CASE c.do = "write" /\ c.name = f
    BY <1>2, <2>1, <2>3 DEF IInv, UnitOK, Right, UnderWay, WriteOf, WriteStored, ReportTrue
  <2>4. CASE ~(c.do = "write" /\ c.name = f)
    <3>1. store'[f] = store[f]
      BY <1>2, <2>4, CommandHolds DEF IInv, UnitOK
    <3> QED
      BY <2>1, <2>2, <2>4, <3>1 DEF Right, UnderWay, WriteOf, WriteStored, ReportTrue
  <2> QED
    BY <2>3, <2>4
<1>6. LateOK' /\ LateKnown'
  BY <1>1, StillLate DEF IInv, Idle
<1> QED
  BY <1>2, <1>3, <1>4, <1>5, <1>6 DEF IInv

LEMMA HandleReportKeeps ==
  ASSUME IInv, HandleReport
  PROVE  IInv'
<1>1. request.name \in Fields /\ request.value \in Values
  BY ReportHolds DEF HandleReport, IInv, UnitOK
<1>2. QueueOK'
  BY DEF HandleReport, IInv, QueueOK, queueVars
<1>3. KeysOK'
  BY DEF HandleReport, IInv, KeysOK
<1>4. UnitOK'
  BY <1>1 DEF HandleReport, Update, IInv, UnitOK, Requests
<1>5. StoreRight'
  <2> SUFFICES ASSUME NEW f \in Fields, f \notin dirty' \cup suspect'
               PROVE  store'[f] \in {Unknown, unit'[f]} /\ request'.is = "idle"
    BY DEF StoreRight, Right, WriteStored, WriteOf, ReportTrue
  <2>1. /\ request.is = "report" /\ request' = Idle /\ unit' = unit
        /\ f \notin dirty \cup suspect
    BY DEF HandleReport
  <2>2. CASE request.name = f
    <3>1. store' = [store EXCEPT ![f] = request.value]
      BY <2>1, <2>2 DEF HandleReport, Update
    <3>2. request.value = unit[f]
      BY <2>1, <2>2 DEF IInv, StoreRight, Right, ReportTrue
    <3> QED
      BY <2>1, <3>1, <3>2 DEF IInv, UnitOK, Idle
  <2>3. CASE request.name # f
    <3>1. store'[f] = store[f]
      BY <1>1, <2>3 DEF HandleReport, Update, IInv, UnitOK
    <3>2. store[f] \in {Unknown, unit[f]}
      BY <2>1, <2>3 DEF IInv, StoreRight, Right, UnderWay, WriteOf
    <3> QED
      BY <2>1, <3>1, <3>2 DEF Idle
  <2> QED
    BY <2>2, <2>3
<1>6. LateOK' /\ LateKnown'
  BY OvertakenLate DEF HandleReport, IInv
<1> QED
  BY <1>2, <1>3, <1>4, <1>5, <1>6 DEF IInv

LEMMA ExecuteKeeps ==
  ASSUME IInv, Execute
  PROVE  IInv'
<1>1. request.command \in Commands
  BY ResponseHolds DEF Execute, IInv, UnitOK
<1>2. QueueOK' /\ KeysOK'
  BY DEF Execute, IInv, QueueOK, KeysOK, queueVars, sessionVars
<1>3. UnitOK'
  BY <1>1, CommandHolds DEF Execute, IInv, UnitOK, Requests
<1>4. StoreRight'
  <2> SUFFICES ASSUME NEW f \in Fields, f \notin dirty' \cup suspect'
               PROVE  store'[f] \in {Unknown, unit'[f]} /\ request'.is = "idle"
    BY DEF StoreRight, Right, WriteStored, WriteOf, ReportTrue
  <2>1. /\ request.is = "response" /\ request' = Idle /\ store' = store
        /\ f \notin dirty \cup suspect
    BY DEF Execute
  <2>2. CASE request.command.do = "write" /\ request.command.name = f
    <3>1. store[f] \in {Unknown, request.command.value}
      BY <2>1, <2>2 DEF IInv, StoreRight, Right, WriteStored, WriteOf
    <3>2. request.readable
      BY <2>2 DEF Execute
    <3>3. unit'[f] = request.command.value
      BY <2>2, <3>2 DEF Execute, IInv, UnitOK
    <3> QED
      BY <2>1, <3>1, <3>3 DEF Idle
  <2>3. CASE ~(request.command.do = "write" /\ request.command.name = f)
    <3>1. store[f] \in {Unknown, unit[f]}
      BY <2>1, <2>3 DEF IInv, StoreRight, Right, UnderWay, WriteOf
    <3>2. unit'[f] = unit[f]
      BY <1>1, <2>3, CommandHolds DEF Execute, IInv, UnitOK
    <3> QED
      BY <2>1, <3>1, <3>2 DEF Idle
  <2> QED
    BY <2>2, <2>3
<1>5. LateOK' /\ LateKnown'
  BY StillLate DEF Execute, IInv, sessionVars
<1> QED
  BY <1>2, <1>3, <1>4, <1>5 DEF IInv

LEMMA SendReportKeeps ==
  ASSUME IInv, NEW f \in Fields, SendReport(f)
  PROVE  IInv'
<1>1. QueueOK' /\ KeysOK'
  BY DEF SendReport, IInv, QueueOK, KeysOK, queueVars, sessionVars
<1>2. UnitOK'
  <2>1. unit[f] \in Values
    BY DEF IInv, UnitOK
  <2>2. request' \in Requests
    BY <2>1 DEF SendReport, Requests
  <2> QED
    BY <2>2 DEF SendReport, IInv, UnitOK
<1>3. StoreRight'
  <2> SUFFICES ASSUME NEW g \in Fields, g \notin dirty' \cup suspect'
               PROVE  Right(g)'
    BY DEF StoreRight
  <2>1. /\ request.is = "idle" /\ request'.is = "report" /\ request'.name = f
        /\ request'.value = unit[f] /\ unit' = unit /\ store' = store
    BY DEF SendReport, Report, Idle
  <2>2. CASE g = f
    BY <2>1, <2>2 DEF Right, UnderWay, WriteOf, WriteStored, ReportTrue
  <2>3. CASE g # f
    <3>1. g \notin dirty \cup suspect
      BY <2>3 DEF SendReport
    <3>2. store[g] \in {Unknown, unit[g]}
      BY <2>1, <3>1 DEF IInv, StoreRight, Right, UnderWay, WriteOf
    <3> QED
      BY <2>1, <2>3, <3>2 DEF Right, UnderWay, WriteOf, WriteStored, ReportTrue
  <2> QED
    BY <2>2, <2>3
<1>4. LateOK' /\ LateKnown'
  BY DEF SendReport, Report, Idle, IInv, LateOK, LateKnown, sessionVars
<1> QED
  BY <1>1, <1>2, <1>3, <1>4 DEF IInv

LEMMA HandleExchangeKeeps ==
  ASSUME IInv, HandleExchange
  PROVE  IInv'
<1>1. QueueOK'
  BY DEF HandleExchange, IInv, QueueOK, queueVars
<1>2. KeysOK'
  BY DEF HandleExchange, Rekey, IInv, KeysOK, sessionVars
<1>3. UnitOK'
  <2>1. request.orphan \in BOOLEAN
    BY DEF HandleExchange, IInv, UnitOK, Requests, Idle, Response, Report, Exchange, Answer
  <2>2. (~request.orphan) \in BOOLEAN
    BY <2>1
  <2>3. request' \in Requests
    BY <2>2, RequestTypes DEF HandleExchange
  <2> QED
    BY <2>3 DEF HandleExchange, IInv, UnitOK
<1>4. StoreRight'
  BY DEF HandleExchange, IInv, StoreRight, Right, WriteStored, WriteOf, ReportTrue, UnderWay, Answer
<1>5. LateOK' /\ LateKnown'
  BY OvertakenLate, StillLate DEF HandleExchange, Rekey, IInv, sessionVars
<1> QED
  BY <1>1, <1>2, <1>3, <1>4, <1>5 DEF IInv

\* An answer that no longer fits concerns no field.
LEMMA OutdatedKeeps ==
  ASSUME IInv, request' = Outdated, UNCHANGED <<store, unit, dirty, suspect>>
  PROVE  request' \in Requests /\ StoreRight'
<1>1. CASE request.is = "answer"
  BY <1>1, RequestTypes
  DEF Outdated, Answer, IInv, StoreRight, Right, WriteStored, WriteOf, ReportTrue, UnderWay
<1>2. CASE request.is # "answer"
  BY <1>2, Untouched DEF Outdated, IInv, UnitOK
<1> QED
  BY <1>1, <1>2

LEMMA ReloadKeeps ==
  ASSUME IInv, Reload
  PROVE  IInv'
<1>1. QueueOK'
  <2>1. writes' = <<>> /\ reads' = <<>>
    BY DEF Reload
  <2> QED
    BY <2>1, BoundsAssumption DEF QueueOK
<1>2. KeysOK'
  BY DEF Reload, Rekey, KeysOK
<1>3. request' \in Requests
  BY RequestTypes DEF Reload, Outdated, IInv, UnitOK
<1>4. UnitOK'
  BY <1>3 DEF Reload, IInv, UnitOK
<1>5. StoreRight'
  <2> SUFFICES ASSUME NEW f \in Fields, f \notin dirty' \cup suspect'
               PROVE  Right(f)'
    BY DEF StoreRight
  <2>1. store'[f] = Unknown /\ unit' = unit /\ f \notin dirty \cup suspect
    BY DEF Reload
  <2>2. \/ request' = request
        \/ request'.is \in {"answer", "exchange"}
    BY DEF Reload, Outdated, Answer, Exchange
  <2>3. ReportTrue(f)
    BY <2>1 DEF IInv, StoreRight, Right
  <2> QED
    BY <2>1, <2>2, <2>3 DEF Right, WriteStored, WriteOf, ReportTrue, UnderWay
<1>6. LateOK' /\ LateKnown'
  BY OvertakenLate DEF Reload, Rekey, IInv
<1> QED
  BY <1>1, <1>2, <1>4, <1>5, <1>6 DEF IInv

LEMMA PanelKeeps ==
  ASSUME IInv, NEW f \in Fields, NEW v \in Values, Panel(f, v)
  PROVE  IInv'
<1>1. QueueOK' /\ KeysOK'
  BY DEF Panel, IInv, QueueOK, KeysOK, queueVars, sessionVars
<1>2. UnitOK'
  BY DEF Panel, IInv, UnitOK
<1>3. StoreRight'
  <2> SUFFICES ASSUME NEW g \in Fields, g \notin dirty' \cup suspect'
               PROVE  Right(g)'
    BY DEF StoreRight
  <2>1. g # f /\ g \notin dirty \cup suspect
    BY DEF Panel
  <2>2. Right(g) /\ unit'[g] = unit[g] /\ store' = store /\ request' = request
    BY <2>1 DEF Panel, IInv, StoreRight, UnitOK
  <2> QED
    BY <2>2 DEF Right, WriteStored, WriteOf, ReportTrue, UnderWay
<1>4. LateOK' /\ LateKnown'
  BY StillLate DEF Panel, IInv, sessionVars
<1> QED
  BY <1>1, <1>2, <1>3, <1>4 DEF IInv

LEMMA GiveUpKeeps ==
  ASSUME IInv, GiveUp
  PROVE  IInv'
<1>1. QueueOK'
  BY DEF GiveUp, IInv, QueueOK, queueVars
<1>2. KeysOK'
  BY DEF GiveUp, IInv, KeysOK
<1>3. /\ suspect' \subseteq Fields /\ suspect \subseteq suspect'
      /\ \A f \in Fields : UnderWay(f) => f \in suspect'
  <2>1. CASE request.is = "response" /\ request.command.do = "write"
    BY <2>1, ResponseHolds, CommandHolds DEF GiveUp, IInv, UnitOK, UnderWay, WriteOf
  <2>2. CASE request.is = "report"
    BY <2>2, ReportHolds DEF GiveUp, IInv, UnitOK, UnderWay, WriteOf
  <2>3. CASE ~(request.is = "response" /\ request.command.do = "write") /\ request.is # "report"
    BY <2>3 DEF GiveUp, IInv, UnitOK, UnderWay, WriteOf
  <2> QED
    BY <2>1, <2>2, <2>3
<1>4. UnitOK'
  BY <1>3, RequestTypes DEF GiveUp, IInv, UnitOK
<1>5. StoreRight'
  BY <1>3 DEF GiveUp, IInv, StoreRight, Right, WriteStored, WriteOf, ReportTrue, UnderWay, Idle
<1>6. LateOK' /\ LateKnown'
  <2>1. CASE UNCHANGED late
    BY <1>3, <2>1 DEF GiveUp, IInv, LateOK, LateKnown
  <2>2. CASE request.is = "report" /\ late' = {[r EXCEPT !.newest = FALSE] : r \in late}
    <3>1. LateOK'
      BY <2>2 DEF IInv, LateOK, LateReports, Late
    <3>2. ASSUME NEW r \in late'
          PROVE  r.in_turn => dev_slip' /\ r.name \in suspect'
      BY <2>2, <3>2 DEF GiveUp, IInv, LateOK, LateReports, Late, LateKnown
    <3> QED
      BY <3>1, <3>2 DEF LateKnown
  <2>3. CASE /\ request.is = "report"
             /\ late' = {Late(request.name, request.value, ~dev_slip, TRUE)}
    <3>1. request.name \in Fields /\ request.value \in Values /\ (~dev_slip) \in BOOLEAN
      BY <2>3, ReportHolds DEF IInv, UnitOK, KeysOK
    <3>2. Late(request.name, request.value, ~dev_slip, TRUE) \in LateReports
      BY <3>1 DEF Late, LateReports
    <3>3. dev_slip' /\ request.name \in suspect'
      BY <2>3 DEF GiveUp
    <3>4. \A r \in late' : r.name = request.name
      BY <2>3 DEF Late
    <3> QED
      BY <2>3, <3>2, <3>3, <3>4 DEF LateOK, LateKnown
  <2> QED
    BY <2>1, <2>2, <2>3 DEF GiveUp
<1> QED
  BY <1>1, <1>2, <1>4, <1>5, <1>6 DEF IInv

LEMMA StrayFetchKeeps ==
  ASSUME IInv, StrayFetch
  PROVE  IInv'
<1>1. PICK c \in Commands :
        /\ strays' = strays \ {"fetch"} /\ Take(c)
        /\ app_slip' = TRUE
        /\ suspect' = IF c.do = "write" THEN suspect \cup {c.name} ELSE suspect
        /\ UNCHANGED <<matched, dev_slip, unit, dirty, request, late>>
  BY DEF StrayFetch
<1>2. /\ QueueOK' /\ store' \in [Fields -> Values \cup {Unknown}]
      /\ c.do = "write" => store' = [store EXCEPT ![c.name] = c.value]
      /\ c.do # "write" => store' = store
  BY <1>1, TakeKeeps DEF IInv
<1>3. KeysOK'
  BY <1>1 DEF IInv, KeysOK
<1>4. UnitOK'
  BY <1>1, <1>2, CommandHolds DEF IInv, UnitOK
<1>5. StoreRight'
  <2> SUFFICES ASSUME NEW f \in Fields, f \notin dirty' \cup suspect'
               PROVE  Right(f)'
    BY DEF StoreRight
  <2>1. f \notin dirty \cup suspect /\ store'[f] = store[f]
    BY <1>1, <1>2, CommandHolds DEF IInv, UnitOK
  <2> QED
    BY <1>1, <2>1 DEF IInv, StoreRight, Right, WriteStored, WriteOf, ReportTrue, UnderWay
<1>6. LateOK' /\ LateKnown'
  <2>1. suspect \subseteq suspect'
    BY <1>1
  <2> QED
    BY <1>1, <2>1, StillLate DEF IInv
<1> QED
  BY <1>2, <1>3, <1>4, <1>5, <1>6 DEF IInv

\* A late report in turn makes the store wrong about its field only while that is
\* suspect or reported anew.
LEMMA StrayReportKeeps ==
  ASSUME IInv, StrayReport
  PROVE  IInv'
<1>1. PICK r \in late :
        /\ late' = {} /\ Update(r.name, r.value, r.in_turn) /\ dev_slip' = ~r.newest
        /\ UNCHANGED <<queueVars, matched, app_slip, unit, dirty, request, strays, suspect>>
  BY DEF StrayReport
<1>2. r.name \in Fields /\ r.value \in Values /\ r.newest \in BOOLEAN
  BY DEF IInv, LateOK, LateReports, Late
<1>3. QueueOK' /\ LateOK' /\ LateKnown'
  BY <1>1 DEF IInv, QueueOK, queueVars, LateOK, LateKnown
<1>4. KeysOK'
  <2>1. (~r.newest) \in BOOLEAN
    BY <1>2
  <2> QED
    BY <1>1, <2>1 DEF IInv, KeysOK
<1>5. UnitOK'
  BY <1>1, <1>2 DEF Update, IInv, UnitOK
<1>6. StoreRight'
  <2> SUFFICES ASSUME NEW f \in Fields, f \notin dirty' \cup suspect'
               PROVE  Right(f)'
    BY DEF StoreRight
  <2>1. Right(f) /\ f \notin suspect /\ unit' = unit /\ request' = request
    BY <1>1 DEF IInv, StoreRight
  <2>2. CASE store'[f] = store[f]
    BY <2>1, <2>2 DEF Right, WriteStored, WriteOf, ReportTrue, UnderWay
  <2>3. CASE store'[f] # store[f]
    <3>1. r.name = f /\ r.in_turn
      BY <1>1, <1>2, <2>3 DEF Update, IInv, UnitOK
    <3>2. request.is = "report" /\ request.name = f
      BY <2>1, <3>1 DEF IInv, LateKnown
    <3> QED
      BY <2>1, <3>2 DEF Right, WriteStored, WriteOf, ReportTrue, UnderWay
  <2> QED
    BY <2>2, <2>3
<1> QED
  BY <1>3, <1>4, <1>5, <1>6 DEF IInv

-----------------------------------------------------------------------------
\* Every step preserves the invariant.
LEMMA Invariant == Spec => []IInv
<1>1. Init => IInv
  <2> SUFFICES ASSUME Init PROVE IInv
    OBVIOUS
  <2>1. QueueOK
    BY BoundsAssumption DEF Init, QueueOK
  <2>2. KeysOK
    BY DEF Init, KeysOK
  <2>3. UnitOK
    BY RequestTypes DEF Init, UnitOK
  <2>4. StoreRight
    BY DEF Init, StoreRight, Right, WriteStored, WriteOf, ReportTrue, Idle
  <2>5. LateOK /\ LateKnown
    BY DEF Init, LateOK, LateKnown
  <2> QED
    BY <2>1, <2>2, <2>3, <2>4, <2>5 DEF IInv
<1>2. IInv /\ [Next]_vars => IInv'
  <2> SUFFICES ASSUME IInv, [Next]_vars PROVE IInv'
    OBVIOUS
  <2>1. CASE Refresh
    <3>1. KeysOK' /\ UnitOK' /\ LateOK' /\ StoreRight' /\ LateKnown'
      BY <2>1, Untouched, StillLate DEF Refresh, IInv, KeysOK, UnitOK, sessionVars, unitVars
    <3> QED
      BY <2>1, <3>1, RefreshKeeps DEF IInv
  <2>2. CASE \E f \in Fields, v \in Values : UserWrite(f, v)
    <3>1. PICK f \in Fields, v \in Values : UserWrite(f, v)
      BY <2>2
    <3>2. KeysOK' /\ UnitOK' /\ LateOK' /\ StoreRight' /\ LateKnown'
      BY <3>1, Untouched, StillLate DEF UserWrite, IInv, KeysOK, UnitOK, sessionVars, unitVars
    <3>3. [name |-> f, value |-> v] \in [name : Fields, value : Values]
      OBVIOUS
    <3>4. writes' \in Seq([name : Fields, value : Values]) /\ Len(writes') <= MaxWrites
      BY <3>1, <3>3, BoundsAssumption DEF UserWrite, IInv, QueueOK
    <3>5. QueueOK'
      BY <3>1, <3>4 DEF UserWrite, Queue!Submit, IInv, QueueOK
    <3> QED
      BY <3>2, <3>5 DEF IInv
  <2>3. CASE \E f \in Fields, v \in Values : Panel(f, v)
    BY <2>3, PanelKeeps
  <2>4. CASE \E f \in Fields : SendReport(f)
    BY <2>4, SendReportKeeps
  <2>5. CASE SendExchange
    <3>1. QueueOK' /\ KeysOK'
      BY <2>5 DEF SendExchange, IInv, QueueOK, KeysOK, queueVars, sessionVars
    <3>2. UnitOK'
      BY <2>5, RequestTypes DEF SendExchange, IInv, UnitOK
    <3>3. StoreRight'
      BY <2>5
      DEF SendExchange, IInv, StoreRight, Right, WriteStored, WriteOf, ReportTrue, UnderWay,
          Idle, Exchange
    <3>4. LateOK' /\ LateKnown'
      BY <2>5, StillLate DEF SendExchange, IInv, Idle, sessionVars
    <3> QED
      BY <3>1, <3>2, <3>3, <3>4 DEF IInv
  <2>6. CASE AdoptKeys
    <3>1. request.fits \in BOOLEAN
      BY <2>6
      DEF AdoptKeys, IInv, UnitOK, Requests, Idle, Response, Report, Exchange, Answer
    <3>2. QueueOK' /\ KeysOK'
      BY <2>6, <3>1 DEF AdoptKeys, IInv, QueueOK, KeysOK, queueVars
    <3>3. UnitOK'
      BY <2>6, RequestTypes DEF AdoptKeys, IInv, UnitOK
    <3>4. StoreRight'
      BY <2>6
      DEF AdoptKeys, IInv, StoreRight, Right, WriteStored, WriteOf, ReportTrue, UnderWay, Idle
    <3>5. LateOK' /\ LateKnown'
      BY <2>6, StillLate DEF AdoptKeys, IInv
    <3> QED
      BY <3>2, <3>3, <3>4, <3>5 DEF IInv
  <2>7. CASE GiveUpFetch
    <3>1. QueueOK' /\ KeysOK' /\ StoreRight'
      BY <2>7, Untouched DEF GiveUpFetch, IInv, QueueOK, KeysOK, queueVars, sessionVars
    <3>2. UnitOK'
      BY <2>7 DEF GiveUpFetch, IInv, UnitOK
    <3>3. LateOK' /\ LateKnown'
      BY <2>7, StillLate DEF GiveUpFetch, IInv, sessionVars
    <3> QED
      BY <3>1, <3>2, <3>3 DEF IInv
  <2>8. CASE StrayExchange
    <3>1. QueueOK' /\ KeysOK'
      BY <2>8 DEF StrayExchange, Rekey, IInv, QueueOK, KeysOK, queueVars
    <3>2. request' \in Requests /\ StoreRight'
      BY <2>8, OutdatedKeeps DEF StrayExchange
    <3>3. UnitOK'
      BY <2>8, <3>2 DEF StrayExchange, Rekey, IInv, UnitOK
    <3>4. LateOK' /\ LateKnown'
      BY <2>8, OvertakenLate DEF StrayExchange, Rekey, IInv
    <3> QED
      BY <3>1, <3>2, <3>3, <3>4 DEF IInv
  <2>9. CASE UNCHANGED vars
    <3>1. QueueOK' /\ KeysOK' /\ UnitOK' /\ LateOK' /\ StoreRight' /\ LateKnown'
      BY <2>9, Untouched, StillLate DEF vars, queueVars, sessionVars, unitVars, IInv, QueueOK, KeysOK, UnitOK
    <3> QED
      BY <3>1 DEF IInv
  <2> QED
    BY <2>1, <2>2, <2>3, <2>4, <2>5, <2>6, <2>7, <2>8, <2>9, FetchKeeps, HandleReportKeeps,
       HandleExchangeKeeps, ExecuteKeeps, GiveUpKeeps, StrayFetchKeeps, StrayReportKeeps,
       ReloadKeeps
       DEF Next, Disturbance, Poll
<1> QED
  BY <1>1, <1>2, PTL DEF Spec

\* The types of the device, the session and the appliance.
THEOREM TypeCorrect == Spec => []TypeOK
<1>1. IInv => TypeOK
  BY TypeParts DEF IInv
<1> QED
  BY <1>1, Invariant, PTL

\* The store is wrong about a field only while a write or a report of it is under
\* way or due, or after one was given up, whatever the fields, values and bounds,
\* and although a report given up may be stored after a newer write.
THEOREM StoreWrongOnlyForAReason == Spec => []WrongOnlyForAReason
<1>1. IInv => WrongOnlyForAReason
  BY DEF IInv, StoreRight, Right, WrongOnlyForAReason
<1> QED
  BY <1>1, Invariant, PTL
-----------------------------------------------------------------------------
(* What the store follows it leaves only in a few steps.                   *)

\* A step that leaves alone what Follows is about.
LEMMA FollowsUntouched ==
  ASSUME NEW f, Follows(f), UNCHANGED <<matched, app_slip, request>>,
         store'[f] = store[f], unit'[f] = unit[f]
  PROVE  Follows(f)'
  BY DEF Follows, WriteOf

\* A request that is over, or one that is about no command and no report.
LEMMA FollowsUnconcerned ==
  ASSUME NEW f, Follows(f), UNCHANGED <<matched, app_slip>>,
         store'[f] = unit'[f], request'.is \notin {"response", "report"}
  PROVE  Follows(f)'
  BY DEF Follows, WriteOf

LEMMA FetchFollows ==
  ASSUME IInv, Fetch, NEW f \in Fields, Follows(f)
  PROVE  Follows(f)'
<1>1. PICK c \in Commands :
        /\ request = Idle /\ Take(c)
        /\ request' = Response(c, matched /\ ~app_slip)
        /\ app_slip' = FALSE
        /\ UNCHANGED <<matched, dev_slip, unit, dirty, strays, late, suspect>>
  BY DEF Fetch
<1>2. /\ c.do = "write" => store' = [store EXCEPT ![c.name] = c.value]
      /\ c.do # "write" => store' = store
  BY <1>1, TakeKeeps DEF IInv
<1>3. request'.is = "response" /\ request'.command = c /\ request'.readable
  BY <1>1 DEF Response, Follows
<1>4. store[f] = unit[f]
  BY <1>1 DEF Follows, WriteOf, Idle
<1>5. CASE c.do = "write" /\ c.name = f
  BY <1>1, <1>2, <1>3, <1>5 DEF Follows, WriteOf, IInv, UnitOK
<1>6. CASE ~(c.do = "write" /\ c.name = f)
  <2>1. store'[f] = store[f]
    BY <1>2, <1>6, CommandHolds DEF IInv, UnitOK
  <2> QED
    BY <1>1, <1>3, <1>4, <1>6, <2>1 DEF Follows, WriteOf
<1> QED
  BY <1>5, <1>6

LEMMA HandleReportFollows ==
  ASSUME IInv, HandleReport, NEW f \in Fields, Follows(f)
  PROVE  Follows(f)'
<1>1. /\ request.is = "report" /\ request'.is = "idle" /\ unit' = unit
      /\ UNCHANGED <<matched, app_slip>>
      /\ request.name \in Fields
  BY ReportHolds DEF HandleReport, Idle, IInv, UnitOK
<1>2. store[f] = unit[f] /\ (request.name = f => request.value = unit[f])
  BY <1>1 DEF Follows, WriteOf
<1>3. store'[f] = unit'[f]
  BY <1>1, <1>2 DEF HandleReport, Update, IInv, UnitOK
<1> QED
  BY <1>1, <1>3, FollowsUnconcerned

LEMMA ExecuteFollows ==
  ASSUME IInv, Execute, NEW f \in Fields, Follows(f)
  PROVE  Follows(f)'
<1>1. /\ request.is = "response" /\ request'.is = "idle" /\ store' = store
      /\ UNCHANGED <<matched, app_slip>>
      /\ request.command \in Commands /\ request.readable
  BY ResponseHolds DEF Execute, Idle, IInv, UnitOK, Follows, sessionVars
<1>2. unit' = IF request.command.do = "write"
              THEN [unit EXCEPT ![request.command.name] = request.command.value] ELSE unit
  BY <1>1 DEF Execute
<1>3. store'[f] = unit'[f]
  BY <1>1, <1>2 DEF Follows, WriteOf, IInv, UnitOK
<1> QED
  BY <1>1, <1>3, FollowsUnconcerned

\* A late report that is stored says nothing new of f.
LEMMA StrayReportFollows ==
  ASSUME IInv, StrayReport, NEW f \in Fields, Follows(f), ~SaysOtherwise(f)
  PROVE  Follows(f)'
<1>1. PICK r \in late :
        /\ late' = {} /\ Update(r.name, r.value, r.in_turn) /\ dev_slip' = ~r.newest
        /\ UNCHANGED <<queueVars, matched, app_slip, unit, dirty, request, strays, suspect>>
  BY DEF StrayReport
<1>2. r.name \in Fields
  BY DEF IInv, LateOK, LateReports, Late
<1>3. r.name = f /\ r.in_turn => r.value = store[f]
  BY DEF SaysOtherwise
<1>4. store'[f] = store[f]
  BY <1>1, <1>2, <1>3 DEF Update, IInv, UnitOK
<1> QED
  BY <1>1, <1>4, FollowsUntouched

\* The other steps, one by one.
LEMMA StepFollows ==
  ASSUME IInv, Next, NEW f \in Fields, Follows(f), matched',
         ~StrayFetch, ~(GiveUp /\ request.is = "response"), \A v \in Values : ~Panel(f, v),
         ~SaysOtherwise(f)
  PROVE  Follows(f)'
<1>1. CASE Refresh \/ GiveUpFetch
  BY <1>1, FollowsUntouched DEF Refresh, GiveUpFetch, sessionVars, unitVars
<1>2. ASSUME NEW g \in Fields, NEW v \in Values, UserWrite(g, v)
      PROVE  Follows(f)'
  BY <1>2, FollowsUntouched DEF UserWrite, sessionVars, unitVars
<1>3. ASSUME NEW g \in Fields, NEW v \in Values, Panel(g, v)
      PROVE  Follows(f)'
  <2>1. g # f
    BY <1>3
  <2> QED
    BY <1>3, <2>1, FollowsUntouched DEF Panel, sessionVars, IInv, UnitOK
<1>4. ASSUME NEW g \in Fields, SendReport(g)
      PROVE  Follows(f)'
  <2>1. /\ request = Idle /\ request'.is = "report" /\ request'.name = g
        /\ request'.value = unit[g]
        /\ UNCHANGED <<matched, app_slip, store, unit>>
    BY <1>4 DEF SendReport, Report, sessionVars
  <2> QED
    BY <2>1 DEF Follows, WriteOf, Idle
<1>5. CASE SendExchange
  <2>1. request = Idle /\ request'.is = "exchange" /\ UNCHANGED <<matched, app_slip, store, unit>>
    BY <1>5 DEF SendExchange, Exchange, sessionVars
  <2> QED
    BY <2>1, FollowsUnconcerned DEF Follows, WriteOf, Idle
<1>6. CASE AdoptKeys
  <2>1. /\ request.is = "answer" /\ request'.is = "idle"
        /\ UNCHANGED <<app_slip, store, unit>>
    BY <1>6 DEF AdoptKeys, Idle
  <2> QED
    BY <2>1 DEF Follows, WriteOf
<1>7. CASE HandleExchange
  <2>1. /\ request.is = "exchange" /\ request'.is = "answer"
        /\ UNCHANGED <<matched, app_slip, store, unit>>
    BY <1>7 DEF HandleExchange, Rekey, Answer, sessionVars
  <2> QED
    BY <2>1, FollowsUnconcerned DEF Follows, WriteOf
<1>8. CASE GiveUp
  <2>1. /\ request.is # "response" /\ request'.is = "idle"
        /\ UNCHANGED <<matched, store, unit>>
        /\ app_slip' = (app_slip \/ request.is = "response")
    BY <1>8 DEF GiveUp, Idle
  <2>2. app_slip' = FALSE
    BY <2>1 DEF Follows
  <2> QED
    BY <2>1, <2>2 DEF Follows, WriteOf
<1>9. CASE StrayExchange \/ Reload
  BY <1>9 DEF StrayExchange, Reload, Rekey
<1> QED
  BY <1>1, <1>2, <1>3, <1>4, <1>5, <1>6, <1>7, <1>8, <1>9, FetchFollows, HandleReportFollows,
     ExecuteFollows, StrayReportFollows DEF Next, Disturbance, Poll

\* For any fields, values and bounds: users, polls, reports and key exchanges never
\* take the store away from a field that it follows, and a late report does so only
\* when it is of this field, arrives in turn and says something else.
THEOREM StoreFollowsUntilLost == Spec => FollowsUntilLost
<1>1. IInv /\ [Next]_vars =>
        [\A f \in Fields : Follows(f) /\ ~Follows(f)' =>
           \/ ~matched' \/ StrayFetch
           \/ GiveUp /\ request.is = "response"
           \/ \E v \in Values : Panel(f, v)
           \/ SaysOtherwise(f)]_vars
  BY StepFollows
<1> QED
  BY <1>1, Invariant, PTL DEF Spec, FollowsUntilLost
=============================================================================
