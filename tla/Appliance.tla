------------------------------ MODULE Appliance ------------------------------
(***************************************************************************)
(* A device of the integration and the appliance it stands for: what the   *)
(* property store says of the appliance when commands, reports and key     *)
(* exchanges get lost, while users, polls and reloads go on.               *)
(*                                                                         *)
(* Composed of the parts the other modules look into.  The queue is        *)
(* CommandQueue, which Device implements.  A session is LanSession's, with *)
(* its numbers reduced to what decides whether a message can be read: the  *)
(* keys match, and the message before it in its stream was consumed.       *)
(* Properties are independent here; packed writes are Device's matter.     *)
(*                                                                         *)
(* The appliance is external.  It sends one HTTP request at a time, in any *)
(* order, and waits for the answer or gives up; a request it gave up may   *)
(* still reach its handler later (a stray), but no one reads the answer.   *)
(* Of each kind at most one given up is still on its way, as in LanSession *)
(* (Window = 2); a report may then come in turn, or after later ones.      *)
(***************************************************************************)
EXTENDS Naturals, Sequences, FiniteSets

CONSTANTS
  Fields,     \* the properties of the device
  Values,     \* their values
  Limit,      \* queued commands above which the poll waits
  MaxWrites,  \* bound: user commands waiting (a test bound, any Nat)
  Unknown     \* a property neither reported nor sent

ASSUME FieldsAssumption == IsFiniteSet(Fields) /\ Unknown \notin Values
ASSUME BoundsAssumption == {Limit, MaxWrites} \subseteq Nat

VARIABLES
  writes,    \* user commands in the queue, oldest first
  reads,     \* properties whose reads are in the queue, oldest first
  store,     \* the stored properties
  matched,   \* the appliance has the keys of the device's last exchange
  app_slip,  \* a response was encrypted that the appliance does not consume
  dev_slip,  \* the report under way, or the next one, will not decrypt
  unit,      \* external: the properties of the appliance
  dirty,     \* external: those it has to report
  request,   \* external: the request it has under way
  strays,    \* external: the fetch and the exchange given up that may still be handled
  late,      \* external: the report given up that may still be handled, if any
  suspect    \* history: fields only a new report can put right

Queue == INSTANCE CommandQueue

queueVars == <<writes, reads>>
sessionVars == <<matched, app_slip, dev_slip>>
unitVars == <<unit, dirty, request, strays, late, suspect>>
vars == <<queueVars, store, sessionVars, unitVars>>

\* What the data of a response may be.
Write(f, v) == [do |-> "write", name |-> f, value |-> v]
Read(f) == [do |-> "read", name |-> f]
Nothing == [do |-> "nothing"]
Commands == {Write(f, v) : f \in Fields, v \in Values} \cup {Read(f) : f \in Fields} \cup {Nothing}

\* The request of the appliance: none, a fetch whose response is on its way back,
\* a report, a key exchange (its handler may hold the device of an unloaded
\* controller), or the answer to one (the device may have other keys by now).
Idle == [is |-> "idle"]
Response(c, readable) == [is |-> "response", command |-> c, readable |-> readable]
Report(f, v) == [is |-> "report", name |-> f, value |-> v]
Exchange(orphan) == [is |-> "exchange", orphan |-> orphan]
Answer(fits) == [is |-> "answer", fits |-> fits]

Requests ==
  {Idle} \cup {Response(c, readable) : c \in Commands, readable \in BOOLEAN}
    \cup {Report(f, v) : f \in Fields, v \in Values}
    \cup {Exchange(orphan) : orphan \in BOOLEAN} \cup {Answer(fits) : fits \in BOOLEAN}

\* A report given up.  It is in turn when what the decryptor consumed last is the
\* report before it, and newest when the report under way, or else the next one,
\* is the one after it.
Late(f, v, in_turn, newest) == [name |-> f, value |-> v, in_turn |-> in_turn, newest |-> newest]
LateReports == [name : Fields, value : Values, in_turn : BOOLEAN, newest : BOOLEAN]

-----------------------------------------------------------------------------
(* Users, buttons and the status poll.                                     *)

UserWrite(f, v) ==
  /\ Len(writes) < MaxWrites
  /\ writes' = Append(writes, [name |-> f, value |-> v])
  /\ Queue!Submit
  /\ UNCHANGED <<store, sessionVars, unitVars>>

\* Mutant: reads that are waiting are queued again.
RefreshAll ==
  /\ \E all \in [1..Cardinality(Fields) -> Fields] : reads' = reads \o all
  /\ Len(reads) <= Cardinality(Fields)
  /\ UNCHANGED <<writes, store, sessionVars, unitVars>>

\* queue_status: the refresh button, or a new registration.
Refresh ==
  LET missing == Fields \ Queue!Names(reads) IN
  /\ \E batch \in [1..Cardinality(missing) -> missing] : reads' = reads \o batch
  /\ Queue!Refresh
  /\ UNCHANGED <<store, sessionVars, unitVars>>

\* Mutant: the poll waits for a full queue, not for an empty one.
PollWhenFull == Len(writes) + Len(reads) > Limit /\ Refresh

\* _query_status_device, when it has slept.
Poll == Len(writes) + Len(reads) <= Limit /\ Refresh

-----------------------------------------------------------------------------
(* The handlers.                                                           *)

\* Mutant: the command leaves the queue, its updater does not run.
TakeUnstored(c) ==
  \/ /\ Queue!TakeWrite
     /\ c = Write(Head(writes).name, Head(writes).value)
     /\ UNCHANGED store
  \/ Queue!TakeRead /\ c = Read(Head(reads)) /\ UNCHANGED store
  \/ queueVars = <<<<>>, <<>>>> /\ c = Nothing /\ UNCHANGED <<queueVars, store>>

\* command_handler takes the command c, if any, and runs its updater: a write
\* is stored as sent before its response is.  Nothing tells it who asks, nor
\* whether the one who asks can read the answer.
Take(c) ==
  \/ /\ Queue!TakeWrite
     /\ c = Write(Head(writes).name, Head(writes).value)
     /\ store' = [store EXCEPT ![c.name] = c.value]
  \/ Queue!TakeRead /\ c = Read(Head(reads)) /\ UNCHANGED store
  \/ queueVars = <<<<>>, <<>>>> /\ c = Nothing /\ UNCHANGED <<queueVars, store>>

\* The appliance fetches a command.
Fetch ==
  \E c \in Commands :
    /\ request = Idle
    /\ Take(c)
    /\ request' = Response(c, matched /\ ~app_slip)
    /\ app_slip' = FALSE
    /\ UNCHANGED <<matched, dev_slip, unit, dirty, strays, late, suspect>>

\* property_update_handler stores an update that it can decrypt.
Update(f, v, in_turn) ==
  store' = IF matched /\ in_turn THEN [store EXCEPT ![f] = v] ELSE store

\* Other ciphertexts came after a late report, at both ends of its stream.
Overtaken == {[r EXCEPT !.in_turn = FALSE, !.newest = FALSE] : r \in late}

\* The decryptor consumes the report in any case.
HandleReport ==
  /\ request.is = "report"
  /\ request' = Idle
  /\ Update(request.name, request.value, ~dev_slip)
  /\ dev_slip' = FALSE
  /\ late' = Overtaken
  /\ suspect' = IF matched /\ ~dev_slip THEN suspect ELSE suspect \cup {request.name}
  /\ UNCHANGED <<queueVars, matched, app_slip, unit, dirty, strays>>

\* Both streams restart under keys the appliance does not have yet.
Rekey == matched' = FALSE /\ app_slip' = FALSE /\ dev_slip' = FALSE /\ late' = Overtaken

\* An answer under way no longer fits the device that gets other keys.
Outdated == IF request.is = "answer" THEN Answer(FALSE) ELSE request

\* key_exchange_handler, on the device it looked up before it read the body.
HandleExchange ==
  /\ request.is = "exchange"
  /\ request' = Answer(~request.orphan)
  /\ IF request.orphan THEN UNCHANGED <<sessionVars, late>> ELSE Rekey
  /\ UNCHANGED <<queueVars, store, unit, dirty, strays, suspect>>

\* The entry is reloaded, or Home Assistant restarts: a new Device, with an
\* empty queue, nothing known and the keys of empty randoms.  A key exchange
\* whose handler has looked the device up goes on with the old one.
Reload ==
  /\ writes' = <<>> /\ reads' = <<>>
  /\ store' = [f \in Fields |-> Unknown]
  /\ Rekey
  /\ \/ request' = Outdated
     \/ request.is = "exchange" /\ request' = Exchange(TRUE)
  /\ UNCHANGED <<unit, dirty, strays, suspect>>

-----------------------------------------------------------------------------
(* The appliance and the network.                                          *)

\* It executes the response it can read.
Execute ==
  LET c == request.command IN
  /\ request.is = "response"
  /\ request' = Idle
  /\ unit' = IF request.readable /\ c.do = "write" THEN [unit EXCEPT ![c.name] = c.value] ELSE unit
  /\ dirty' = IF request.readable /\ c.do = "read" THEN dirty \cup {c.name} ELSE dirty
  /\ suspect' = IF ~request.readable /\ c.do = "write" THEN suspect \cup {c.name} ELSE suspect
  /\ UNCHANGED <<queueVars, store, sessionVars, strays, late>>

SendReport(f) ==
  /\ request = Idle /\ f \in dirty
  /\ request' = Report(f, unit[f])
  /\ dirty' = dirty \ {f}
  /\ suspect' = suspect \ {f}
  /\ UNCHANGED <<queueVars, store, sessionVars, unit, strays, late>>

SendExchange ==
  /\ request = Idle
  /\ request' = Exchange(FALSE)
  /\ UNCHANGED <<queueVars, store, sessionVars, unit, dirty, strays, late, suspect>>

AdoptKeys ==
  /\ request.is = "answer"
  /\ request' = Idle
  /\ matched' = request.fits
  /\ UNCHANGED <<queueVars, store, app_slip, dev_slip, unit, dirty, strays, late, suspect>>

\* Someone uses its panel or its remote control; it may report that of itself.
Panel(f, v) ==
  /\ v # unit[f]
  /\ unit' = [unit EXCEPT ![f] = v]
  /\ \/ dirty' = dirty \cup {f} /\ UNCHANGED suspect
     \/ suspect' = suspect \cup {f} /\ UNCHANGED dirty
  /\ UNCHANGED <<queueVars, store, sessionVars, request, strays, late>>

\* It gives up a request: the request is lost or late, or the answer is lost.  A
\* late report takes the place of an older one, which is lost.
GiveUp ==
  /\ request # Idle
  /\ request' = Idle
  /\ app_slip' = (app_slip \/ request.is = "response")
  /\ dev_slip' = (dev_slip \/ request.is = "report")
  /\ suspect' = CASE request.is = "response" /\ request.command.do = "write"
                       -> suspect \cup {request.command.name}
                  [] request.is = "report" -> suspect \cup {request.name}
                  [] OTHER -> suspect
  /\ \/ UNCHANGED strays
     \/ request.is = "exchange" /\ strays' = strays \cup {"exchange"}
  /\ \/ request.is # "report" /\ UNCHANGED late
     \/ request.is = "report" /\ late' = {[r EXCEPT !.newest = FALSE] : r \in late}
     \/ request.is = "report" /\ late' = {Late(request.name, request.value, ~dev_slip, TRUE)}
  /\ UNCHANGED <<queueVars, store, matched, unit, dirty>>

\* It gives up a fetch that has not been handled.
GiveUpFetch ==
  /\ request = Idle
  /\ strays' = strays \cup {"fetch"}
  /\ UNCHANGED <<queueVars, store, sessionVars, unit, dirty, request, late, suspect>>

\* A stray takes a command nobody will get, or gives the device keys nobody has.
StrayFetch ==
  \E c \in Commands :
    /\ "fetch" \in strays /\ strays' = strays \ {"fetch"}
    /\ Take(c)
    /\ app_slip' = TRUE
    /\ suspect' = IF c.do = "write" THEN suspect \cup {c.name} ELSE suspect
    /\ UNCHANGED <<matched, dev_slip, unit, dirty, request, late>>

StrayExchange ==
  /\ "exchange" \in strays /\ strays' = strays \ {"exchange"}
  /\ Rekey
  /\ request' = Outdated
  /\ UNCHANGED <<queueVars, store, unit, dirty, suspect>>

\* A late report in turn is stored, although it may be older than a write since.
\* The decryptor consumes it, in turn or not: the one after it decrypts then.
StrayReport ==
  \E r \in late :
    /\ late' = {}
    /\ Update(r.name, r.value, r.in_turn)
    /\ dev_slip' = ~r.newest
    /\ UNCHANGED <<queueVars, matched, app_slip, unit, dirty, request, strays, suspect>>

-----------------------------------------------------------------------------
Init ==
  /\ writes = <<>> /\ reads = <<>>
  /\ store = [f \in Fields |-> Unknown]
  /\ matched = FALSE /\ app_slip = FALSE /\ dev_slip = FALSE
  /\ unit \in [Fields -> Values]
  /\ dirty = {} /\ request = Idle /\ strays = {} /\ late = {} /\ suspect = {}

\* What interferes with the store following the appliance.
Disturbance ==
  \/ \E f \in Fields, v \in Values : UserWrite(f, v) \/ Panel(f, v)
  \/ GiveUp \/ GiveUpFetch \/ StrayFetch \/ StrayExchange \/ StrayReport
  \/ Reload

Next ==
  \/ Poll \/ Refresh
  \/ Fetch \/ HandleReport \/ SendExchange \/ HandleExchange
  \/ Execute \/ AdoptKeys
  \/ \E f \in Fields : SendReport(f)
  \/ Disturbance

Spec == Init /\ [][Next]_vars

\* The event loop resumes the poll when its sleep is over, and runs handlers.
CodeFairness == WF_vars(Poll) /\ WF_vars(HandleReport) /\ WF_vars(HandleExchange)

\* An appliance that works fetches and reports again and again, whatever else it
\* asks, and deals with the answers.
UnitFairness ==
  /\ SF_vars(Fetch) /\ \A f \in Fields : SF_vars(SendReport(f))
  /\ WF_vars(Execute) /\ WF_vars(AdoptKeys)

FairSpec == Spec /\ CodeFairness /\ UnitFairness
-----------------------------------------------------------------------------
\* The types; no property is read twice at a time.
TypeOK ==
  /\ writes \in Seq([name : Fields, value : Values]) /\ Len(writes) <= MaxWrites
  /\ reads \in Seq(Fields)
  /\ \A i, j \in DOMAIN reads : reads[i] = reads[j] => i = j
  /\ store \in [Fields -> Values \cup {Unknown}]
  /\ {matched, app_slip, dev_slip} \subseteq BOOLEAN
  /\ unit \in [Fields -> Values]
  /\ dirty \subseteq Fields /\ suspect \subseteq Fields
  /\ request \in Requests
  /\ strays \subseteq {"fetch", "exchange"}
  /\ late \subseteq LateReports /\ \A r, s \in late : r = s

\* The request under way is a write of field f; it concerns field f.
WriteOf(f) ==
  request.is = "response" /\ request.command.do = "write" /\ request.command.name = f
UnderWay(f) ==
  \/ WriteOf(f)
  \/ request.is = "report" /\ request.name = f

\* A write is stored before the appliance has it, and a report is older than its
\* arrival, a late one than newer writes; yet the store is wrong about a field only
\* while a write or a report of it is under way or due, or after a write or a
\* report of it was given up or the appliance kept a change to itself
\* (command_handler, property_update_handler).
WrongOnlyForAReason ==
  \A f \in Fields : store[f] \notin {Unknown, unit[f]} => UnderWay(f) \/ f \in dirty \cup suspect

\* The store follows field f: the session is in step in the direction of commands,
\* and the store has what the appliance has, or will have when it has executed the
\* write under way.
Follows(f) ==
  /\ matched /\ ~app_slip
  /\ request.is = "response" => request.readable
  /\ request.is = "report" /\ request.name = f => request.value = unit[f]
  /\ store[f] = IF WriteOf(f) THEN request.command.value ELSE unit[f]

\* A report of f that was given up arrives in turn and says something else.
SaysOtherwise(f) ==
  StrayReport /\ \E r \in late : r.name = f /\ r.in_turn /\ r.value # store[f]

\* Whatever users, polls, reports and key exchanges do, a field the store follows
\* it leaves only when its panel is used, a response is lost, a stray fetch takes
\* a command, the keys change, or a report of it that was given up arrives in turn
\* with another value (command_handler stores each write when it takes it,
\* property_update_handler each report it can decrypt).
FollowsUntilLost ==
  [][\A f \in Fields : Follows(f) /\ ~Follows(f)' =>
       \/ ~matched' \/ StrayFetch
       \/ GiveUp /\ request.is = "response"
       \/ \E v \in Values : Panel(f, v)
       \/ SaysOtherwise(f)]_vars

\* Once users are done, nothing is lost any more and the keys match for good, the
\* store ends up right about every property and stays so, whatever was lost
\* before: a read that was taken and lost is queued again by the next poll, and
\* both streams find back into step (_query_status_device, queue_status, the CBC
\* streams of config.py).
StoreConverges == <>[][~Disturbance]_vars /\ <>[]matched => <>[](store = unit)
=============================================================================
