---------------------------- MODULE NotifierProofs ----------------------------
(***************************************************************************)
(* Proofs of Notifier's safety properties for any devices, any number of   *)
(* waiting commands and any times with Handle <= KeepAlive.                *)
(***************************************************************************)
EXTENDS Notifier, TLAPS

\* A loop that never asked has never failed, and nobody waits for it.
Unstarted(d) ==
  phase[d] = "start" => elapsed[d] = LongAgo /\ failures[d] = 0 /\ asked[d] = 0

\* What is left of the backoff and what has passed make up the whole of it.
BackoffKept(d) ==
  failures[d] > 0 => elapsed[d] + backoff[d] >= BackoffAfter(failures[d])

\* WaitCoversNextRequest and RegistrationRenewed of one device.
WaitCovers(d) ==
  phase[d] = "wait" /\ notification[d] = FALSE => timer[d] <= Larger(Handle, NextRequest(d))
Renewed(d) ==
  phase[d] = "wait" /\ failures[d] = 0 => elapsed[d] + timer[d] <= KeepAlive + Handle

\* How long a reconnect can have waited: the rest of the request it was asked in,
\* and since the answer at most two handling times, of which a wakeup that comes
\* too early makes the loop wait the second.
Prompt(d) ==
  /\ asked[d] < RequestTimeout + 2 * Handle
  /\ reconnect[d] = FALSE => asked[d] = 0
  /\ phase[d] = "request" => asked[d] + timer[d] <= RequestTimeout
  /\ running = TRUE => phase[d] # "done"
  /\ phase[d] = "wait" => asked[d] <= RequestTimeout + elapsed[d]
  /\ phase[d] = "wait" /\ reconnect[d] = TRUE /\ notification[d] = FALSE =>
       elapsed[d] + timer[d] < 2 * Handle

DeviceInv(d) ==
  Unstarted(d) /\ BackoffKept(d) /\ WaitCovers(d) /\ Renewed(d) /\ Prompt(d)

IInv == TypeOK /\ \A d \in Devices : DeviceInv(d)

-----------------------------------------------------------------------------
(* The times.                                                              *)

\* The backoff is positive and capped.
LEMMA BackoffRange ==
  ASSUME NEW n \in 1..MaxFailures
  PROVE  BackoffAfter(n) \in 1..MaxBackoff
<1>1. n = 1 \/ n = 2 \/ n = 3 \/ n = 4
  BY DEF MaxFailures
<1>2. MaxBackoff \in Nat \ {0}
  BY TimesAssumption
<1> QED
  BY <1>1, <1>2 DEF BackoffAfter, Smaller

\* The cut-off of elapsed lies beyond every time it is compared with.
LEMMA Times ==
  /\ KeepAlive \in Nat \ {0} /\ RequestTimeout \in Nat \ {0}
  /\ Handle \in Nat \ {0} /\ MaxBackoff \in Nat \ {0}
  /\ Handle <= KeepAlive
  /\ LongAgo \in Nat /\ LongAgo > KeepAlive + 2 * Handle /\ LongAgo > MaxBackoff + 2 * Handle
  /\ AskedBound = RequestTimeout + 2 * Handle
  BY TimesAssumption DEF LongAgo, AskedBound, Larger

\* What the loop computes with.
Known(d) ==
  /\ reconnect[d] \in BOOLEAN /\ available[d] \in BOOLEAN
  /\ elapsed[d] \in Nat /\ failures[d] \in Nat /\ backoff[d] \in Nat

LEMMA KnownTypes ==
  ASSUME TypeOK, NEW d \in Devices
  PROVE  Known(d)
  BY Times DEF TypeOK, MaxFailures, Known

\* NextRequest in each case it distinguishes.
LEMMA NextRequestCases ==
  ASSUME NEW d, Known(d)
  PROVE  /\ NextRequest(d) \in Int
         /\ reconnect[d] = TRUE => NextRequest(d) = Handle - elapsed[d]
         /\ reconnect[d] = FALSE /\ failures[d] > 0 => NextRequest(d) = backoff[d]
         /\ reconnect[d] = FALSE /\ failures[d] = 0 =>
              \/ NextRequest(d) = Handle - elapsed[d]
              \/ NextRequest(d) = KeepAlive - elapsed[d]
  BY Times DEF NextRequest, Known

\* The same after a step.
LEMMA NextRequestCasesAfter ==
  ASSUME NEW d, Known(d)'
  PROVE  /\ NextRequest(d)' \in Int
         /\ reconnect'[d] = TRUE => NextRequest(d)' = Handle - elapsed'[d]
         /\ reconnect'[d] = FALSE /\ failures'[d] > 0 => NextRequest(d)' = backoff'[d]
         /\ reconnect'[d] = FALSE /\ failures'[d] = 0 =>
              \/ NextRequest(d)' = Handle - elapsed'[d]
              \/ NextRequest(d)' = KeepAlive - elapsed'[d]
  BY Times DEF NextRequest, Known

-----------------------------------------------------------------------------
(* The steps of one device leave the others alone.                         *)

Same(e) ==
  /\ phase'[e] = phase[e] /\ timer'[e] = timer[e] /\ method'[e] = method[e]
  /\ elapsed'[e] = elapsed[e] /\ failures'[e] = failures[e] /\ backoff'[e] = backoff[e]
  /\ reconnect'[e] = reconnect[e] /\ notification'[e] = notification[e]
  /\ available'[e] = available[e] /\ writes'[e] = writes[e] /\ reads'[e] = reads[e]
  /\ asked'[e] = asked[e]

LEMMA SameInv ==
  ASSUME NEW e \in Devices, DeviceInv(e), Same(e), running' = running
  PROVE  DeviceInv(e)'
<1>1. NextRequest(e)' = NextRequest(e)
  BY DEF Same, NextRequest, Waiting
<1>2. Unstarted(e)' /\ BackoffKept(e)'
  BY DEF DeviceInv, Same, Unstarted, BackoffKept
<1>3. WaitCovers(e)' /\ Renewed(e)'
  BY <1>1 DEF DeviceInv, Same, WaitCovers, Renewed
<1>4. Prompt(e)'
  BY DEF DeviceInv, Same, Prompt
<1> QED
  BY <1>2, <1>3, <1>4 DEF DeviceInv

-----------------------------------------------------------------------------
(* The loop.                                                               *)

\* A wait is long enough to reach the next request, and no longer.
LEMMA WaitStep ==
  ASSUME TypeOK, NEW d \in Devices, Known(d)', WaitNext(d)
  PROVE  /\ timer' \in [Devices -> Nat] /\ phase'[d] = "wait"
         /\ phase' \in [Devices -> {"start", "request", "wait", "done"}]
         /\ timer'[d] = Larger(Handle, NextRequest(d)')
         /\ \A e \in Devices \ {d} : phase'[e] = phase[e] /\ timer'[e] = timer[e]
<1>1. NextRequest(d)' \in Int
  BY NextRequestCasesAfter
<1> DEFINE t == Larger(Handle, NextRequest(d)')
<1>2. t \in Nat
  BY <1>1, Times DEF Larger
<1>3. timer' = [timer EXCEPT ![d] = t] /\ phase' = [phase EXCEPT ![d] = "wait"]
  BY DEF WaitNext
<1> HIDE DEF t
<1>4. timer' \in [Devices -> Nat] /\ timer'[d] = t
  BY <1>2, <1>3 DEF TypeOK
<1> QED
  BY <1>3, <1>4 DEF TypeOK, t

\* An iteration that finds no request due has not failed since, or waits out a
\* backoff; it never is the first.
LEMMA SkipStep ==
  ASSUME TypeOK, NEW d \in Devices, DeviceInv(d), Skip(d)
  PROVE  TypeOK' /\ DeviceInv(d)' /\ \A e \in Devices \ {d} : Same(e)
<1>1. /\ Ready(d) /\ NextRequest(d) > 0 /\ WaitNext(d)
      /\ notification' = [notification EXCEPT ![d] = FALSE]
      /\ UNCHANGED <<running, method, elapsed, failures, backoff, reconnect, available,
                     writes, reads, answering, asked>>
  BY DEF Skip
<1>2. Known(d) /\ Known(d)'
  BY <1>1, KnownTypes DEF Known
<1>3. /\ timer' \in [Devices -> Nat] /\ phase'[d] = "wait"
      /\ phase' \in [Devices -> {"start", "request", "wait", "done"}]
      /\ timer'[d] = Larger(Handle, NextRequest(d)')
      /\ \A e \in Devices \ {d} : phase'[e] = phase[e] /\ timer'[e] = timer[e]
  BY <1>1, <1>2, WaitStep
<1>4. /\ notification' \in [Devices -> BOOLEAN] /\ notification'[d] = FALSE
      /\ \A e \in Devices \ {d} : notification'[e] = notification[e]
  BY <1>1 DEF TypeOK
<1>5. TypeOK'
  BY <1>1, <1>3, <1>4 DEF TypeOK
<1>6. \A e \in Devices \ {d} : Same(e)
  BY <1>1, <1>3, <1>4 DEF Same
<1>7. NextRequest(d)' = NextRequest(d)
  BY <1>1 DEF NextRequest, Waiting
<1>8. /\ NextRequest(d) \in Int /\ elapsed[d] \in Nat /\ failures[d] \in Nat
      /\ reconnect[d] = TRUE => NextRequest(d) = Handle - elapsed[d]
      /\ reconnect[d] = FALSE /\ failures[d] = 0 =>
           \/ NextRequest(d) = Handle - elapsed[d]
           \/ NextRequest(d) = KeepAlive - elapsed[d]
      /\ reconnect[d] = TRUE \/ reconnect[d] = FALSE
  BY <1>2, NextRequestCases DEF Known
<1>9. phase[d] = "wait"
  <2>1. elapsed[d] < LongAgo \/ failures[d] # 0
    BY <1>1, <1>8, Times
  <2>2. phase[d] \in {"start", "wait"}
    BY <1>1 DEF Ready
  <2>3. ~(elapsed[d] = LongAgo /\ failures[d] = 0)
    BY <2>1, <1>8, Times
  <2> QED
    BY <2>2, <2>3 DEF DeviceInv, Unstarted
<1>10. elapsed'[d] = elapsed[d] /\ failures'[d] = failures[d] /\ backoff'[d] = backoff[d]
       /\ reconnect'[d] = reconnect[d] /\ asked'[d] = asked[d] /\ running' = running
  BY <1>1
<1>11. timer'[d] = Larger(Handle, NextRequest(d)) /\ timer'[d] \in Nat
  BY <1>3, <1>7
<1>12. Unstarted(d)' /\ BackoffKept(d)' /\ WaitCovers(d)'
  BY <1>3, <1>10 DEF DeviceInv, Unstarted, BackoffKept, WaitCovers
<1>13. Renewed(d)'
  <2>1. failures[d] = 0 => elapsed[d] + timer'[d] <= KeepAlive + Handle
    BY <1>1, <1>8, <1>11, Times DEF Larger
  <2> QED
    BY <2>1, <1>10 DEF Renewed
<1>14. Prompt(d)'
  <2>1. reconnect[d] = TRUE => elapsed[d] + timer'[d] < 2 * Handle
    BY <1>1, <1>8, <1>11, Times DEF Larger
  <2> QED
    BY <2>1, <1>3, <1>4, <1>9, <1>10 DEF DeviceInv, Prompt
<1> QED
  BY <1>5, <1>6, <1>12, <1>13, <1>14 DEF DeviceInv

\* A request leaves the loop.
LEMMA SendStep ==
  ASSUME TypeOK, NEW d \in Devices, DeviceInv(d), Send(d)
  PROVE  TypeOK' /\ DeviceInv(d)' /\ \A e \in Devices \ {d} : Same(e)
<1>1. /\ notification' \in [Devices -> BOOLEAN] /\ notification'[d] = FALSE
      /\ reconnect' \in [Devices -> BOOLEAN] /\ reconnect'[d] = FALSE
      /\ asked' \in [Devices -> 0..AskedBound] /\ asked'[d] = 0
      /\ method' \in [Devices -> {"PUT", "POST"}]
      /\ phase' \in [Devices -> {"start", "request", "wait", "done"}] /\ phase'[d] = "request"
      /\ timer' \in [Devices -> Nat] /\ timer'[d] = RequestTimeout
  BY Times DEF Send, TypeOK
<1>2. \A e \in Devices \ {d} : Same(e)
  BY DEF Send, TypeOK, Same
<1>3. TypeOK'
  BY <1>1 DEF Send, TypeOK
<1>4. elapsed'[d] = elapsed[d] /\ failures'[d] = failures[d] /\ backoff'[d] = backoff[d]
  BY DEF Send
<1>5. Unstarted(d)' /\ BackoffKept(d)' /\ WaitCovers(d)' /\ Renewed(d)'
  BY <1>1, <1>4 DEF DeviceInv, Unstarted, BackoffKept, WaitCovers, Renewed
<1>6. Prompt(d)'
  BY <1>1, Times DEF Prompt
<1> QED
  BY <1>2, <1>3, <1>5, <1>6 DEF DeviceInv

\* After an answer of any kind the loop waits, a reconnect asked meanwhile for one
\* handling time.
LEMMA AnswerStep ==
  ASSUME TypeOK, NEW d \in Devices, DeviceInv(d), phase[d] = "request", WaitNext(d),
         Known(d)', elapsed'[d] = 0, running' = running,
         reconnect'[d] = reconnect[d], asked'[d] = asked[d],
         failures'[d] = 0 \/ (failures'[d] \in 1..MaxFailures
                              /\ backoff'[d] = BackoffAfter(failures'[d]))
  PROVE  DeviceInv(d)'
<1>1. /\ phase'[d] = "wait" /\ timer'[d] \in Nat
      /\ timer'[d] = Larger(Handle, NextRequest(d)')
  BY WaitStep
<1>2. Unstarted(d)' /\ WaitCovers(d)'
  BY <1>1 DEF Unstarted, WaitCovers
<1>3. BackoffKept(d)'
  BY BackoffRange, Times DEF BackoffKept
<1>4. /\ NextRequest(d)' \in Int
      /\ reconnect'[d] = TRUE => NextRequest(d)' = Handle
      /\ failures'[d] = 0 => NextRequest(d)' = Handle \/ NextRequest(d)' = KeepAlive
  <2>1. reconnect'[d] = TRUE \/ reconnect'[d] = FALSE
    BY DEF Known
  <2>2. /\ NextRequest(d)' \in Int
        /\ reconnect'[d] = TRUE => NextRequest(d)' = Handle - 0
        /\ reconnect'[d] = FALSE /\ failures'[d] = 0 =>
             NextRequest(d)' = Handle - 0 \/ NextRequest(d)' = KeepAlive - 0
    BY NextRequestCasesAfter
  <2> QED
    BY <2>1, <2>2, Times
<1>5. Renewed(d)'
  <2>1. failures'[d] = 0 => elapsed'[d] + timer'[d] <= KeepAlive + Handle
    BY <1>1, <1>4, Times DEF Larger
  <2> QED
    BY <2>1 DEF Renewed
<1>6. Prompt(d)'
  <2>1. asked[d] \in Nat /\ timer[d] \in Nat
    BY Times DEF TypeOK
  <2>2. asked'[d] <= RequestTimeout + elapsed'[d] /\ asked'[d] < RequestTimeout + 2 * Handle
    BY <2>1, Times DEF DeviceInv, Prompt
  <2>3. reconnect'[d] = TRUE => elapsed'[d] + timer'[d] < 2 * Handle
    BY <1>1, <1>4, Times DEF Larger
  <2> QED
    BY <1>1, <2>2, <2>3 DEF DeviceInv, Prompt
<1> QED
  BY <1>2, <1>3, <1>5, <1>6 DEF DeviceInv

\* queue_status wakes the loop whenever it changes what waits in the queue.
LEMMA StatusStep ==
  ASSUME TypeOK, NEW d \in Devices, QueueStatus(d)
  PROVE  /\ reads' \in [Devices -> 0..StatusReads] /\ notification' \in [Devices -> BOOLEAN]
         /\ notification'[d] = FALSE => notification[d] = FALSE /\ reads'[d] = reads[d]
         /\ \A e \in Devices \ {d} : reads'[e] = reads[e] /\ notification'[e] = notification[e]
<1> DEFINE more == reads[d] < StatusReads
<1>1. /\ reads' = [reads EXCEPT ![d] = StatusReads]
      /\ notification' = [notification EXCEPT ![d] = notification[d] \/ more]
  BY DEF QueueStatus
<1>2. StatusReads \in Nat /\ reads[d] \in 0..StatusReads
  BY SizesAssumption DEF TypeOK
<1>3. ~more => reads[d] = StatusReads
  BY <1>2
<1>4. reads' \in [Devices -> 0..StatusReads] /\ reads'[d] = StatusReads
  BY <1>1, <1>2 DEF TypeOK
<1>5. \A e \in Devices \ {d} : reads'[e] = reads[e]
  BY <1>1, <1>2 DEF TypeOK
<1> HIDE DEF more
<1>6. /\ notification' \in [Devices -> BOOLEAN]
      /\ notification'[d] = (notification[d] \/ more)
      /\ \A e \in Devices \ {d} : notification'[e] = notification[e]
  BY <1>1 DEF TypeOK
<1>7. notification'[d] = FALSE => notification[d] = FALSE /\ ~more
  <2>1. notification[d] \in BOOLEAN
    BY DEF TypeOK
  <2> QED
    BY <2>1, <1>6
<1> QED
  BY <1>3, <1>4, <1>5, <1>6, <1>7

\* The appliance accepted.
LEMMA AcceptedStep ==
  ASSUME TypeOK, NEW d \in Devices, DeviceInv(d), Accepted(d)
  PROVE  TypeOK' /\ DeviceInv(d)' /\ \A e \in Devices \ {d} : Same(e)
<1>1. /\ phase[d] = "request" /\ WaitNext(d)
      /\ elapsed' = [elapsed EXCEPT ![d] = 0]
      /\ failures' = [failures EXCEPT ![d] = 0]
      /\ backoff' = [backoff EXCEPT ![d] = 0]
      /\ available' = [available EXCEPT ![d] = TRUE]
      /\ UNCHANGED <<running, method, reconnect, writes, answering, asked>>
  BY DEF Accepted
<1>2. /\ reads' \in [Devices -> 0..StatusReads] /\ notification' \in [Devices -> BOOLEAN]
      /\ \A e \in Devices \ {d} : reads'[e] = reads[e] /\ notification'[e] = notification[e]
  <2>1. CASE QueueStatus(d)
    BY <2>1, StatusStep
  <2>2. CASE UNCHANGED <<reads, notification>>
    BY <2>2 DEF TypeOK
  <2> QED
    BY <2>1, <2>2 DEF Accepted
<1>3. /\ elapsed' \in [Devices -> 0..LongAgo] /\ elapsed'[d] = 0
      /\ failures' \in [Devices -> 0..MaxFailures] /\ failures'[d] = 0
      /\ backoff' \in [Devices -> 0..MaxBackoff] /\ backoff'[d] = 0
  BY <1>1, Times DEF TypeOK, MaxFailures
<1>4. available' \in [Devices -> BOOLEAN] /\ available'[d] = TRUE /\ reconnect[d] \in BOOLEAN
  BY <1>1 DEF TypeOK
<1>5. \A e \in Devices \ {d} : /\ elapsed'[e] = elapsed[e] /\ failures'[e] = failures[e]
                               /\ backoff'[e] = backoff[e] /\ available'[e] = available[e]
  BY <1>1 DEF TypeOK
<1>6. Known(d)'
  BY <1>1, <1>3, <1>4 DEF Known
<1>7. /\ timer' \in [Devices -> Nat]
      /\ phase' \in [Devices -> {"start", "request", "wait", "done"}]
      /\ \A e \in Devices \ {d} : phase'[e] = phase[e] /\ timer'[e] = timer[e]
  BY <1>1, <1>6, WaitStep
<1>8. TypeOK'
  BY <1>1, <1>2, <1>3, <1>4, <1>7 DEF TypeOK
<1>9. \A e \in Devices \ {d} : Same(e)
  BY <1>1, <1>2, <1>5, <1>7 DEF Same
<1>10. DeviceInv(d)'
  BY <1>1, <1>3, <1>6, AnswerStep
<1> QED
  BY <1>8, <1>9, <1>10

\* It did not.
LEMMA FailedStep ==
  ASSUME TypeOK, NEW d \in Devices, DeviceInv(d), Failed(d)
  PROVE  TypeOK' /\ DeviceInv(d)' /\ \A e \in Devices \ {d} : Same(e)
<1> DEFINE n == Smaller(failures[d] + 1, MaxFailures)
           stays == available[d] /\ failures'[d] < 3
<1>1. /\ phase[d] = "request" /\ WaitNext(d)
      /\ elapsed' = [elapsed EXCEPT ![d] = 0]
      /\ failures' = [failures EXCEPT ![d] = n]
      /\ backoff' = [backoff EXCEPT ![d] = BackoffAfter(failures'[d])]
      /\ available' = [available EXCEPT ![d] = stays]
      /\ UNCHANGED <<running, method, reconnect, notification, writes, reads, answering, asked>>
  BY DEF Failed
<1>2. failures[d] \in 0..MaxFailures
  BY DEF TypeOK
<1>3. n \in 1..MaxFailures
  BY <1>2 DEF Smaller, MaxFailures
<1>4. available[d] \in BOOLEAN /\ stays \in BOOLEAN
  BY DEF TypeOK
<1> HIDE DEF n, stays
<1>5. failures' \in [Devices -> 0..MaxFailures] /\ failures'[d] = n
  BY <1>1, <1>3 DEF TypeOK, MaxFailures
<1>6. BackoffAfter(n) \in 1..MaxBackoff
  BY <1>3, BackoffRange
<1>7. /\ elapsed' \in [Devices -> 0..LongAgo] /\ elapsed'[d] = 0
      /\ backoff' \in [Devices -> 0..MaxBackoff] /\ backoff'[d] = BackoffAfter(n)
  BY <1>1, <1>5, <1>6, Times DEF TypeOK
<1>8. available' \in [Devices -> BOOLEAN] /\ available'[d] = stays /\ reconnect[d] \in BOOLEAN
  BY <1>1, <1>4 DEF TypeOK
<1>9. \A e \in Devices \ {d} : /\ elapsed'[e] = elapsed[e] /\ failures'[e] = failures[e]
                               /\ backoff'[e] = backoff[e] /\ available'[e] = available[e]
  BY <1>1 DEF TypeOK
<1>10. elapsed'[d] \in Nat /\ failures'[d] \in Nat /\ backoff'[d] \in Nat
  BY <1>3, <1>5, <1>6, <1>7, Times DEF MaxFailures
<1>11. Known(d)'
  BY <1>1, <1>4, <1>8, <1>10 DEF Known
<1>12. /\ timer' \in [Devices -> Nat]
       /\ phase' \in [Devices -> {"start", "request", "wait", "done"}]
       /\ \A e \in Devices \ {d} : phase'[e] = phase[e] /\ timer'[e] = timer[e]
  BY <1>1, <1>11, WaitStep
<1>13. TypeOK'
  BY <1>1, <1>5, <1>7, <1>8, <1>12 DEF TypeOK
<1>14. \A e \in Devices \ {d} : Same(e)
  BY <1>1, <1>9, <1>12 DEF Same
<1>15. DeviceInv(d)'
  BY <1>1, <1>3, <1>5, <1>7, <1>11, AnswerStep
<1> QED
  BY <1>13, <1>14, <1>15

-----------------------------------------------------------------------------
(* Calls from other tasks.                                                 *)

\* What wakes the loop leaves the rest of it as it is.
LEMMA WokenInv ==
  ASSUME NEW d \in Devices, DeviceInv(d), notification'[d] = TRUE,
         phase'[d] = phase[d], timer'[d] = timer[d], elapsed'[d] = elapsed[d],
         failures'[d] = failures[d], backoff'[d] = backoff[d], asked'[d] = asked[d],
         running' = running, reconnect'[d] = reconnect[d] \/ reconnect'[d] = TRUE
  PROVE  DeviceInv(d)'
<1>1. Unstarted(d)' /\ BackoffKept(d)'
  BY DEF DeviceInv, Unstarted, BackoffKept
<1>2. WaitCovers(d)' /\ Renewed(d)'
  BY DEF DeviceInv, WaitCovers, Renewed
<1>3. Prompt(d)'
  BY DEF DeviceInv, Prompt
<1> QED
  BY <1>1, <1>2, <1>3 DEF DeviceInv

LEMMA QueueCommandStep ==
  ASSUME TypeOK, NEW d \in Devices, DeviceInv(d), QueueCommand(d)
  PROVE  TypeOK' /\ DeviceInv(d)' /\ \A e \in Devices \ {d} : Same(e)
<1>1. /\ writes[d] < MaxWrites /\ writes' = [writes EXCEPT ![d] = writes[d] + 1]
      /\ notification' = [notification EXCEPT ![d] = TRUE]
      /\ UNCHANGED <<running, loopVars, reconnect, reads, answering, asked>>
  BY DEF QueueCommand
<1>2. writes[d] \in Nat /\ MaxWrites \in Nat
  BY SizesAssumption DEF TypeOK
<1>3. writes' \in [Devices -> 0..MaxWrites]
  BY <1>1, <1>2 DEF TypeOK
<1>4. notification' \in [Devices -> BOOLEAN] /\ notification'[d] = TRUE
  BY <1>1 DEF TypeOK
<1>5. \A e \in Devices \ {d} : writes'[e] = writes[e] /\ notification'[e] = notification[e]
  BY <1>1 DEF TypeOK
<1>6. TypeOK'
  BY <1>1, <1>3, <1>4 DEF TypeOK, loopVars
<1>7. \A e \in Devices \ {d} : Same(e)
  BY <1>1, <1>5 DEF Same, loopVars
<1>8. DeviceInv(d)'
  BY <1>1, <1>4, WokenInv DEF loopVars
<1> QED
  BY <1>6, <1>7, <1>8

LEMMA ReconnectStep ==
  ASSUME TypeOK, NEW d \in Devices, DeviceInv(d), Reconnect(d)
  PROVE  TypeOK' /\ DeviceInv(d)' /\ \A e \in Devices \ {d} : Same(e)
<1>1. /\ reconnect' = [reconnect EXCEPT ![d] = TRUE]
      /\ notification' = [notification EXCEPT ![d] = TRUE]
      /\ UNCHANGED <<running, loopVars, writes, reads, answering, asked>>
  BY DEF Reconnect
<1>2. /\ notification' \in [Devices -> BOOLEAN] /\ notification'[d] = TRUE
      /\ reconnect' \in [Devices -> BOOLEAN] /\ reconnect'[d] = TRUE
      /\ \A e \in Devices \ {d} : /\ notification'[e] = notification[e]
                                  /\ reconnect'[e] = reconnect[e]
  BY <1>1 DEF TypeOK
<1>3. TypeOK'
  BY <1>1, <1>2 DEF TypeOK, loopVars
<1>4. \A e \in Devices \ {d} : Same(e)
  BY <1>1, <1>2 DEF Same, loopVars
<1>5. DeviceInv(d)'
  BY <1>1, <1>2, WokenInv DEF loopVars
<1> QED
  BY <1>3, <1>4, <1>5

LEMMA RefreshStep ==
  ASSUME TypeOK, NEW d \in Devices, DeviceInv(d), Refresh(d)
  PROVE  TypeOK' /\ DeviceInv(d)' /\ \A e \in Devices \ {d} : Same(e)
<1>1. QueueStatus(d) /\ UNCHANGED <<running, loopVars, reconnect, writes, answering, asked>>
  BY DEF Refresh
<1>2. /\ reads' \in [Devices -> 0..StatusReads] /\ notification' \in [Devices -> BOOLEAN]
      /\ notification'[d] = FALSE => notification[d] = FALSE /\ reads'[d] = reads[d]
      /\ \A e \in Devices \ {d} : reads'[e] = reads[e] /\ notification'[e] = notification[e]
  BY <1>1, StatusStep
<1>3. TypeOK'
  BY <1>1, <1>2 DEF TypeOK, loopVars
<1>4. \A e \in Devices \ {d} : Same(e)
  BY <1>1, <1>2 DEF Same, loopVars
<1>5. DeviceInv(d)'
  <2>1. CASE notification'[d] = TRUE
    BY <1>1, <2>1, WokenInv DEF loopVars
  <2>2. CASE notification'[d] = FALSE
    BY <1>1, <1>2, <2>2, SameInv DEF loopVars, Same
  <2> QED
    BY <1>2, <2>1, <2>2
<1> QED
  BY <1>3, <1>4, <1>5

\* A fetched command can only put off the next request.
LEMMA FetchStep ==
  ASSUME TypeOK, NEW d \in Devices, DeviceInv(d), Fetch(d)
  PROVE  TypeOK' /\ DeviceInv(d)' /\ \A e \in Devices \ {d} : Same(e)
<1>1. UNCHANGED <<running, loopVars, reconnect, notification, answering, asked>>
  BY DEF Fetch
<1>2. writes[d] \in 0..MaxWrites /\ reads[d] \in 0..StatusReads
  BY DEF TypeOK
<1>3. /\ writes' \in [Devices -> 0..MaxWrites] /\ reads' \in [Devices -> 0..StatusReads]
      /\ writes'[d] + reads'[d] < writes[d] + reads[d]
      /\ \A e \in Devices \ {d} : writes'[e] = writes[e] /\ reads'[e] = reads[e]
  <2>1. CASE writes[d] > 0 /\ writes' = [writes EXCEPT ![d] = writes[d] - 1] /\ UNCHANGED reads
    BY <1>2, <2>1, SizesAssumption DEF TypeOK
  <2>2. CASE reads[d] > 0 /\ reads' = [reads EXCEPT ![d] = reads[d] - 1] /\ UNCHANGED writes
    BY <1>2, <2>2, SizesAssumption DEF TypeOK
  <2> QED
    BY <2>1, <2>2 DEF Fetch
<1>4. TypeOK'
  BY <1>1, <1>3 DEF TypeOK, loopVars
<1>5. \A e \in Devices \ {d} : Same(e)
  BY <1>1, <1>3 DEF Same, loopVars
<1>6. NextRequest(d) <= NextRequest(d)' /\ NextRequest(d) \in Int /\ NextRequest(d)' \in Int
  <2>1. Known(d) /\ Known(d)'
    BY <1>1, KnownTypes DEF Known, loopVars
  <2>2. NextRequest(d) \in Int /\ NextRequest(d)' \in Int
    BY <2>1, NextRequestCases, NextRequestCasesAfter
  <2>3. Waiting(d)' => Waiting(d)
    <3>1. {writes[d], reads[d], writes'[d], reads'[d]} \subseteq Nat
      BY <1>2, <1>3, SizesAssumption
    <3> QED
      BY <1>3, <3>1 DEF Waiting
  <2>4. /\ reconnect'[d] = reconnect[d] /\ failures'[d] = failures[d]
        /\ backoff'[d] = backoff[d] /\ elapsed'[d] = elapsed[d] /\ available'[d] = available[d]
    BY <1>1 DEF loopVars
  <2> HIDE DEF Waiting
  <2>5. \/ NextRequest(d)' = NextRequest(d)
        \/ NextRequest(d) = Handle - elapsed[d] /\ NextRequest(d)' = KeepAlive - elapsed[d]
    BY <2>3, <2>4 DEF NextRequest
  <2> QED
    BY <2>1, <2>2, <2>5, Times DEF Known
<1>7. WaitCovers(d)'
  <2>1. timer[d] \in Nat
    BY DEF TypeOK
  <2>2. Larger(Handle, NextRequest(d)) <= Larger(Handle, NextRequest(d)')
    BY <1>6, Times DEF Larger
  <2>3. Larger(Handle, NextRequest(d)) \in Int /\ Larger(Handle, NextRequest(d)') \in Int
    BY <1>6, Times DEF Larger
  <2>4. phase[d] = "wait" /\ notification[d] = FALSE =>
          timer[d] <= Larger(Handle, NextRequest(d)')
    BY <2>1, <2>2, <2>3 DEF DeviceInv, WaitCovers
  <2> QED
    BY <1>1, <2>4 DEF WaitCovers, loopVars
<1>8. Unstarted(d)' /\ BackoffKept(d)' /\ Renewed(d)' /\ Prompt(d)'
  BY <1>1 DEF DeviceInv, Unstarted, BackoffKept, Renewed, Prompt, loopVars
<1> QED
  BY <1>4, <1>5, <1>7, <1>8 DEF DeviceInv

-----------------------------------------------------------------------------
(* The clock.                                                              *)

\* What a tick does to the times of a device, all of them still running.
LEMMA TickTimes ==
  ASSUME TypeOK, NEW d \in Devices, Tick
  PROVE  /\ timer'[d] = Larger(0, timer[d] - 1)
         /\ elapsed'[d] = Smaller(elapsed[d] + 1, LongAgo)
         /\ backoff'[d] = Larger(0, backoff[d] - 1)
         /\ asked'[d] = 0 \/ (running = TRUE /\ reconnect[d] = TRUE
                              /\ asked'[d] = Smaller(asked[d] + 1, AskedBound))
         /\ timer[d] \in Nat /\ elapsed[d] \in 0..LongAgo /\ backoff[d] \in 0..MaxBackoff
         /\ asked[d] \in 0..AskedBound
         /\ phase[d] # "start" /\ (phase[d] = "request" => timer[d] > 0)
         /\ phase[d] = "wait" => notification[d] = FALSE /\ timer[d] > 0
<1>1. /\ timer[d] \in Nat /\ elapsed[d] \in 0..LongAgo /\ backoff[d] \in 0..MaxBackoff
      /\ asked[d] \in 0..AskedBound /\ notification[d] \in BOOLEAN
  BY DEF TypeOK
<1>2. ~Ready(d) /\ (phase[d] = "request" => timer[d] > 0)
  BY DEF Tick
<1>3. phase[d] # "start" /\ (phase[d] = "wait" => notification[d] = FALSE /\ timer[d] # 0)
  BY <1>1, <1>2 DEF Ready
<1>4. asked'[d] = (IF running /\ reconnect[d] THEN Smaller(asked[d] + 1, AskedBound) ELSE 0)
  BY DEF Tick
<1>5. asked'[d] = 0 \/ (running = TRUE /\ reconnect[d] = TRUE
                        /\ asked'[d] = Smaller(asked[d] + 1, AskedBound))
  <2>1. running \in BOOLEAN /\ reconnect[d] \in BOOLEAN
    BY DEF TypeOK
  <2> QED
    BY <2>1, <1>4
<1>6. /\ timer'[d] = Larger(0, timer[d] - 1)
      /\ elapsed'[d] = Smaller(elapsed[d] + 1, LongAgo)
      /\ backoff'[d] = Larger(0, backoff[d] - 1)
  BY DEF Tick
<1>7. timer[d] # 0 => timer[d] > 0
  BY <1>1
<1> QED
  BY <1>1, <1>2, <1>3, <1>5, <1>6, <1>7

LEMMA TickType ==
  ASSUME TypeOK, Tick
  PROVE  TypeOK'
<1>1. /\ timer' = [d \in Devices |-> timer'[d]] /\ elapsed' = [d \in Devices |-> elapsed'[d]]
      /\ backoff' = [d \in Devices |-> backoff'[d]] /\ asked' = [d \in Devices |-> asked'[d]]
  BY DEF Tick
<1>2. ASSUME NEW d \in Devices
      PROVE  /\ timer'[d] \in Nat /\ elapsed'[d] \in 0..LongAgo
             /\ backoff'[d] \in 0..MaxBackoff /\ asked'[d] \in 0..AskedBound
  <2>1. /\ timer'[d] = Larger(0, timer[d] - 1)
        /\ elapsed'[d] = Smaller(elapsed[d] + 1, LongAgo)
        /\ backoff'[d] = Larger(0, backoff[d] - 1)
        /\ asked'[d] = 0 \/ asked'[d] = Smaller(asked[d] + 1, AskedBound)
        /\ timer[d] \in Nat /\ elapsed[d] \in 0..LongAgo /\ backoff[d] \in 0..MaxBackoff
        /\ asked[d] \in 0..AskedBound
    BY TickTimes
  <2> QED
    BY <2>1, Times DEF Larger, Smaller
<1>3. /\ timer' \in [Devices -> Nat] /\ elapsed' \in [Devices -> 0..LongAgo]
      /\ backoff' \in [Devices -> 0..MaxBackoff] /\ asked' \in [Devices -> 0..AskedBound]
  BY <1>1, <1>2
<1>4. UNCHANGED <<running, phase, method, failures, available, reconnect, notification,
                  writes, reads, answering>>
  BY DEF Tick
<1> QED
  BY <1>3, <1>4 DEF TypeOK

LEMMA TickInv ==
  ASSUME TypeOK, NEW d \in Devices, DeviceInv(d), Tick
  PROVE  DeviceInv(d)'
<1>1. UNCHANGED <<running, phase, method, failures, available, reconnect, notification,
                  writes, reads, answering>>
  BY DEF Tick
<1>2. /\ timer'[d] = Larger(0, timer[d] - 1)
      /\ elapsed'[d] = Smaller(elapsed[d] + 1, LongAgo)
      /\ backoff'[d] = Larger(0, backoff[d] - 1)
      /\ asked'[d] = 0 \/ (running = TRUE /\ reconnect[d] = TRUE
                           /\ asked'[d] = Smaller(asked[d] + 1, AskedBound))
      /\ timer[d] \in Nat /\ elapsed[d] \in 0..LongAgo /\ backoff[d] \in 0..MaxBackoff
      /\ asked[d] \in 0..AskedBound
      /\ phase[d] # "start" /\ (phase[d] = "request" => timer[d] > 0)
      /\ phase[d] = "wait" => notification[d] = FALSE /\ timer[d] > 0
  BY TickTimes
<1>3. Unstarted(d)'
  BY <1>1, <1>2 DEF Unstarted
<1>4. BackoffKept(d)'
  <2>1. failures[d] > 0 => BackoffAfter(failures[d]) \in 1..MaxBackoff
    <3>1. failures[d] \in 0..MaxFailures
      BY DEF TypeOK
    <3>2. failures[d] > 0 => failures[d] \in 1..MaxFailures
      BY <3>1 DEF MaxFailures
    <3> QED
      BY <3>2, BackoffRange
  <2>2. failures[d] > 0 => elapsed'[d] + backoff'[d] >= BackoffAfter(failures[d])
    BY <1>2, <2>1, Times DEF DeviceInv, BackoffKept, Larger, Smaller
  <2> QED
    BY <1>1, <2>2 DEF BackoffKept
<1>5. Renewed(d)'
  BY <1>1, <1>2, Times DEF DeviceInv, Renewed, Larger, Smaller
<1>6. WaitCovers(d)'
  <2>1. Known(d) /\ Known(d)'
    <3>1. Known(d)
      BY KnownTypes
    <3>2. elapsed'[d] \in Nat /\ backoff'[d] \in Nat
      BY <1>2, Times DEF Larger, Smaller
    <3> QED
      BY <1>1, <3>1, <3>2 DEF Known
  <2>2. NextRequest(d) \in Int /\ NextRequest(d)' \in Int
    BY <2>1, NextRequestCases, NextRequestCasesAfter
  <2>3. Handle - elapsed'[d] >= Handle - elapsed[d] - 1
        /\ KeepAlive - elapsed'[d] >= KeepAlive - elapsed[d] - 1
        /\ backoff'[d] >= backoff[d] - 1
    BY <1>2, Times DEF Larger, Smaller
  <2>4. \/ NextRequest(d) = Handle - elapsed[d] /\ NextRequest(d)' = Handle - elapsed'[d]
        \/ NextRequest(d) = backoff[d] /\ NextRequest(d)' = backoff'[d]
        \/ NextRequest(d) = KeepAlive - elapsed[d] /\ NextRequest(d)' = KeepAlive - elapsed'[d]
    BY <1>1 DEF NextRequest, Waiting
  <2>5. NextRequest(d)' >= NextRequest(d) - 1
    BY <2>3, <2>4
  <2>6. phase[d] = "wait" => timer'[d] <= Larger(Handle, NextRequest(d)')
    <3>1. phase[d] = "wait" => timer[d] <= Larger(Handle, NextRequest(d))
      BY <1>2 DEF DeviceInv, WaitCovers
    <3> QED
      BY <1>2, <2>2, <2>5, <3>1, Times DEF Larger
  <2> QED
    BY <1>1, <2>6 DEF WaitCovers
<1>7. Prompt(d)'
  <2>1. phase[d] = "request" => asked'[d] + timer'[d] <= RequestTimeout
    BY <1>2, Times DEF DeviceInv, Prompt, Larger, Smaller
  <2>2. phase[d] = "wait" /\ reconnect[d] = TRUE => elapsed'[d] + timer'[d] < 2 * Handle
    BY <1>2, Times DEF DeviceInv, Prompt, Larger, Smaller
  <2>3. phase[d] = "wait" => asked'[d] <= RequestTimeout + elapsed'[d]
    BY <1>2, Times DEF DeviceInv, Prompt, Larger, Smaller
  <2>4. timer'[d] \in Nat /\ elapsed'[d] \in Nat /\ asked'[d] \in Nat
    BY <1>2, Times DEF Larger, Smaller
  <2>5. asked'[d] < RequestTimeout + 2 * Handle
    <3>1. CASE asked'[d] = 0
      BY <3>1, Times
    <3>2. CASE running = TRUE /\ reconnect[d] = TRUE
      <4>1. phase[d] \in {"request", "wait"}
        BY <1>2, <3>2 DEF DeviceInv, Prompt, TypeOK
      <4> QED
        BY <2>1, <2>2, <2>3, <2>4, <3>2, <4>1, Times
    <3> QED
      BY <1>2, <3>1, <3>2
  <2> QED
    BY <1>1, <1>2, <2>1, <2>2, <2>3, <2>5 DEF DeviceInv, Prompt
<1> QED
  BY <1>3, <1>4, <1>5, <1>6, <1>7 DEF DeviceInv

-----------------------------------------------------------------------------
\* Every reachable state satisfies the invariant.
LEMMA Invariant == Spec => []IInv
<1>1. Init => IInv
  <2> SUFFICES ASSUME Init PROVE IInv
    OBVIOUS
  <2>1. TypeOK
    BY Times, SizesAssumption DEF Init, TypeOK, MaxFailures
  <2>2. ASSUME NEW d \in Devices PROVE DeviceInv(d)
    <3>1. /\ phase[d] = "start" /\ elapsed[d] = LongAgo /\ failures[d] = 0 /\ asked[d] = 0
          /\ reconnect[d] = FALSE
      BY DEF Init
    <3> QED
      BY <3>1, Times
      DEF DeviceInv, Unstarted, BackoffKept, WaitCovers, Renewed, Prompt
  <2> QED
    BY <2>1, <2>2 DEF IInv
<1>2. IInv /\ [Next]_vars => IInv'
  <2> SUFFICES ASSUME TypeOK, \A e \in Devices : DeviceInv(e), [Next]_vars
               PROVE  TypeOK' /\ \A e \in Devices : DeviceInv(e)'
    BY DEF IInv
  <2>1. ASSUME NEW d \in Devices,
               \/ Skip(d) \/ Send(d) \/ Accepted(d) \/ Failed(d)
               \/ QueueCommand(d) \/ Refresh(d) \/ Fetch(d) \/ Reconnect(d)
        PROVE  TypeOK' /\ \A e \in Devices : DeviceInv(e)'
    <3>1. TypeOK' /\ DeviceInv(d)' /\ \A e \in Devices \ {d} : Same(e)
      BY <2>1, SkipStep, SendStep, AcceptedStep, FailedStep, QueueCommandStep, RefreshStep,
         FetchStep, ReconnectStep
    <3>2. running' = running
      BY <2>1 DEF Skip, Send, Accepted, Failed, QueueCommand, Refresh, Fetch, Reconnect
    <3> QED
      BY <3>1, <3>2, SameInv
  <2>2. ASSUME NEW d \in Devices, Switch(d)
        PROVE  TypeOK' /\ \A e \in Devices : DeviceInv(e)'
    <3>1. UNCHANGED <<running, loopVars, reconnect, notification, writes, reads, asked>>
          /\ answering' \in [Devices -> BOOLEAN]
      BY <2>2 DEF Switch, TypeOK
    <3>2. TypeOK' /\ \A e \in Devices : Same(e)
      BY <3>1 DEF TypeOK, Same, loopVars
    <3> QED
      BY <3>1, <3>2, SameInv
  <2>3. CASE Stop
    <3>1. /\ running' = FALSE /\ notification' = [d \in Devices |-> TRUE]
          /\ phase' = [d \in Devices |-> "done"]
          /\ UNCHANGED <<timer, method, elapsed, failures, backoff, available, reconnect,
                         writes, reads, answering, asked>>
      BY <2>3 DEF Stop
    <3>2. TypeOK'
      BY <3>1 DEF TypeOK
    <3>3. ASSUME NEW e \in Devices PROVE DeviceInv(e)'
      <4>1. phase'[e] = "done"
        BY <3>1
      <4>2. Unstarted(e)' /\ BackoffKept(e)' /\ WaitCovers(e)' /\ Renewed(e)'
        BY <3>1, <4>1 DEF DeviceInv, Unstarted, BackoffKept, WaitCovers, Renewed
      <4>3. Prompt(e)'
        BY <3>1, <4>1 DEF DeviceInv, Prompt
      <4> QED
        BY <4>2, <4>3 DEF DeviceInv
    <3> QED
      BY <3>2, <3>3
  <2>4. CASE Tick
    BY <2>4, TickType, TickInv
  <2>5. CASE UNCHANGED vars
    <3>1. TypeOK' /\ running' = running /\ \A e \in Devices : Same(e)
      BY <2>5 DEF vars, loopVars, TypeOK, Same
    <3> QED
      BY <3>1, SameInv
  <2> QED
    BY <2>1, <2>2, <2>3, <2>4, <2>5 DEF Next
<1> QED
  BY <1>1, <1>2, PTL DEF Spec

\* Types of the loops' state; in particular no backoff exceeds its cap.
THEOREM TypeCorrect == Spec => []TypeOK
<1>1. IInv => TypeOK
  BY DEF IInv
<1> QED
  BY <1>1, Invariant, PTL

\* No wakeup is lost, however commands, fetches and reconnects fall.
THEOREM NoLostWakeup == Spec => []WaitCoversNextRequest
<1>1. IInv => WaitCoversNextRequest
  <2> SUFFICES ASSUME IInv, NEW d \in Devices, phase[d] = "wait", ~notification[d]
               PROVE  timer[d] <= Larger(Handle, NextRequest(d))
    BY DEF WaitCoversNextRequest
  <2>1. notification[d] = FALSE
    BY DEF IInv, TypeOK
  <2> QED
    BY <2>1 DEF IInv, DeviceInv, WaitCovers
<1> QED
  BY <1>1, Invariant, PTL

\* A registration is renewed within the keepalive interval and a handling time.
THEOREM RenewedInTime == Spec => []RegistrationRenewed
<1>1. IInv => RegistrationRenewed
  BY DEF IInv, DeviceInv, Renewed, RegistrationRenewed
<1> QED
  BY <1>1, Invariant, PTL

\* A reconnect is sent within one request timeout and two handling times.
THEOREM ReconnectsPromptly == Spec => []ReconnectPrompt
<1>1. IInv => ReconnectPrompt
  BY DEF IInv, DeviceInv, Prompt, ReconnectPrompt
<1> QED
  BY <1>1, Invariant, PTL

\* Only Send starts a request, and only where the step says so.
LEMMA OnlySend ==
  ASSUME IInv, [Next]_vars, NEW d \in Devices,
         \/ reconnect[d] /\ ~reconnect'[d]
         \/ phase[d] # "request" /\ phase'[d] = "request"
  PROVE  Send(d)
<1> USE DEF IInv
<1>1. ASSUME NEW e \in Devices, Skip(e) PROVE FALSE
  <2>1. phase'[e] = "wait" /\ reconnect' = reconnect /\ \A c \in Devices \ {e} : Same(c)
    BY <1>1, SkipStep DEF Skip, WaitNext, TypeOK
  <2> QED
    BY <2>1 DEF Same
<1>2. ASSUME NEW e \in Devices, Accepted(e) \/ Failed(e) PROVE FALSE
  <2>1. phase'[e] = "wait" /\ reconnect' = reconnect /\ \A c \in Devices \ {e} : Same(c)
    BY <1>2, AcceptedStep, FailedStep DEF Accepted, Failed, WaitNext, TypeOK
  <2> QED
    BY <2>1 DEF Same
<1>3. ASSUME NEW e \in Devices, QueueCommand(e) \/ Refresh(e) \/ Fetch(e) \/ Switch(e)
      PROVE  FALSE
  BY <1>3 DEF QueueCommand, Refresh, Fetch, Switch, loopVars
<1>4. ASSUME NEW e \in Devices, Reconnect(e) PROVE FALSE
  <2>1. phase' = phase /\ reconnect' = [reconnect EXCEPT ![e] = TRUE]
    BY <1>4 DEF Reconnect, loopVars
  <2> QED
    BY <2>1 DEF TypeOK
<1>5. ~Stop
  BY DEF Stop
<1>6. ~Tick
  BY DEF Tick
<1>7. ~UNCHANGED vars
  BY DEF vars, loopVars
<1>8. ASSUME NEW e \in Devices, Send(e), e # d PROVE FALSE
  BY <1>8, SendStep DEF Same
<1> QED
  BY <1>1, <1>2, <1>3, <1>4, <1>5, <1>6, <1>7, <1>8 DEF Next

\* A reconnect is answered by a registration of its own.
THEOREM ReconnectsByPost == Spec => ReconnectPosts
<1>1. IInv /\ [Next]_vars =>
        [\A d \in Devices :
           reconnect[d] /\ ~reconnect'[d] => phase'[d] = "request" /\ method'[d] = "POST"]_vars
  <2> SUFFICES ASSUME IInv, [Next]_vars, NEW d \in Devices, reconnect[d], ~reconnect'[d]
               PROVE  phase'[d] = "request" /\ method'[d] = "POST"
    OBVIOUS
  <2>1. Send(d)
    BY OnlySend
  <2> QED
    BY <2>1 DEF Send, IInv, TypeOK
<1> QED
  BY <1>1, Invariant, PTL DEF Spec, ReconnectPosts

\* Backoffs are waited out, but for a reconnect.
THEOREM BackoffsHonoured == Spec => BackoffHonoured
<1>1. IInv /\ [Next]_vars =>
        [\A d \in Devices :
           phase[d] # "request" /\ phase'[d] = "request" /\ failures[d] > 0 /\ ~reconnect[d]
             => elapsed[d] >= BackoffAfter(failures[d])]_vars
  <2> SUFFICES ASSUME IInv, [Next]_vars, NEW d \in Devices,
                      phase[d] # "request", phase'[d] = "request",
                      failures[d] > 0, ~reconnect[d]
               PROVE  elapsed[d] >= BackoffAfter(failures[d])
    OBVIOUS
  <2>1. Send(d)
    BY OnlySend
  <2>2. reconnect[d] = FALSE /\ Known(d) /\ BackoffKept(d)
    BY KnownTypes DEF IInv, TypeOK, DeviceInv
  <2>3. backoff[d] <= 0
    BY <2>1, <2>2, NextRequestCases DEF Send
  <2>4. failures[d] \in 1..MaxFailures /\ elapsed[d] \in Nat /\ backoff[d] \in Nat
    BY <2>2 DEF Known, IInv, TypeOK, MaxFailures
  <2>5. BackoffAfter(failures[d]) \in Int
    BY <2>4, BackoffRange, Times
  <2> QED
    BY <2>2, <2>3, <2>4, <2>5 DEF BackoffKept
<1> QED
  BY <1>1, Invariant, PTL DEF Spec, BackoffHonoured
=============================================================================
