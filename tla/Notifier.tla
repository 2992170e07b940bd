------------------------------ MODULE Notifier ------------------------------
(***************************************************************************)
(* notifier.py: the registration and keepalive loop of each device.        *)
(*                                                                         *)
(* Between two awaits a loop runs without interruption, so an action is    *)
(* what one loop does from the end of one await to the next: the request   *)
(* in flight, or the wait for its notification event.  Calls from other    *)
(* tasks (queued commands, refresh, reconnect, stop) come in between.      *)
(*                                                                         *)
(* Time passes in Tick, which waits for every loop that is ready to run.   *)
(* The timestamps the code keeps are represented by their distance from    *)
(* now: elapsed is now - last_timestamp (cut off where no comparison can   *)
(* tell larger values apart), backoff is next_attempt - now, or 0.         *)
(***************************************************************************)
EXTENDS Integers

CONSTANTS
  Devices,          \* the registered devices
  KeepAlive,        \* _KEEP_ALIVE_INTERVAL
  RequestTimeout,   \* _REQUEST_TIMEOUT
  Handle,           \* _TIME_TO_HANDLE_REQUESTS
  MaxBackoff,       \* the 10 of min(10, 2 ** ...)
  StatusReads,      \* properties queue_status reads
  MaxWrites         \* bound: user commands waiting (a test bound, any Nat)

ASSUME TimesAssumption ==
  /\ {KeepAlive, RequestTimeout, Handle, MaxBackoff} \subseteq Nat \ {0}
  /\ Handle <= KeepAlive
ASSUME SizesAssumption == StatusReads \in Nat \ {0} /\ MaxWrites \in Nat

VARIABLES
  running,       \* _running
  phase,         \* where each loop is: "start", "request", "wait" or "done"
  timer,         \* time left in the await of phase "request" or "wait"
  method,        \* the method of the last request
  elapsed,       \* time since last_timestamp
  failures,      \* failures in a row; from MaxFailures on they are alike
  backoff,       \* time until next_attempt
  reconnect,     \* the reconnect flag
  notification,  \* the notification event
  available,     \* device.available
  writes,        \* user commands in the device's queue
  reads,         \* status reads in the device's queue
  answering,     \* external: the appliance accepts registrations
  asked          \* history: time since the oldest reconnect not yet requested

loopVars == <<phase, timer, method, elapsed, failures, backoff, available>>
vars == <<running, loopVars, reconnect, notification, writes, reads, answering, asked>>

Smaller(a, b) == IF a < b THEN a ELSE b
Larger(a, b) == IF a > b THEN a ELSE b

MaxFailures == 4
LongAgo == Larger(KeepAlive, MaxBackoff) + 2 * Handle + 1
AskedBound == RequestTimeout + 2 * Handle

\* Mutant: the backoff is not capped.
BackoffUncapped(n) == <<2, 4, 8, 16>>[n]

\* min(10, 2 ** min(failures, 4)) for failures in 1..4.
BackoffAfter(n) == Smaller(MaxBackoff, <<2, 4, 8, 16>>[n])

\* not commands_queue.empty()
Waiting(d) == writes[d] + reads[d] > 0

\* Mutant: the backoff is looked at before the reconnect flag.
NextRequestBacksOff(d) ==
  IF failures[d] > 0 THEN backoff[d]
  ELSE IF reconnect[d] \/ (available[d] /\ Waiting(d)) THEN Handle - elapsed[d]
  ELSE KeepAlive - elapsed[d]

\* _next_request - now: what is left until a request is due (none if <= 0).
\* The last_timestamp 0 of a loop that never asked is LongAgo.
NextRequest(d) ==
  IF reconnect[d] THEN Handle - elapsed[d]
  ELSE IF failures[d] > 0 THEN backoff[d]
  ELSE IF available[d] /\ Waiting(d) THEN Handle - elapsed[d]
  ELSE KeepAlive - elapsed[d]

-----------------------------------------------------------------------------
(* The loop.                                                               *)

\* A loop that has something to run: its first iteration, or its event set or
\* its wait timed out.
Ready(d) ==
  \/ phase[d] = "start"
  \/ phase[d] = "wait" /\ (notification[d] \/ timer[d] = 0)

\* Mutant: every wait lasts a keepalive interval.
WaitKeepAlive(d) ==
  /\ phase' = [phase EXCEPT ![d] = "wait"]
  /\ timer' = [timer EXCEPT ![d] = KeepAlive]

\* The wait that ends an iteration (NextRequest after what it changed).
WaitNext(d) ==
  /\ phase' = [phase EXCEPT ![d] = "wait"]
  /\ timer' = [timer EXCEPT ![d] = Larger(Handle, NextRequest(d)')]

\* An iteration that finds no request due.
Skip(d) ==
  /\ Ready(d)
  /\ NextRequest(d) > 0
  /\ notification' = [notification EXCEPT ![d] = FALSE]
  /\ UNCHANGED <<running, method, elapsed, failures, backoff, reconnect, available,
                 writes, reads, answering, asked>>
  /\ WaitNext(d)

\* Mutant: the reconnect flag is cleared before the method is chosen.
SendForgetsReconnect(d) ==
  /\ Ready(d)
  /\ NextRequest(d) <= 0
  /\ notification' = [notification EXCEPT ![d] = FALSE]
  /\ method' = [method EXCEPT ![d] = IF available[d] /\ failures[d] = 0 THEN "PUT" ELSE "POST"]
  /\ reconnect' = [reconnect EXCEPT ![d] = FALSE]
  /\ asked' = [asked EXCEPT ![d] = 0]
  /\ phase' = [phase EXCEPT ![d] = "request"]
  /\ timer' = [timer EXCEPT ![d] = RequestTimeout]
  /\ UNCHANGED <<running, elapsed, failures, backoff, available, writes, reads, answering>>

\* An iteration that sends a request: a keepalive PUT while the registration
\* stands, else a POST.
Send(d) ==
  /\ Ready(d)
  /\ NextRequest(d) <= 0
  /\ notification' = [notification EXCEPT ![d] = FALSE]
  /\ method' = [method EXCEPT ![d] =
       IF available[d] /\ failures[d] = 0 /\ ~reconnect[d] THEN "PUT" ELSE "POST"]
  /\ reconnect' = [reconnect EXCEPT ![d] = FALSE]
  /\ asked' = [asked EXCEPT ![d] = 0]
  /\ phase' = [phase EXCEPT ![d] = "request"]
  /\ timer' = [timer EXCEPT ![d] = RequestTimeout]
  /\ UNCHANGED <<running, elapsed, failures, backoff, available, writes, reads, answering>>

\* queue_status, and the notification it sends when it queued something.
QueueStatus(d) ==
  /\ reads' = [reads EXCEPT ![d] = StatusReads]
  /\ notification' = [notification EXCEPT ![d] = @ \/ reads[d] < StatusReads]

\* Mutant: an accepted registration does not make the device available.
AcceptedUnnoticed(d) ==
  /\ phase[d] = "request" /\ answering[d]
  /\ elapsed' = [elapsed EXCEPT ![d] = 0]
  /\ failures' = [failures EXCEPT ![d] = 0]
  /\ backoff' = [backoff EXCEPT ![d] = 0]
  /\ QueueStatus(d)
  /\ UNCHANGED <<running, method, reconnect, available, writes, answering, asked>>
  /\ WaitNext(d)

\* The appliance accepts: the registration stands, a new one reads the status.
Accepted(d) ==
  /\ phase[d] = "request" /\ answering[d]
  /\ elapsed' = [elapsed EXCEPT ![d] = 0]
  /\ failures' = [failures EXCEPT ![d] = 0]
  /\ backoff' = [backoff EXCEPT ![d] = 0]
  /\ available' = [available EXCEPT ![d] = TRUE]
  /\ IF method[d] = "POST" THEN QueueStatus(d) ELSE UNCHANGED <<reads, notification>>
  /\ UNCHANGED <<running, method, reconnect, writes, answering, asked>>
  /\ WaitNext(d)

\* Mutants: the failure sets no next attempt; the device stays available.
FailedWithoutBackoff(d) ==
  /\ phase[d] = "request" /\ ~answering[d]
  /\ elapsed' = [elapsed EXCEPT ![d] = 0]
  /\ failures' = [failures EXCEPT ![d] = Smaller(@ + 1, MaxFailures)]
  /\ available' = [available EXCEPT ![d] = @ /\ failures'[d] < 3]
  /\ UNCHANGED <<running, method, backoff, reconnect, notification, writes, reads,
                 answering, asked>>
  /\ WaitNext(d)
FailedButAvailable(d) ==
  /\ phase[d] = "request" /\ ~answering[d]
  /\ elapsed' = [elapsed EXCEPT ![d] = 0]
  /\ failures' = [failures EXCEPT ![d] = Smaller(@ + 1, MaxFailures)]
  /\ backoff' = [backoff EXCEPT ![d] = BackoffAfter(failures'[d])]
  /\ UNCHANGED <<running, method, reconnect, notification, available, writes, reads,
                 answering, asked>>
  /\ WaitNext(d)

\* Another status, a connection error or the timeout: _record_failure.
Failed(d) ==
  /\ phase[d] = "request" /\ ~answering[d]
  /\ elapsed' = [elapsed EXCEPT ![d] = 0]
  /\ failures' = [failures EXCEPT ![d] = Smaller(@ + 1, MaxFailures)]
  /\ backoff' = [backoff EXCEPT ![d] = BackoffAfter(failures'[d])]
  /\ available' = [available EXCEPT ![d] = @ /\ failures'[d] < 3]
  /\ UNCHANGED <<running, method, reconnect, notification, writes, reads, answering, asked>>
  /\ WaitNext(d)

-----------------------------------------------------------------------------
(* Calls from other tasks.                                                 *)

\* Mutant: the listener does not wake the loop.
QueueCommandSilently(d) ==
  /\ running /\ writes[d] < MaxWrites
  /\ writes' = [writes EXCEPT ![d] = @ + 1]
  /\ UNCHANGED <<running, loopVars, reconnect, notification, reads, answering, asked>>

\* notify(mac): a command was queued.
QueueCommand(d) ==
  /\ running /\ writes[d] < MaxWrites
  /\ writes' = [writes EXCEPT ![d] = @ + 1]
  /\ notification' = [notification EXCEPT ![d] = TRUE]
  /\ UNCHANGED <<running, loopVars, reconnect, reads, answering, asked>>

\* The status poll or the refresh button.
Refresh(d) ==
  /\ running
  /\ QueueStatus(d)
  /\ UNCHANGED <<running, loopVars, reconnect, writes, answering, asked>>

\* The appliance fetches a command, user commands first.
Fetch(d) ==
  /\ running
  /\ \/ writes[d] > 0 /\ writes' = [writes EXCEPT ![d] = @ - 1] /\ UNCHANGED reads
     \/ writes[d] = 0 /\ reads[d] > 0 /\ reads' = [reads EXCEPT ![d] = @ - 1] /\ UNCHANGED writes
  /\ UNCHANGED <<running, loopVars, reconnect, notification, answering, asked>>

\* notify(mac, reconnect=True): the reconnect button.
Reconnect(d) ==
  /\ running
  /\ reconnect' = [reconnect EXCEPT ![d] = TRUE]
  /\ notification' = [notification EXCEPT ![d] = TRUE]
  /\ UNCHANGED <<running, loopVars, writes, reads, answering, asked>>

\* stop, and the cancellation of the loops that async_stop does with it.
Stop ==
  /\ running
  /\ running' = FALSE
  /\ notification' = [d \in Devices |-> TRUE]
  /\ phase' = [d \in Devices |-> "done"]
  /\ UNCHANGED <<timer, method, elapsed, failures, backoff, available, reconnect,
                 writes, reads, answering, asked>>

-----------------------------------------------------------------------------
(* The appliance and the clock.                                            *)

Switch(d) ==
  /\ running
  /\ answering' = [answering EXCEPT ![d] = ~@]
  /\ UNCHANGED <<running, loopVars, reconnect, notification, writes, reads, asked>>

Tick ==
  /\ \A d \in Devices : ~Ready(d) /\ (phase[d] = "request" => timer[d] > 0)
  /\ timer' = [d \in Devices |-> Larger(0, timer[d] - 1)]
  /\ elapsed' = [d \in Devices |-> Smaller(elapsed[d] + 1, LongAgo)]
  /\ backoff' = [d \in Devices |-> Larger(0, backoff[d] - 1)]
  /\ asked' = [d \in Devices |->
                IF running /\ reconnect[d] THEN Smaller(asked[d] + 1, AskedBound) ELSE 0]
  /\ UNCHANGED <<running, phase, method, failures, available, reconnect, notification,
                 writes, reads, answering>>

-----------------------------------------------------------------------------
Init ==
  /\ running = TRUE
  /\ phase = [d \in Devices |-> "start"]
  /\ timer = [d \in Devices |-> 0]
  /\ method = [d \in Devices |-> "POST"]
  /\ elapsed = [d \in Devices |-> LongAgo]
  /\ failures = [d \in Devices |-> 0]
  /\ backoff = [d \in Devices |-> 0]
  /\ reconnect = [d \in Devices |-> FALSE]
  /\ notification = [d \in Devices |-> FALSE]
  /\ available = [d \in Devices |-> FALSE]
  /\ writes = [d \in Devices |-> 0]
  /\ reads = [d \in Devices |-> 0]
  /\ answering \in [Devices -> BOOLEAN]
  /\ asked = [d \in Devices |-> 0]

Next ==
  \/ \E d \in Devices :
       \/ Skip(d) \/ Send(d) \/ Accepted(d) \/ Failed(d)
       \/ QueueCommand(d) \/ Refresh(d) \/ Fetch(d) \/ Reconnect(d) \/ Switch(d)
  \/ Stop
  \/ Tick

Spec == Init /\ [][Next]_vars

\* The event loop runs what is ready, a request ends by its timeout at the
\* latest, and time goes on however often the loop is woken in between.
Fairness ==
  /\ \A d \in Devices : WF_vars(Skip(d) \/ Send(d)) /\ WF_vars(Accepted(d) \/ Failed(d))
  /\ SF_vars(Tick)

FairSpec == Spec /\ Fairness
-----------------------------------------------------------------------------
\* The types of _NotifyConfiguration; the backoff never exceeds its cap.
TypeOK ==
  /\ running \in BOOLEAN
  /\ phase \in [Devices -> {"start", "request", "wait", "done"}]
  /\ timer \in [Devices -> Nat]
  /\ method \in [Devices -> {"PUT", "POST"}]
  /\ elapsed \in [Devices -> 0..LongAgo]
  /\ failures \in [Devices -> 0..MaxFailures]
  /\ backoff \in [Devices -> 0..MaxBackoff]
  /\ reconnect \in [Devices -> BOOLEAN]
  /\ notification \in [Devices -> BOOLEAN]
  /\ available \in [Devices -> BOOLEAN]
  /\ writes \in [Devices -> 0..MaxWrites]
  /\ reads \in [Devices -> 0..StatusReads]
  /\ answering \in [Devices -> BOOLEAN]
  /\ asked \in [Devices -> 0..AskedBound]

\* No lost wakeup: a loop that sleeps with its event clear sleeps no longer
\* than the handling time beyond the moment its next request is due, whatever
\* was queued, fetched or asked during the request and the wait (_run_device,
\* notify, and the listener queue_command and queue_status call).
WaitCoversNextRequest ==
  \A d \in Devices :
    phase[d] = "wait" /\ ~notification[d] => timer[d] <= Larger(Handle, NextRequest(d))

\* A reconnect is on the wire in less than one request timeout and two handling
\* times, also when it is asked during a request, during a backoff, or again
\* and again (notify, _next_request, _run_device).
ReconnectPrompt == \A d \in Devices : asked[d] < RequestTimeout + 2 * Handle

\* A reconnect is only ever answered by a fresh registration, never swallowed
\* by a keepalive or by a request that was under way when it was asked.
ReconnectPosts ==
  [][\A d \in Devices :
       reconnect[d] /\ ~reconnect'[d] => phase'[d] = "request" /\ method'[d] = "POST"]_vars

\* After a failure the next request waits out the backoff of the failures so
\* far, unless a reconnect is asked for (_record_failure, _next_request).
BackoffHonoured ==
  [][\A d \in Devices :
       phase[d] # "request" /\ phase'[d] = "request" /\ failures[d] > 0 /\ ~reconnect[d]
         => elapsed[d] >= BackoffAfter(failures[d])]_vars

\* A standing registration is renewed before the keepalive interval and one
\* handling time are over, however the loop was woken since.
RegistrationRenewed ==
  \A d \in Devices :
    phase[d] = "wait" /\ failures[d] = 0 => elapsed[d] + timer[d] <= KeepAlive + Handle

\* A device that keeps accepting registrations ends up available for good.
RecoversWhenAnswering ==
  \A d \in Devices : <>[](answering[d] /\ running) => <>[]available[d]

\* One that accepts none any more ends up unavailable for good.
LapsesWhenSilent ==
  \A d \in Devices : <>[](~answering[d] /\ running) => <>[]~available[d]
=============================================================================
