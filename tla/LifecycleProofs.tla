--------------------------- MODULE LifecycleProofs ---------------------------
(***************************************************************************)
(* Proofs of Lifecycle's invariants for any set of devices.                *)
(***************************************************************************)
EXTENDS Lifecycle, TLAPS

\* What exists in each phase of an entry's life.
PhaseOK ==
  /\ phase \in {"unloaded", "removed"} =>
       ~tasks /\ ~http_runner /\ ~runtime_data /\ registered = {}
  /\ phase \notin {"unloaded", "removed"} => runtime_data
  /\ phase \in {"starting", "forwarding", "loaded", "unloading"} => http_runner \/ views
  /\ phase = "starting" => registered # serving
  /\ phase \in {"forwarding", "loaded", "unloading"} => tasks /\ registered = serving
  /\ phase = "stopping" => ~tasks /\ registered = {}

\* Issues and flags agree while the entry has a controller, but for the devices
\* that exchanged keys too early or left the list and were not settled since.
IssuesAgree ==
  phase \notin {"unloaded", "removed"} =>
    \A d \in exchanged \ (early \cup dropped) : d \in issues <=> d \in lan_key_invalid

IInv == TypeOK /\ PhaseOK /\ IssuesAgree /\ IssuesOfListed

\* Every action preserves the invariant (the whole of __init__.py's and
\* controller.py's start and stop sequences, with the key exchanges and the
\* edited device lists between).
LEMMA Invariant == Spec => []IInv
<1> USE DevicesAssumption
<1>1. Init => IInv
  <2> SUFFICES ASSUME Init PROVE IInv
    OBVIOUS
  <2>1. FlagsOK
    BY DEF Init, FlagsOK
  <2>2. DevicesOK
    BY DEF Init, DevicesOK
  <2>3. PhaseOK /\ IssuesAgree /\ IssuesOfListed
    BY DEF Init, PhaseOK, IssuesAgree, IssuesOfListed
  <2> QED
    BY <2>1, <2>2, <2>3 DEF IInv, TypeOK
<1>2. IInv /\ [Next]_vars => IInv'
  <2> SUFFICES ASSUME FlagsOK, DevicesOK, PhaseOK, IssuesAgree, IssuesOfListed, [Next]_vars
               PROVE  FlagsOK' /\ DevicesOK' /\ PhaseOK' /\ IssuesAgree' /\ IssuesOfListed'
    BY DEF IInv, TypeOK
  <2> USE DEF controllerVars, keyVars
  <2>1. CASE Setup
    <3>1. FlagsOK'
      BY <2>1 DEF Setup, FlagsOK
    <3>2. DevicesOK'
      BY <2>1 DEF Setup, DevicesOK, PhaseOK
    <3>3. PhaseOK'
      BY <2>1 DEF Setup, PhaseOK, DevicesOK
    <3>4. IssuesAgree'
      BY <2>1 DEF Setup, IssuesAgree, DevicesOK, PhaseOK
    <3>5. IssuesOfListed'
      BY <2>1 DEF Setup, IssuesOfListed
    <3> QED
      BY <3>1, <3>2, <3>3, <3>4, <3>5
  <2>2. ASSUME NEW d \in Devices, RegisterDevice(d)
         PROVE  FlagsOK' /\ DevicesOK' /\ PhaseOK' /\ IssuesAgree' /\ IssuesOfListed'
    <3>1. FlagsOK'
      BY <2>2 DEF RegisterDevice, FlagsOK
    <3>2. DevicesOK'
      BY <2>2 DEF RegisterDevice, DevicesOK, PhaseOK
    <3>3. PhaseOK'
      BY <2>2 DEF RegisterDevice, PhaseOK, DevicesOK
    <3>4. IssuesAgree'
      BY <2>2 DEF RegisterDevice, IssuesAgree, DevicesOK, PhaseOK
    <3>5. IssuesOfListed'
      BY <2>2 DEF RegisterDevice, IssuesOfListed
    <3> QED
      BY <3>1, <3>2, <3>3, <3>4, <3>5
  <2>3. CASE SetupFails
    <3>1. FlagsOK'
      BY <2>3 DEF SetupFails, FlagsOK
    <3>2. DevicesOK'
      BY <2>3 DEF SetupFails, DevicesOK, PhaseOK
    <3>3. PhaseOK'
      BY <2>3 DEF SetupFails, PhaseOK, DevicesOK
    <3>4. IssuesAgree'
      BY <2>3 DEF SetupFails, IssuesAgree, DevicesOK, PhaseOK
    <3>5. IssuesOfListed'
      BY <2>3 DEF SetupFails, IssuesOfListed
    <3> QED
      BY <3>1, <3>2, <3>3, <3>4, <3>5
  <2>4. CASE SetupDone
    <3>1. FlagsOK'
      BY <2>4 DEF SetupDone, FlagsOK
    <3>2. DevicesOK'
      BY <2>4 DEF SetupDone, DevicesOK, PhaseOK
    <3>3. PhaseOK'
      BY <2>4 DEF SetupDone, PhaseOK, DevicesOK
    <3>4. IssuesAgree'
      BY <2>4 DEF SetupDone, IssuesAgree, DevicesOK, PhaseOK
    <3>5. IssuesOfListed'
      BY <2>4 DEF SetupDone, IssuesOfListed
    <3> QED
      BY <3>1, <3>2, <3>3, <3>4, <3>5
  <2>5. CASE Unload
    <3>1. FlagsOK'
      BY <2>5 DEF Unload, FlagsOK
    <3>2. DevicesOK'
      BY <2>5 DEF Unload, DevicesOK, PhaseOK
    <3>3. PhaseOK'
      BY <2>5 DEF Unload, PhaseOK, DevicesOK
    <3>4. IssuesAgree'
      BY <2>5 DEF Unload, IssuesAgree, DevicesOK, PhaseOK
    <3>5. IssuesOfListed'
      BY <2>5 DEF Unload, IssuesOfListed
    <3> QED
      BY <3>1, <3>2, <3>3, <3>4, <3>5
  <2>6. CASE UnloadRefused
    <3>1. FlagsOK'
      BY <2>6 DEF UnloadRefused, FlagsOK
    <3>2. DevicesOK'
      BY <2>6 DEF UnloadRefused, DevicesOK, PhaseOK
    <3>3. PhaseOK'
      BY <2>6 DEF UnloadRefused, PhaseOK, DevicesOK
    <3>4. IssuesAgree'
      BY <2>6 DEF UnloadRefused, IssuesAgree, DevicesOK, PhaseOK
    <3>5. IssuesOfListed'
      BY <2>6 DEF UnloadRefused, IssuesOfListed
    <3> QED
      BY <3>1, <3>2, <3>3, <3>4, <3>5
  <2>7. CASE Stop
    <3>1. FlagsOK'
      BY <2>7 DEF Stop, FlagsOK
    <3>2. DevicesOK'
      BY <2>7 DEF Stop, DevicesOK, PhaseOK
    <3>3. PhaseOK'
      BY <2>7 DEF Stop, PhaseOK, DevicesOK
    <3>4. IssuesAgree'
      BY <2>7 DEF Stop, IssuesAgree, DevicesOK, PhaseOK
    <3>5. IssuesOfListed'
      BY <2>7 DEF Stop, IssuesOfListed
    <3> QED
      BY <3>1, <3>2, <3>3, <3>4, <3>5
  <2>8. CASE Stopped
    <3>1. FlagsOK'
      BY <2>8 DEF Stopped, FlagsOK
    <3>2. DevicesOK'
      BY <2>8 DEF Stopped, DevicesOK, PhaseOK
    <3>3. PhaseOK'
      BY <2>8 DEF Stopped, PhaseOK, DevicesOK
    <3>4. IssuesAgree'
      BY <2>8 DEF Stopped, IssuesAgree, DevicesOK, PhaseOK
    <3>5. IssuesOfListed'
      BY <2>8 DEF Stopped, IssuesOfListed
    <3> QED
      BY <3>1, <3>2, <3>3, <3>4, <3>5
  <2>9. CASE Remove
    <3>1. FlagsOK'
      BY <2>9 DEF Remove, FlagsOK
    <3>2. DevicesOK'
      BY <2>9 DEF Remove, DevicesOK, PhaseOK
    <3>3. PhaseOK'
      BY <2>9 DEF Remove, PhaseOK, DevicesOK
    <3>4. IssuesAgree'
      BY <2>9 DEF Remove, IssuesAgree, DevicesOK, PhaseOK
    <3>5. IssuesOfListed'
      BY <2>9 DEF Remove, IssuesOfListed
    <3> QED
      BY <3>1, <3>2, <3>3, <3>4, <3>5
  <2>10. CASE Restart
    <3>1. FlagsOK'
      BY <2>10 DEF Restart, FlagsOK
    <3>2. DevicesOK'
      BY <2>10 DEF Restart, DevicesOK, PhaseOK
    <3>3. PhaseOK'
      BY <2>10 DEF Restart, PhaseOK, DevicesOK
    <3>4. IssuesAgree'
      BY <2>10 DEF Restart, IssuesAgree, DevicesOK, PhaseOK
    <3>5. IssuesOfListed'
      BY <2>10 DEF Restart, IssuesOfListed
    <3> QED
      BY <3>1, <3>2, <3>3, <3>4, <3>5
  <2>11. ASSUME NEW new \in SUBSET Devices, SaveDevices(new)
         PROVE  FlagsOK' /\ DevicesOK' /\ PhaseOK' /\ IssuesAgree' /\ IssuesOfListed'
    <3>1. FlagsOK'
      BY <2>11 DEF SaveDevices, FlagsOK
    <3>2. DevicesOK'
      BY <2>11 DEF SaveDevices, DevicesOK, PhaseOK
    <3>3. PhaseOK'
      BY <2>11 DEF SaveDevices, PhaseOK, DevicesOK
    <3>4. IssuesAgree'
      BY <2>11 DEF SaveDevices, IssuesAgree, DevicesOK, PhaseOK
    <3>5. IssuesOfListed'
      BY <2>11 DEF SaveDevices, IssuesOfListed
    <3> QED
      BY <3>1, <3>2, <3>3, <3>4, <3>5
  <2>12. ASSUME NEW d \in Devices, KeyExchange(d)
         PROVE  FlagsOK' /\ DevicesOK' /\ PhaseOK' /\ IssuesAgree' /\ IssuesOfListed'
    <3>1. FlagsOK'
      BY <2>12 DEF KeyExchange, FlagsOK
    <3>2. DevicesOK'
      BY <2>12 DEF KeyExchange, IssuesAfter, Settles, Served, DevicesOK, PhaseOK
    <3>3. PhaseOK'
      BY <2>12 DEF KeyExchange, IssuesAfter, Served, PhaseOK, DevicesOK
    <3>4. IssuesAgree'
      BY <2>12 DEF KeyExchange, IssuesAfter, Settles, Served, IssuesAgree, DevicesOK, PhaseOK
    <3>5. IssuesOfListed'
      BY <2>12 DEF KeyExchange, IssuesAfter, Served, IssuesOfListed, PhaseOK
    <3> QED
      BY <3>1, <3>2, <3>3, <3>4, <3>5
  <2>13. ASSUME NEW d \in Devices, ChangeKey(d)
         PROVE  FlagsOK' /\ DevicesOK' /\ PhaseOK' /\ IssuesAgree' /\ IssuesOfListed'
    <3>1. FlagsOK'
      BY <2>13 DEF ChangeKey, FlagsOK
    <3>2. DevicesOK'
      BY <2>13 DEF ChangeKey, DevicesOK, PhaseOK
    <3>3. PhaseOK'
      BY <2>13 DEF ChangeKey, PhaseOK, DevicesOK
    <3>4. IssuesAgree'
      BY <2>13 DEF ChangeKey, IssuesAgree, DevicesOK, PhaseOK
    <3>5. IssuesOfListed'
      BY <2>13 DEF ChangeKey, IssuesOfListed
    <3> QED
      BY <3>1, <3>2, <3>3, <3>4, <3>5
  <2>14. CASE UNCHANGED vars
    <3>1. FlagsOK'
      BY <2>14 DEF vars, FlagsOK
    <3>2. DevicesOK'
      BY <2>14 DEF vars, DevicesOK, PhaseOK
    <3>3. PhaseOK'
      BY <2>14 DEF vars, PhaseOK, DevicesOK
    <3>4. IssuesAgree'
      BY <2>14 DEF vars, IssuesAgree, DevicesOK, PhaseOK
    <3>5. IssuesOfListed'
      BY <2>14 DEF vars, IssuesOfListed
    <3> QED
      BY <3>1, <3>2, <3>3, <3>4, <3>5
  <2> QED
    BY <2>1, <2>2, <2>3, <2>4, <2>5, <2>6, <2>7, <2>8, <2>9, <2>10, <2>11, <2>12, <2>13, <2>14
    DEF Next
<1> QED
  BY <1>1, <1>2, PTL DEF Spec

\* Types of the entry's state, for any set of devices.
THEOREM TypeCorrect == Spec => []TypeOK
<1>1. IInv => TypeOK
  BY DEF IInv
<1> QED
  BY <1>1, Invariant, PTL

\* Wherever the setup of an entry fails, and however it is unloaded, nothing of
\* it remains, and a loaded entry is whole.
THEOREM NothingOutlivesEntry == Spec => []WholeOrGone
<1>1. IInv => WholeOrGone
  BY DEF IInv, TypeOK, PhaseOK, WholeOrGone, Served
<1> QED
  BY <1>1, Invariant, PTL

\* Repairs issues agree with the last key exchange of every device that had
\* none before it was registered and did not leave the list, over restarts and reloads.
THEOREM IssuesFollowExchanges == Spec => []IssueFollowsExchange
<1>1. IInv => IssueFollowsExchange
  BY DEF IInv, IssuesAgree, IssueFollowsExchange
<1> QED
  BY <1>1, Invariant, PTL

\* Over any edits of the device list, restarts and failed setups, the issues left
\* are of listed devices, or of devices refused after they had left the list.
THEOREM NoOrphanedIssues == Spec => []IssuesOfListed
<1>1. IInv => IssuesOfListed
  BY DEF IInv
<1> QED
  BY <1>1, Invariant, PTL

\* Every key exchange reaches a device whose listener is attached.
HeardInTime == \A d \in Devices : KeyExchange(d) => d \in registered

\* The only way to an issue that says something else than the last exchange of a
\* listed device (the run early_exchange) is an exchange before its listener is
\* attached, or after it is detached (async_start, update_key).
THEOREM OnlyEarlyExchangesMislead == Spec /\ [][HeardInTime]_vars => []IssueAlwaysTruthful
<1>1. Init => early = {}
  BY DEF Init
<1>2. early = {} /\ [Next]_vars /\ [HeardInTime]_vars => (early = {})'
  <2>1. CASE UNCHANGED vars
    BY <2>1 DEF vars, keyVars
  <2> SUFFICES ASSUME early = {}, Next, HeardInTime PROVE early' = {}
    BY <2>1
  <2>2. ASSUME NEW d \in Devices, KeyExchange(d) PROVE early' = {}
    BY <2>2 DEF KeyExchange, HeardInTime
  <2>3. ASSUME NEW d \in Devices, RegisterDevice(d) \/ ChangeKey(d) PROVE early' = {}
    BY <2>3 DEF RegisterDevice, ChangeKey, keyVars
  <2>4. CASE Setup \/ SetupFails \/ SetupDone \/ Unload \/ UnloadRefused
    BY <2>4 DEF Setup, SetupFails, SetupDone, Unload, UnloadRefused, keyVars
  <2>5. CASE Stop \/ Stopped \/ Remove \/ Restart
    BY <2>5 DEF Stop, Stopped, Remove, Restart, keyVars
  <2>6. ASSUME NEW new \in SUBSET Devices, SaveDevices(new) PROVE early' = {}
    BY <2>6 DEF SaveDevices
  <2> QED BY <2>2, <2>3, <2>4, <2>5, <2>6 DEF Next
<1>3. early = {} /\ IssueFollowsExchange => IssueAlwaysTruthful
  BY DEF IssueFollowsExchange, IssueAlwaysTruthful
<1> QED
  BY <1>1, <1>2, <1>3, IssuesFollowExchanges, PTL DEF Spec
=============================================================================
