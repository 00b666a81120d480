---------------------------- MODULE RuntimeProofs ----------------------------
(***************************************************************************)
(* Machine-checked proofs about Runtime, the life of the process, for any  *)
(* requests, timeouts and signals.                                         *)
(*                                                                         *)
(* None of the properties is inductive.  That no public request is cut     *)
(* short rests on a race of two clocks: once the listener is closed, every *)
(* public request has less time left than the drain has (DrainOutlasts),   *)
(* so a drain that runs out finds none; a context that is cancelled early  *)
(* was cancelled by a second signal or after both servers had drained.  A  *)
(* readiness check is in the same race against a shorter clock             *)
(* (ReadinessInv).  That a failure is reported rests on the order of the   *)
(* channel: until a server is shut down it holds nothing but errors, so    *)
(* the first result run takes is one (FailureInv).                         *)
(***************************************************************************)
EXTENDS Runtime, TLAPS

\* The prover of a leaf that names no other; arithmetic is for SMT.
USE Zenon

Phases == Notified \cup {"open", "construct", "wait_cleanup", "close_db", "exited"}

\* Before the shutdown context is made.
BeforeDrain == {"open", "construct", "select", "signalled", "unready", "failed", "failed_unready"}

\* A server is counted when its goroutine has sent its result.
Sent(s) == IF server[s] = "down" THEN 1 ELSE 0

TypeInv ==
    /\ phase \in Phases
    /\ result \in {"none", "nil", "error"}
    /\ broken \in BOOLEAN
    /\ db \in {"none", "open", "closed"}
    /\ server \in [Servers -> {"none", "starting", "serving", "down"}]
    /\ shutdown \in [Servers -> {"none", "asked", "called", "nil", "error"}]
    /\ serveResults \in Seq({"nil", "error"})
    /\ signals \in 0..ChannelSize
    /\ draining \in BOOLEAN
    /\ drainLeft \in 0..ShutdownTimeout
    /\ requests \in [Requests -> [at : Servers \cup {"none"}, left : Nat, ready : BOOLEAN]]
    /\ cleanup \in {"none", "waiting", "cleaning", "done"}

\* listenAndServe sends one result.
ResultsInv == Len(serveResults) <= Sent("public") + Sent("metrics")

\* The runner is gone before the database is closed.
CleanupInv ==
    /\ phase \in {"open", "construct"} => cleanup = "none"
    /\ phase = "close_db" \/ db = "closed" => cleanup \in {"none", "done"}
    /\ db = "closed" => phase = "exited"

\* A check that found draining unset did so before the drain, with its own timeout.
ReadinessInv ==
    /\ phase \in {"unready", "failed_unready", "draining", "failing"} => draining
    /\ ~draining => drainLeft = ShutdownTimeout
    /\ \A r \in Requests : requests[r].ready =>
          /\ requests[r].at = "public"
          /\ requests[r].left + ShutdownTimeout <= ReadinessTimeout + drainLeft

\* A server that stops serving unasked sends an error; the first result is the one returned.
FailureInv ==
    /\ (\A s \in Servers : Open(s)) =>
          \A i \in 1..Len(serveResults) : serveResults[i] = "error"
    /\ phase \in {"failed", "failed_unready", "failing"} => result = "error"
    /\ broken => IF phase \in {"open", "construct", "select", "signalled", "unready", "draining",
                               "await", "close", "last"}
                 THEN serveResults # <<>> /\ serveResults[1] = "error"
                 ELSE result = "error"

ShutDown(s) == shutdown[s] \in {"nil", "error"}

\* Where run is in the drain, or that no server was ever started.
PhaseInv ==
    /\ phase \in BeforeDrain =>
          /\ \A s \in Servers : shutdown[s] = "none"
          /\ drainLeft = ShutdownTimeout
    /\ phase \in {"open", "construct"} => \A s \in Servers : server[s] = "none"
    /\ phase \in {"draining", "failing"} => \A s \in Servers : shutdown[s] # "none"
    /\ phase \in {"close", "last", "deferred", "wait_cleanup", "close_db", "exited"} =>
          \/ \A s \in Servers : ShutDown(s)
          \/ phase \in {"close_db", "exited"} /\ \A s \in Servers : server[s] = "none"

\* Who cancelled the context.
CancelInv ==
    /\ phase \in BeforeDrain => ~cancelled
    /\ cancelled => forced \/ \A s \in Servers : ShutDown(s)

AtPublic(r) == requests[r].at = "public"

\* The drain begins with the whole timeout and outlasts the public requests.
DrainOutlasts ==
    /\ \A s \in Servers : shutdown[s] \in {"none", "asked"} => drainLeft = ShutdownTimeout
    /\ \A r \in Requests : AtPublic(r) => requests[r].left + ShutdownTimeout <= RequestTimeout + drainLeft

\* A server that was never started has no requests; nor has one that was drained.
RequestsInv ==
    /\ server["public"] = "none" => \A r \in Requests : ~AtPublic(r)
    /\ shutdown["public"] = "nil" => \A r \in Requests : ~AtPublic(r)
    /\ shutdown["public"] = "error" /\ ~forced /\ RequestTimeout < ShutdownTimeout =>
          \A r \in Requests : ~AtPublic(r)

RuntimeInv ==
    /\ TypeInv /\ ResultsInv /\ CleanupInv /\ ReadinessInv /\ FailureInv
    /\ PhaseInv /\ CancelInv /\ DrainOutlasts /\ RequestsInv

\* shutdownServers has returned when both servers are shut down.
LEMMA ResultMeansShutDown ==
    ASSUME TypeInv, ShutdownResult # "none"
    PROVE  \A s \in Servers : ShutDown(s)
<1>1. CASE \E s \in Servers : shutdown[s] \notin {"nil", "error"}
  BY <1>1 DEF ShutdownResult
<1>2. CASE \A s \in Servers : shutdown[s] \in {"nil", "error"}
  BY <1>2 DEF ShutDown
<1> QED
  BY <1>1, <1>2

\* Every step of the process keeps the invariant.
LEMMA RuntimeInvStep == RuntimeInv /\ [Next]_vars => RuntimeInv'
<1> SUFFICES ASSUME RuntimeInv, [Next]_vars PROVE RuntimeInv'
  OBVIOUS
<1> USE TimeoutsPositive
    DEF RuntimeInv, TypeInv, ResultsInv, CleanupInv, ReadinessInv, FailureInv, PhaseInv, CancelInv,
        DrainOutlasts, RequestsInv, Phases, Notified, BeforeDrain, Servers, ShutDown, AtPublic, Sent,
        Open, ChannelSize, serving, stopping, signalling, resources
<1>1. CASE OpenDatabase
  BY <1>1, SMT DEF OpenDatabase
<1>2. CASE Construct
  BY <1>2, SMT DEF Construct
<1>3. CASE FirstSignal
  BY <1>3, SMT DEF FirstSignal, Step
<1>4. CASE ServerFailed
  BY <1>4, SMT DEF ServerFailed, ReceiveResult, Step
<1>5. CASE BeginDrain
  BY <1>5, SMT DEF BeginDrain, Step
<1>6. CASE StartShutdown
  BY <1>6, SMT DEF StartShutdown, Step
<1>7. CASE FailureDrained
  BY <1>7, ResultMeansShutDown DEF FailureDrained, Step
<1>8. CASE Drained
  BY <1>8, ResultMeansShutDown, SMT DEF Drained
<1>9. CASE SecondSignal
  BY <1>9, SMT DEF SecondSignal, Step
<1>10. CASE AwaitShutdown
  BY <1>10, ResultMeansShutDown, SMT DEF AwaitShutdown, Step
<1>11. CASE CloseServers
  BY <1>11, SMT DEF CloseServers, Step
<1>12. CASE LastResult
  <2>1. FailureInv'
    BY <1>12, SMT DEF LastResult, ReceiveResult, Step
  <2>2. TypeInv' /\ ResultsInv'
    BY <1>12, SMT DEF LastResult, ReceiveResult, Step
  <2> QED
    BY <1>12, <2>1, <2>2, SMT DEF LastResult, ReceiveResult, Step
<1>13. CASE StopCleanup
  BY <1>13, SMT DEF StopCleanup, Step
<1>14. CASE WaitCleanup
  BY <1>14, SMT DEF WaitCleanup, Step
<1>15. CASE CloseDatabase
  BY <1>15, SMT DEF CloseDatabase, Step
<1>16. CASE Signal
  BY <1>16, SMT DEF Signal
<1>17. CASE ClockTick
  <2> DEFINE public == {r \in Requests : requests[r].at = "public"}
  <2>1. requests' \in [Requests -> [at : Servers \cup {"none"}, left : Nat, ready : BOOLEAN]]
    <3>1. \A r \in public : [requests[r] EXCEPT !.left = @ - 1]
              \in [at : Servers \cup {"none"}, left : Nat, ready : BOOLEAN]
      <4> TAKE r \in public
      <4>1. requests[r].left - 1 \in Nat
        BY <1>17, SMT DEF ClockTick
      <4> QED
        BY <4>1
    <3> QED
      BY <1>17, <3>1 DEF ClockTick
  <2>2. TypeInv'
    BY <1>17, <2>1, SMT DEF ClockTick, Draining
  <2>3. ReadinessInv'
    BY <1>17, SMT DEF ClockTick, Draining
  <2>4. DrainOutlasts'
    BY <1>17, SMT DEF ClockTick, Draining
  <2>5. PhaseInv' /\ RequestsInv'
    BY <1>17, SMT DEF ClockTick, Draining
  <2> QED
    BY <1>17, <2>2, <2>3, <2>4, <2>5, SMT DEF ClockTick
<1>18. CASE Gone
  BY <1>18, SMT DEF Gone, vars
<1>19. ASSUME NEW s \in Servers, Listen(s) PROVE RuntimeInv'
  <2>1. CASE ServeReturns(s, "error")
    BY <1>19, <2>1, SMT DEF Listen, ServeReturns
  <2>2. CASE server' = [server EXCEPT ![s] = "serving"] /\ UNCHANGED <<serveResults, broken>>
    BY <1>19, <2>2, SMT DEF Listen
  <2> QED
    BY <1>19, <2>1, <2>2 DEF Listen
<1>20. ASSUME NEW s \in Servers, AcceptFails(s) PROVE RuntimeInv'
  BY <1>20, SMT DEF AcceptFails, ServeReturns
<1>21. ASSUME NEW s \in Servers, ServerClosed(s) PROVE RuntimeInv'
  BY <1>21, SMT DEF ServerClosed, ServeReturns
<1>22. ASSUME NEW s \in Servers, CallShutdown(s) PROVE RuntimeInv'
  BY <1>22, SMT DEF CallShutdown
<1>23. ASSUME NEW s \in Servers, ShutdownReturns(s) PROVE RuntimeInv'
  BY <1>23, SMT DEF ShutdownReturns, ContextDone
<1>24. ASSUME NEW r \in Requests, CheckReady(r) PROVE RuntimeInv'
  <2>1. CASE draining
    <3>1. requests' = [requests EXCEPT ![r] = Idle]
      BY <1>24, <2>1 DEF CheckReady
    <3> QED
      BY <1>24, <3>1, SMT DEF CheckReady, Idle
  <2>2. CASE ~draining
    <3> DEFINE left == IF requests[r].left < ReadinessTimeout THEN requests[r].left
                                                             ELSE ReadinessTimeout
    <3>1. left \in Nat /\ left <= requests[r].left /\ left <= ReadinessTimeout
      BY SMT
    <3>2. requests' = [requests EXCEPT ![r] = [at |-> "public", ready |-> TRUE, left |-> left]]
      BY <1>24, <2>2 DEF CheckReady
    <3> HIDE DEF left
    <3>3. TypeInv'
      BY <1>24, <3>1, <3>2, SMT DEF CheckReady
    <3>4. ReadinessInv' /\ DrainOutlasts'
      BY <1>24, <2>2, <3>1, <3>2, SMT DEF CheckReady
    <3> QED
      BY <1>24, <3>2, <3>3, <3>4, SMT DEF CheckReady
  <2> QED
    BY <2>1, <2>2
<1>25. ASSUME NEW r \in Requests, Finish(r) PROVE RuntimeInv'
  BY <1>25, SMT DEF Finish, Idle
<1>26. ASSUME NEW r \in Requests, NEW s \in Servers, Accept(r, s) PROVE RuntimeInv'
  BY <1>26, SMT DEF Accept
<1>27. CASE CleanupTick
  BY <1>27, SMT DEF CleanupTick
<1>28. CASE CleanupPassEnds
  BY <1>28, SMT DEF CleanupPassEnds
<1>29. CASE CleanupStops
  BY <1>29, SMT DEF CleanupStops
<1>30. CASE UNCHANGED vars
  BY <1>30, SMT DEF vars
<1> HIDE DEF RuntimeInv
<1> QED
  BY <1>1, <1>2, <1>3, <1>4, <1>5, <1>6, <1>7, <1>8, <1>9, <1>10, <1>11, <1>12, <1>13, <1>14,
     <1>15, <1>16, <1>17, <1>18, <1>19, <1>20, <1>21, <1>22, <1>23, <1>24, <1>25, <1>26, <1>27,
     <1>28, <1>29, <1>30
     DEF Next, Run

\* The invariant holds in every state of run, whatever the timeouts, the
\* requests and the signals.
LEMMA RuntimeInvariant == Spec => []RuntimeInv
<1>1. Init => RuntimeInv
  <2> SUFFICES ASSUME Init PROVE RuntimeInv
    OBVIOUS
  <2> USE TimeoutsPositive DEF Init, Servers
  <2>1. TypeInv
    <3>1. requests \in [Requests -> [at : Servers \cup {"none"}, left : Nat, ready : BOOLEAN]]
      BY DEF Idle
    <3>2. serveResults \in Seq({"nil", "error"})
      BY SMT
    <3>3. signals \in 0..ChannelSize /\ drainLeft \in 0..ShutdownTimeout
      BY SMT DEF ChannelSize
    <3> QED
      BY <3>1, <3>2, <3>3 DEF TypeInv, Phases
  <2>2. ResultsInv
    BY SMT DEF ResultsInv, Sent
  <2>3. CleanupInv /\ ReadinessInv /\ PhaseInv /\ CancelInv
    BY DEF CleanupInv, ReadinessInv, PhaseInv, CancelInv, Idle
  <2>4. FailureInv
    BY SMT DEF FailureInv
  <2>5. DrainOutlasts /\ RequestsInv
    BY DEF DrainOutlasts, RequestsInv, AtPublic, Idle
  <2> QED
    BY <2>1, <2>2, <2>3, <2>4, <2>5 DEF RuntimeInv
<1> QED
  BY <1>1, RuntimeInvStep, PTL DEF Spec

\* No channel of run is ever asked to hold more than it has room for, so no
\* goroutine blocks on serveResults or shutdownSignals.
THEOREM ChannelsBounded == Spec => []RuntimeTypeOK
<1>1. RuntimeInv => RuntimeTypeOK
  BY SMT DEF RuntimeInv, TypeInv, ResultsInv, Sent, RuntimeTypeOK, Phases, ChannelSize
<1> QED
  BY <1>1, RuntimeInvariant, PTL

\* The deferred calls of run stop the cleanup runner before they close the
\* database, on every way out.
THEOREM CleanupStopsFirst == Spec => []CleanupBeforeDatabase
<1>1. RuntimeInv => CleanupBeforeDatabase
  BY DEF RuntimeInv, CleanupInv, CleanupBeforeDatabase
<1> QED
  BY <1>1, RuntimeInvariant, PTL

\* However long a check of readiness waits for the database, its answer is not
\* later than its own timeout after the drain began: CheckReady reads draining
\* first, and beginDrain comes before shutdownServers on both ways into the drain.
THEOREM ReadinessEndsPromptly == Spec => []ReadyAnswersEnd
<1>1. ASSUME RuntimeInv, drainLeft + ReadinessTimeout < ShutdownTimeout,
             NEW r \in Requests, requests[r].ready
      PROVE  FALSE
  <2>1. requests[r].left \in Nat /\ drainLeft \in Nat
    BY <1>1, TimeoutsPositive, SMT DEF RuntimeInv, TypeInv
  <2>2. requests[r].left + ShutdownTimeout <= ReadinessTimeout + drainLeft
    BY <1>1 DEF RuntimeInv, ReadinessInv
  <2> QED
    BY <1>1, <2>1, <2>2, TimeoutsPositive, SMT
<1>2. RuntimeInv => ReadyAnswersEnd
  BY <1>1 DEF ReadyAnswersEnd
<1> QED
  BY <1>2, RuntimeInvariant, PTL

\* A server that fails on its own is never hidden by a signal, by the drain or by
\* the other server's orderly end: run returns an error.
THEOREM FailureIsReported == Spec => []FailureReported
<1>1. RuntimeInv => FailureReported
  BY DEF RuntimeInv, FailureInv, FailureReported
<1> QED
  BY <1>1, RuntimeInvariant, PTL

\* A shutdown timeout longer than a public request lasts is enough for every
\* one of them to finish, however many there are and whenever they came,
\* unless a second signal ends the drain.
THEOREM NoRequestCutShort == Spec => []PublicRequestsFinish
<1>1. RuntimeInv => PublicRequestsFinish
  BY DEF RuntimeInv, TypeInv, CleanupInv, PhaseInv, RequestsInv, ShutDown, AtPublic, Servers,
         PublicRequestsFinish
<1> QED
  BY <1>1, RuntimeInvariant, PTL
=============================================================================
