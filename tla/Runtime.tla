------------------------------ MODULE Runtime ------------------------------
(***************************************************************************)
(* run of gateway/cmd/payment-gateway/runtime.go: the life of the process  *)
(* from opening the database to closing it, with the goroutines of its two *)
(* HTTP servers, of their shutdown and of the cleanup runner, the requests *)
(* in flight, and the signals that end it.                                 *)
(*                                                                         *)
(*   open -> construct -> select                                           *)
(*   select -> signalled -> unready -> draining [-> await -> close] -> last *)
(*   select -> failed -> failed_unready -> failing ----------> deferred    *)
(*   last -> deferred -> wait_cleanup -> close_db -> exited                *)
(*                                                                         *)
(* net/http, os/signal and database/sql are external.  A request of the    *)
(* public server has HTTP_READ_TIMEOUT for its body and its own deadline   *)
(* for its work, so it ends; a scrape of the metrics server may not.  Any  *)
(* public request may turn out to ask for readiness.                       *)
(***************************************************************************)
EXTENDS Naturals, Sequences

CONSTANTS Requests,        \* requests that may be in flight at once
          RequestTimeout,  \* ticks a public request lasts at most
          ReadinessTimeout, \* READINESS_CHECK_TIMEOUT, in ticks
          ShutdownTimeout, \* SHUTDOWN_TIMEOUT, in ticks
          MaxSignals       \* bound: signals the process is sent

\* config.validate
ASSUME TimeoutsPositive == {RequestTimeout, ReadinessTimeout, ShutdownTimeout} \subseteq Nat \ {0}

VARIABLES phase,        \* where run is
          result,       \* what run is to return: "none" yet, "nil" or "error"
          db,           \* the connection pool
          server,       \* the goroutine of listenAndServe, by server
          shutdown,     \* the goroutine of Server.Shutdown, by server
          serveResults, \* the channel of that name: "nil" or "error"
          signals,      \* signals waiting in shutdownSignals
          sent,         \* signals sent so far
          draining,     \* shutdownReadiness.draining
          drainLeft,    \* ticks left of the shutdown context
          cancelled,    \* the shutdown context was cancelled
          forced,       \* history: a second signal asked for closure
          broken,       \* history: a server failed before any was shut down
          requests,     \* each request: the server it is at, its ticks left, and
                        \* whether it read draining and found it unset
          cleanup,      \* the goroutine of the cleanup runner
          cleanupCancelled

serving == <<server, serveResults, shutdown, broken>>
stopping == <<draining, drainLeft, cancelled, forced>>
signalling == <<signals, sent>>
resources == <<db, cleanup, cleanupCancelled>>
vars == <<phase, result, serving, requests, stopping, signalling, resources>>

Servers == {"public", "metrics"}
Idle == [at |-> "none", left |-> 0, ready |-> FALSE]
ChannelSize == 2  \* shutdownSignals and serveResults hold two

Init ==
    /\ phase = "open"
    /\ result = "none"
    /\ db = "none"
    /\ server = [s \in Servers |-> "none"]
    /\ shutdown = [s \in Servers |-> "none"]
    /\ serveResults = <<>>
    /\ broken = FALSE
    /\ signals = 0
    /\ sent = 0
    /\ draining = FALSE
    /\ drainLeft = ShutdownTimeout
    /\ cancelled = FALSE
    /\ forced = FALSE
    /\ requests = [r \in Requests |-> Idle]
    /\ cleanup = "none"
    /\ cleanupCancelled = FALSE

Step(from, to) == phase = from /\ phase' = to
Running(r) == requests[r] # Idle
Alive == phase # "exited"

----------------------------------------------------------------------------
(* Starting *)

OpenDatabase ==
    /\ phase = "open"
    /\ \/ phase' = "construct" /\ db' = "open" /\ UNCHANGED result
       \/ phase' = "exited" /\ result' = "error" /\ UNCHANGED db
    /\ UNCHANGED <<serving, requests, stopping, signalling, cleanup, cleanupCancelled>>

\* A constructor that refuses its configuration ends run, which closes the database.
Construct ==
    /\ phase = "construct"
    /\ \/ /\ phase' = "select"
          /\ server' = [s \in Servers |-> "starting"]
          /\ cleanup' = "waiting"
          /\ UNCHANGED result
       \/ /\ phase' = "close_db"
          /\ result' = "error"
          /\ UNCHANGED <<server, cleanup>>
    /\ UNCHANGED <<serveResults, shutdown, broken, requests, stopping, signalling, db,
                   cleanupCancelled>>

----------------------------------------------------------------------------
(* The servers and their requests *)

\* Shutdown was not called.
Open(s) == shutdown[s] \in {"none", "asked"}

\* Mutant of ServeReturns: an error is sent, and then the end of the server too.
ServeReturnsTwice(s, err) ==
    /\ server' = [server EXCEPT ![s] = "down"]
    /\ serveResults' = serveResults \o <<err, "nil">>
    /\ broken' = (broken \/ (err = "error" /\ \A other \in Servers : Open(other)))

\* listenAndServe: ErrServerClosed, which follows Shutdown, counts as no error.
ServeReturns(s, err) ==
    /\ server' = [server EXCEPT ![s] = "down"]
    /\ serveResults' = Append(serveResults, err)
    /\ broken' = (broken \/ (err = "error" /\ \A other \in Servers : Open(other)))

Listen(s) ==
    /\ server[s] = "starting" /\ Open(s)
    /\ \/ server' = [server EXCEPT ![s] = "serving"] /\ UNCHANGED <<serveResults, broken>>
       \/ ServeReturns(s, "error")
    /\ UNCHANGED <<phase, result, shutdown, requests, stopping, signalling, resources>>

AcceptFails(s) ==
    /\ server[s] = "serving" /\ Open(s)
    /\ ServeReturns(s, "error")
    /\ UNCHANGED <<phase, result, shutdown, requests, stopping, signalling, resources>>

ServerClosed(s) ==
    /\ server[s] \in {"starting", "serving"} /\ ~Open(s)
    /\ ServeReturns(s, "nil")
    /\ UNCHANGED <<phase, result, shutdown, requests, stopping, signalling, resources>>

\* The listener is open until Shutdown is called.
Accept(r, s) ==
    /\ Alive
    /\ ~Running(r)
    /\ server[s] = "serving" /\ Open(s)
    /\ requests' = [requests EXCEPT ![r] =
                       [at |-> s, left |-> IF s = "public" THEN RequestTimeout ELSE 0,
                        ready |-> FALSE]]
    /\ UNCHANGED <<phase, result, serving, stopping, signalling, resources>>

\* readyz and CheckReady: unready while draining, and otherwise what the ping of
\* the database says, which has the readiness timeout to say it.
CheckReady(r) ==
    LET request == requests[r] IN
    /\ Alive
    /\ request.at = "public" /\ ~request.ready
    /\ \/ /\ draining
          /\ requests' = [requests EXCEPT ![r] = Idle]
       \/ /\ ~draining
          /\ requests' = [requests EXCEPT ![r] =
                [at |-> "public", ready |-> TRUE,
                 left |-> IF request.left < ReadinessTimeout THEN request.left
                                                             ELSE ReadinessTimeout]]
    /\ UNCHANGED <<phase, result, serving, stopping, signalling, resources>>

\* The request is answered; one that asked for readiness, with what its ping returned.
Finish(r) ==
    /\ Alive
    /\ Running(r)
    /\ requests' = [requests EXCEPT ![r] = Idle]
    /\ UNCHANGED <<phase, result, serving, stopping, signalling, resources>>

----------------------------------------------------------------------------
(* Server.Shutdown: close the listener, wait for the requests or the context *)

\* Mutant of ContextDone: the context has no timeout.
ContextDoneWhenCancelled == cancelled

ContextDone == cancelled \/ drainLeft = 0

CallShutdown(s) ==
    /\ shutdown[s] = "asked"
    /\ shutdown' = [shutdown EXCEPT ![s] = "called"]
    /\ UNCHANGED <<phase, result, server, serveResults, broken, requests, stopping, signalling,
                   resources>>

ShutdownReturns(s) ==
    /\ shutdown[s] = "called"
    /\ \/ /\ \A r \in Requests : requests[r].at # s
          /\ shutdown' = [shutdown EXCEPT ![s] = "nil"]
       \/ /\ ContextDone
          /\ shutdown' = [shutdown EXCEPT ![s] = "error"]
    /\ UNCHANGED <<phase, result, server, serveResults, broken, requests, stopping, signalling,
                   resources>>

\* shutdownServers returns when both have.
ShutdownResult ==
    IF \E s \in Servers : shutdown[s] \notin {"nil", "error"} THEN "none"
    ELSE IF \E s \in Servers : shutdown[s] = "error" THEN "error"
    ELSE "nil"

----------------------------------------------------------------------------
(* run *)

\* Between signal.Notify and signal.Stop.
Notified == {"select", "signalled", "unready", "draining", "await", "close", "last",
             "failed", "failed_unready", "failing", "deferred"}

\* signal.Notify does not block: what the channel has no room for is dropped.
Signal ==
    /\ phase \in Notified
    /\ sent < MaxSignals
    /\ sent' = sent + 1
    /\ signals' = IF signals < ChannelSize THEN signals + 1 ELSE signals
    /\ UNCHANGED <<phase, result, serving, requests, stopping, resources>>

FirstSignal ==
    /\ Step("select", "signalled")
    /\ signals > 0
    /\ signals' = signals - 1
    /\ UNCHANGED <<result, serving, requests, stopping, sent, resources>>

\* run takes the oldest result there is.
ReceiveResult(from, to) ==
    /\ Step(from, to)
    /\ serveResults # <<>>
    /\ result' = Head(serveResults)
    /\ serveResults' = Tail(serveResults)
    /\ UNCHANGED <<server, shutdown, broken, requests, stopping, signalling, resources>>

\* Mutants of ServerFailed: run returns at once; readiness is left as it is.
ServerFailedReturns == ReceiveResult("select", "deferred")
ServerFailedStillReady == ReceiveResult("select", "failed_unready")

\* The result is what run returns, unless the drain fails.
ServerFailed == ReceiveResult("select", "failed")

\* readiness.beginDrain, on either way.
BeginDrain ==
    /\ Step("signalled", "unready") \/ Step("failed", "failed_unready")
    /\ draining' = TRUE
    /\ UNCHANGED <<result, serving, requests, drainLeft, cancelled, forced, signalling,
                   resources>>

\* The shutdown context is made, and the goroutines of shutdownServers.
StartShutdown ==
    /\ Step("unready", "draining") \/ Step("failed_unready", "failing")
    /\ shutdown' = [s \in Servers |-> "asked"]
    /\ UNCHANGED <<result, server, serveResults, broken, requests, stopping, signalling,
                   resources>>

\* Mutant of FailureDrained: what is returned is how the drain went.
FailureDrainedForgets ==
    /\ Step("failing", "deferred")
    /\ ShutdownResult # "none"
    /\ result' = ShutdownResult
    /\ cancelled' = TRUE
    /\ UNCHANGED <<serving, requests, draining, drainLeft, forced, signalling, resources>>

\* After a failure run waits for the drain, signals or not, and closes nothing by force.
FailureDrained ==
    /\ Step("failing", "deferred")
    /\ ShutdownResult # "none"
    /\ result' = IF ShutdownResult = "error" THEN "error" ELSE result
    /\ cancelled' = TRUE
    /\ UNCHANGED <<serving, requests, draining, drainLeft, forced, signalling, resources>>

Drained ==
    /\ phase = "draining"
    /\ \/ ShutdownResult = "nil" /\ phase' = "last"
       \/ ShutdownResult = "error" /\ phase' = "close"
    /\ cancelled' = TRUE
    /\ UNCHANGED <<result, serving, requests, draining, drainLeft, forced, signalling,
                   resources>>

SecondSignal ==
    /\ Step("draining", "await")
    /\ signals > 0
    /\ signals' = signals - 1
    /\ cancelled' = TRUE
    /\ forced' = TRUE
    /\ UNCHANGED <<result, serving, requests, draining, drainLeft, sent, resources>>

AwaitShutdown ==
    /\ Step("await", "close")
    /\ ShutdownResult # "none"
    /\ UNCHANGED <<result, serving, requests, stopping, signalling, resources>>

\* closeServers drops the connections; the handlers behind them are not waited for.
CloseServers ==
    /\ \/ Step("close", "last") /\ UNCHANGED result
       \/ Step("close", "deferred") /\ result' = "error"
    /\ UNCHANGED <<serving, requests, stopping, signalling, resources>>

\* The drain has run its course: run returns the result of the server that ended first.
LastResult == ReceiveResult("last", "deferred")

----------------------------------------------------------------------------
(* The deferred calls, last deferred first *)

\* Mutant of StopCleanup: the runner is told to stop and not waited for.
StopCleanupWithoutWaiting ==
    /\ Step("deferred", "close_db")
    /\ cleanupCancelled' = TRUE
    /\ UNCHANGED <<result, serving, requests, stopping, signalling, db, cleanup>>

\* signal.Stop and cancelCleanup.
StopCleanup ==
    /\ Step("deferred", "wait_cleanup")
    /\ cleanupCancelled' = TRUE
    /\ UNCHANGED <<result, serving, requests, stopping, signalling, db, cleanup>>

WaitCleanup ==
    /\ Step("wait_cleanup", "close_db")
    /\ cleanup = "done"
    /\ UNCHANGED <<result, serving, requests, stopping, signalling, resources>>

\* main returns, and every goroutine goes with the process.
CloseDatabase ==
    /\ Step("close_db", "exited")
    /\ db' = "closed"
    /\ UNCHANGED <<result, serving, requests, stopping, signalling, cleanup, cleanupCancelled>>

----------------------------------------------------------------------------
(* The cleanup runner, and time *)

CleanupTick ==
    /\ Alive
    /\ cleanup = "waiting"
    /\ cleanup' = "cleaning"
    /\ UNCHANGED <<phase, result, serving, requests, stopping, signalling, db, cleanupCancelled>>

CleanupPassEnds ==
    /\ Alive
    /\ cleanup = "cleaning"
    /\ cleanup' = "waiting"
    /\ UNCHANGED <<phase, result, serving, requests, stopping, signalling, db, cleanupCancelled>>

CleanupStops ==
    /\ Alive
    /\ cleanup = "waiting" /\ cleanupCancelled
    /\ cleanup' = "done"
    /\ UNCHANGED <<phase, result, serving, requests, stopping, signalling, db, cleanupCancelled>>

Draining == phase \in {"draining", "failing"}

\* Deadlines are urgent: a public request ends by its own, and so does a drain, whose
\* goroutines start at once.
ClockTick ==
    LET public == {r \in Requests : requests[r].at = "public"} IN
    /\ Alive
    /\ \A r \in public : requests[r].left > 0
    /\ Draining => drainLeft > 0
    /\ \A s \in Servers : shutdown[s] # "asked"
    /\ requests' = [r \in Requests |-> IF r \in public THEN [requests[r] EXCEPT !.left = @ - 1]
                                                         ELSE requests[r]]
    /\ drainLeft' = IF Draining THEN drainLeft - 1 ELSE drainLeft
    /\ UNCHANGED <<phase, result, serving, draining, cancelled, forced, signalling, resources>>

\* Bound: the process is gone.
Gone == phase = "exited" /\ UNCHANGED vars

Run ==
    \/ OpenDatabase \/ Construct \/ FirstSignal \/ ServerFailed \/ BeginDrain \/ StartShutdown
    \/ FailureDrained \/ Drained \/ SecondSignal \/ AwaitShutdown \/ CloseServers \/ LastResult
    \/ StopCleanup \/ WaitCleanup \/ CloseDatabase

Next ==
    \/ Run \/ Signal \/ ClockTick \/ Gone
    \/ \E s \in Servers :
          \/ Listen(s) \/ AcceptFails(s) \/ ServerClosed(s)
          \/ CallShutdown(s) \/ ShutdownReturns(s)
    \/ \E r \in Requests : CheckReady(r) \/ Finish(r) \/ \E s \in Servers : Accept(r, s)
    \/ CleanupTick \/ CleanupPassEnds \/ CleanupStops

\* Goroutines that can go on do, and time passes; a public request
\* ends by its deadline, and nothing is asked of a scrape.  The runner selects between its
\* ticker and its context at random, so it does not miss the context for ever.
Fairness ==
    /\ WF_vars(Run) /\ WF_vars(ClockTick) /\ WF_vars(CleanupPassEnds) /\ SF_vars(CleanupStops)
    /\ \A s \in Servers : /\ WF_vars(Listen(s)) /\ WF_vars(ServerClosed(s))
                          /\ WF_vars(CallShutdown(s)) /\ WF_vars(ShutdownReturns(s))
    /\ \A r \in Requests : WF_vars(requests[r].at = "public" /\ Finish(r))

Spec == Init /\ [][Next]_vars /\ Fairness

----------------------------------------------------------------------------
(* Properties *)

\* The channels never hold more than they have room for, so no goroutine is
\* left blocked on a send (serveResults, shutdownSignals).
RuntimeTypeOK ==
    /\ phase \in Notified \cup {"open", "construct", "wait_cleanup", "close_db", "exited"}
    /\ result \in {"none", "nil", "error"}
    /\ db \in {"none", "open", "closed"}
    /\ server \in [Servers -> {"none", "starting", "serving", "down"}]
    /\ shutdown \in [Servers -> {"none", "asked", "called", "nil", "error"}]
    /\ serveResults \in Seq({"nil", "error"}) /\ Len(serveResults) <= ChannelSize
    /\ signals \in 0..ChannelSize
    /\ drainLeft \in 0..ShutdownTimeout
    /\ \A r \in Requests : requests[r].at \in Servers \cup {"none"}
    /\ cleanup \in {"none", "waiting", "cleaning", "done"}

\* The database is not closed under the cleanup runner (the order of run's
\* deferred calls): "The idempotency-replay cleanup worker stops when HTTP
\* shutdown completes, before the database closes."
CleanupBeforeDatabase == db = "closed" => cleanup \in {"none", "done"}

\* Unless a second signal asks for it, no public request is cut short, by closeServers
\* or by the database closing under it, given a shutdown timeout longer than any
\* request lasts: "Request-owned work is allowed to finish during that bounded period."
PublicRequestsFinish ==
    RequestTimeout < ShutdownTimeout /\ ~forced /\ (phase = "close" \/ db = "closed")
        => \A r \in Requests : requests[r].at # "public"

\* Once a drain has lasted longer than a readiness check may, nobody is told that
\* the gateway is ready, although CheckReady reads draining and then waits for the
\* database: "GET /readyz becomes unavailable immediately when draining starts so
\* traffic is removed promptly".  The answers in flight are the only late ones.
ReadyAnswersEnd ==
    drainLeft + ReadinessTimeout < ShutdownTimeout => \A r \in Requests : ~requests[r].ready

\* A server that fails while neither has been told to stop makes the process exit
\* with an error, whether run sees the failure first or a signal that came at the
\* same time, and however the drain and the other server end.
FailureReported == phase = "exited" /\ broken => result = "error"

\* A signal or a failed server ends the process, whatever its requests do:
\* run neither drains for ever nor waits on a channel no one sends to.
Terminates == (signals > 0 \/ serveResults # <<>>) ~> phase = "exited"
=============================================================================
