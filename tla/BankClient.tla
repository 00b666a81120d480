----------------------------- MODULE BankClient -----------------------------
(***************************************************************************)
(* The gateway's Mock Bank adapter (internal/mockbank/client.go) composed  *)
(* with the bank of MockBank.  An operation makes a first try and, after   *)
(* a transient failure and a delay, a second one with the same key.  Each  *)
(* try has a time limit of its own; a call whose try was given up goes on  *)
(* at the bank.  Time is counted in ticks while an operation runs.         *)
(***************************************************************************)
EXTENDS MockBank

CONSTANTS Clients,                \* goroutines of the gateway that use the adapter
          InitialAttemptTimeout,
          RetryDelay,
          RetryAttemptTimeout,
          CompletionReserve,      \* paymentCommandCompletionReserve
          PaymentCommandTimeout,
          NetworkFaults           \* subset of {"connection", "cancel"}

\* Config validation at startup.
BudgetsFit ==
    /\ {InitialAttemptTimeout, RetryDelay, RetryAttemptTimeout} \subseteq Nat \ {0}
    /\ {CompletionReserve, PaymentCommandTimeout} \subseteq Nat
    /\ InitialAttemptTimeout + RetryDelay + RetryAttemptTimeout + CompletionReserve
          < PaymentCommandTimeout

ASSUME BudgetAssumption == BudgetsFit
ASSUME NetworkFaultsAssumption == NetworkFaults \subseteq {"connection", "cancel"}

VARIABLES try,        \* where retryTransient is
          operation,  \* the request it sends, the same in both tries
          serving,    \* the bank's call that serves the current try
          remaining,  \* ticks left of the current timeout or delay
          elapsed,    \* ticks since the operation began, up to the command timeout
          outcomes    \* history: the definite outcomes operations returned

clientVars == <<try, operation, serving, remaining, elapsed, outcomes>>
systemVars == <<bankVars, clientVars>>

ClientInit ==
    /\ BankInit
    /\ try = [k \in Clients |-> "idle"]
    /\ operation = [k \in Clients |-> NoBankRequest]
    /\ serving = [k \in Clients |-> NoCall]
    /\ remaining = [k \in Clients |-> 0]
    /\ elapsed = [k \in Clients |-> 0]
    /\ outcomes = {}

----------------------------------------------------------------------------
(* What a try makes of the bank's answer *)

InvalidInputCodes == {"invalid_card", "invalid_cvv", "invalid_amount"}
StateConflictCodes ==
    {"authorization_not_found", "capture_not_found", "amount_mismatch",
     "authorization_already_used", "already_captured", "already_voided", "already_refunded"}

\* Mutant of AuthorizeKind: a code nobody expects is returned as it is.
AuthorizeKindPassingCode(code) ==
    CASE code = "" -> "success"
      [] code \in {"card_expired", "insufficient_funds"} -> "declined"
      [] OTHER -> code

AuthorizeKind(code) ==
    CASE code = "" -> "success"
      [] code \in {"card_expired", "insufficient_funds"} -> "declined"
      [] code \in InvalidInputCodes \cup
            {"amount_mismatch", "authorization_not_found", "capture_not_found"} -> "invalid_input"
      [] OTHER -> "bank_unavailable"

\* Mutant of SettleKind: an expired authorization is a state conflict too.
SettleKindNoExpiry(code) ==
    CASE code = "" -> "success"
      [] code \in InvalidInputCodes -> "invalid_input"
      [] code \in StateConflictCodes \cup {"authorization_expired"} -> "state_conflict"
      [] OTHER -> "bank_unavailable"

\* Mutant of SettleKind: an authorization that is used up counts as settled.
SettleKindUsedIsDone(code) ==
    CASE code \in {"", "authorization_already_used", "already_captured"} -> "success"
      [] code = "authorization_expired" -> "authorization_expired"
      [] code \in InvalidInputCodes -> "invalid_input"
      [] code \in StateConflictCodes -> "state_conflict"
      [] OTHER -> "bank_unavailable"

\* Captures and voids.
SettleKind(code) ==
    CASE code = "" -> "success"
      [] code = "authorization_expired" -> "authorization_expired"
      [] code \in InvalidInputCodes -> "invalid_input"
      [] code \in StateConflictCodes -> "state_conflict"
      [] OTHER -> "bank_unavailable"

\* Mutant of RefundKind: a capture that is already refunded counts as success.
RefundKindRefundedIsDone(code) ==
    CASE code \in {"", "already_refunded"} -> "success"
      [] code \in InvalidInputCodes -> "invalid_input"
      [] code \in StateConflictCodes -> "state_conflict"
      [] OTHER -> "bank_unavailable"

RefundKind(code) ==
    CASE code = "" -> "success"
      [] code \in InvalidInputCodes -> "invalid_input"
      [] code \in StateConflictCodes -> "state_conflict"
      [] OTHER -> "bank_unavailable"

OutcomeKind(path, code) ==
    CASE path = "authorizations" -> AuthorizeKind(code)
      [] path = "refunds" -> RefundKind(code)
      [] OTHER -> SettleKind(code)

isRetryablePaymentError(kind) == kind \in {"bank_timeout", "bank_unavailable"}

----------------------------------------------------------------------------
(* retryTransient *)

\* Mutant of Budget: the second try has only the command's own limit.
BudgetOfCommand(step) ==
    CASE step = "first" -> InitialAttemptTimeout
      [] step = "wait" -> RetryDelay
      [] step = "second" -> PaymentCommandTimeout

Budget(step) ==
    CASE step = "first" -> InitialAttemptTimeout
      [] step = "wait" -> RetryDelay
      [] step = "second" -> RetryAttemptTimeout

Trying(k) == try[k] \in {"first", "second"}
IsServed(c) == \E k \in Clients : serving[k] = c

Enter(k, step) ==
    /\ try' = [try EXCEPT ![k] = step]
    /\ remaining' = [remaining EXCEPT ![k] = Budget(step)]
    /\ serving' = [serving EXCEPT ![k] = NoCall]
    /\ UNCHANGED <<operation, elapsed, outcomes>>

Return(k, kind, id) ==
    /\ try' = [try EXCEPT ![k] = "idle"]
    /\ operation' = [operation EXCEPT ![k] = NoBankRequest]
    /\ serving' = [serving EXCEPT ![k] = NoCall]
    /\ remaining' = [remaining EXCEPT ![k] = 0]
    /\ elapsed' = [elapsed EXCEPT ![k] = 0]
    /\ outcomes' = IF isRetryablePaymentError(kind) THEN outcomes
                   ELSE outcomes \cup {[operation |-> operation[k], kind |-> kind, id |-> id]}

\* Mutant of EndTry: every transient failure is retried.
EndTryAlwaysRetry(k, kind, id) ==
    IF isRetryablePaymentError(kind) THEN Enter(k, "wait")
    ELSE Return(k, kind, id)

\* A try ends: the first one is followed by the delay when it may be repeated.
EndTry(k, kind, id) ==
    IF try[k] = "first" /\ isRetryablePaymentError(kind) THEN Enter(k, "wait")
    ELSE Return(k, kind, id)

\* The service captures and voids the authorization of a payment, and refunds its
\* capture, under the identifier and with the amount of the earlier operation.
FollowsUp(r, o) ==
    /\ o.kind = "success" /\ o.id = r.reference
    /\ o.operation.path = IF r.path = "refunds" THEN "captures" ELSE "authorizations"
    /\ r.path # "voids" => r.amount = o.operation.amount

StartOperation(k, r) ==
    /\ try[k] = "idle"
    /\ r.path # "authorizations" => \E o \in outcomes : FollowsUp(r, o)
    /\ try' = [try EXCEPT ![k] = "first"]
    /\ operation' = [operation EXCEPT ![k] = r]
    /\ remaining' = [remaining EXCEPT ![k] = Budget("first")]
    /\ UNCHANGED <<bankVars, serving, elapsed, outcomes>>

\* The request of a try reaches the bank.
Send(k, c) ==
    /\ Trying(k) /\ serving[k] = NoCall
    /\ MayArrive(operation[k])
    /\ Receive(c, operation[k])
    /\ serving' = [serving EXCEPT ![k] = c]
    /\ UNCHANGED <<try, operation, remaining, elapsed, outcomes>>

\* The bank's answer reaches the try it belongs to.
Answered(k, c) ==
    /\ serving[k] = c
    /\ BankRespond(c)
    /\ EndTry(k, OutcomeKind(operation[k].path, response[c].error), response[c].id)

\* The request or its answer is lost on the way, or the answer cannot be decoded.
ConnectionError(k) ==
    /\ "connection" \in NetworkFaults
    /\ Trying(k)
    /\ EndTry(k, "bank_unavailable", 0)
    /\ UNCHANGED bankVars

\* The bank dies while it serves the try.
BankDies(k, c) ==
    /\ serving[k] = c
    /\ Abort(c)
    /\ EndTry(k, "bank_unavailable", 0)

AttemptTimeout(k) ==
    /\ Trying(k) /\ remaining[k] = 0
    /\ EndTry(k, "bank_timeout", 0)
    /\ UNCHANGED bankVars

DelayOver(k) ==
    /\ try[k] = "wait" /\ remaining[k] = 0
    /\ Enter(k, "second")
    /\ UNCHANGED bankVars

\* The caller of the gateway goes away: a try or the delay ends, and no try follows.
Cancelled(k) ==
    /\ "cancel" \in NetworkFaults
    /\ try[k] # "idle"
    /\ Return(k, "bank_unavailable", 0)
    /\ UNCHANGED bankVars

----------------------------------------------------------------------------
(* The bank's own steps, and time *)

BankWorks(c) == WorkOn(c) /\ UNCHANGED clientVars

\* A call that no try waits for answers nobody, or is cancelled with its connection.
Unheard(c) ==
    /\ ~ IsServed(c)
    /\ BankRespond(c) \/ Abort(c)
    /\ UNCHANGED clientVars

BankClock ==
    /\ (\E id \in 1..MaxTransactions : ExpireHold(id)) \/ DayPasses \/ CleanupIdempotencyKeys
    /\ UNCHANGED clientVars

\* Timers fire on time: the clock waits for one that is due.
Tick ==
    /\ \E k \in Clients : try[k] # "idle"
    /\ \A k \in Clients : try[k] # "idle" => remaining[k] > 0
    /\ remaining' = [k \in Clients |-> IF try[k] = "idle" THEN 0 ELSE remaining[k] - 1]
    /\ elapsed' = [k \in Clients |-> IF try[k] = "idle" THEN 0
                                 ELSE Min({elapsed[k] + 1, PaymentCommandTimeout})]
    /\ UNCHANGED <<bankVars, try, operation, serving, outcomes>>

TimerStep(k) == AttemptTimeout(k) \/ DelayOver(k)

ClientNext ==
    \/ \E k \in Clients :
          \/ \E r \in BankRequests : StartOperation(k, r)
          \/ \E c \in Calls : Send(k, c) \/ Answered(k, c) \/ BankDies(k, c)
          \/ ConnectionError(k) \/ TimerStep(k) \/ Cancelled(k)
    \/ \E c \in Calls : BankWorks(c) \/ Unheard(c)
    \/ BankClock
    \/ Tick

ClientSpec == ClientInit /\ [][ClientNext]_systemVars

\* Go's timers fire and the clock advances; nothing is asked of bank or network.
FairClientSpec ==
    ClientSpec /\ WF_systemVars(Tick) /\ \A k \in Clients : WF_systemVars(TimerStep(k))

----------------------------------------------------------------------------
(* Properties *)

OutcomeKinds == {"success", "declined", "invalid_input", "authorization_expired",
                 "state_conflict"}

\* Every variable of the adapter stays within its type.
ClientTypeOK ==
    /\ try \in [Clients -> {"idle", "first", "wait", "second"}]
    /\ operation \in [Clients -> BankRequests \cup {NoBankRequest}]
    /\ serving \in [Clients -> Calls \cup {NoCall}]
    /\ remaining \in [Clients -> Nat]
    /\ elapsed \in [Clients -> Nat]
    /\ outcomes \subseteq [operation : BankRequests, kind : OutcomeKinds,
                           id : 0..MaxTransactions]

\* Whatever was lost, retried or answered late, a success the adapter returns
\* names a ledger entry that the operation's own key made, of the operation's
\* type and about its reference.
ReportedOutcomeReal ==
    \A o \in outcomes : o.kind = "success" =>
        /\ o.id \in DOMAIN transactions
        /\ origin[o.id] = BankSlot(o.operation)
        /\ transactions[o.id].type = TransactionType(o.operation.path)
        /\ transactions[o.id].reference = o.operation.reference

\* A capture or void returns state_conflict, which the adapter does not retry,
\* only about a hold that is settled for good (possibly by its own first try):
\* an expiry, a lost answer or a crash never gives up a hold that is still open.
\* That is so as long as the bank's reads of its database do not fail: it reports a
\* failed SELECT of the hold as authorization_not_found, which is taken for a conflict.
ConflictMeansSettled ==
    \A o \in outcomes :
        o.kind = "state_conflict" /\ o.operation.path \in {"captures", "voids"} =>
            transactions[o.operation.reference].status # "ACTIVE"

\* However its tries end, an operation leaves the gateway the reserve of the
\* command timeout to record the outcome.
LeavesReserve ==
    \A k \in Clients : elapsed[k] + CompletionReserve < PaymentCommandTimeout

\* Every operation of the adapter returns, even when the bank or the network
\* never answers.
OperationsReturn == \A k \in Clients : try[k] # "idle" ~> try[k] = "idle"

\* "Both calls use the already-persisted Bank Operation Key, so a retry recovers
\* an ambiguous external outcome instead of creating a duplicate bank operation":
\* one key and path make at most one ledger entry.
NoDuplicateBankOperation ==
    \A i, j \in DOMAIN origin : origin[i] = origin[j] => i = j
=============================================================================
