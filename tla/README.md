# Verification of the payment gateway

TLA+ models of the payment gateway (`src/gateway`) and of the mock bank it calls
(`src/mock-bank`), TLC runs that check them on small instances, and TLAPS proofs
of the properties that matter most for every size of the system.

`PROJECT.json` lists the runs, maps every definition to the source lines it
models, and records the hazards the properties are aimed at.

## The system

**Payment service** (`gateway/internal/app`). Five commands: authorize, retry
authorization, capture, void, refund. A command claims an idempotency slot
(operation, key), calls the bank with a *bank operation key* stored beside the
payment, and then completes the claim (new payment status and replay snapshot in
one transaction) or releases it. Commands run concurrently in any number of
gateway processes and share only PostgreSQL.

**Payment store** (`gateway/internal/postgres`). Two tables. `payments` holds the
status, the four bank identifiers, a bank operation key for each operation and the
card fingerprint. `idempotency_records` holds one row per slot: in progress with
its `claimed_at`, or completed with a snapshot. A claim older than *stuck after*
may be recovered by another attempt. A completed record is deleted after the
replay window.

**Payment aggregate** (`gateway/internal/domain`). The status graph
pending → authorized | declined, authorized → captured | voided | expired,
captured → refunded, and the rules which fields each status has.

**Bank client** (`gateway/internal/mockbank`). Turns the bank's HTTP answers into
results and errors and retries a transient failure once with the same key.

**HTTP API** (`gateway/internal/httpapi`, `gateway/internal/serviceauth`).
Authentication, scopes, rate limits (a token bucket per principal and route
class), the command deadline, the mapping of errors to statuses, panic recovery.

**Cleanup worker** (`gateway/internal/idempotencycleanup`), **process runtime**
(`gateway/cmd/payment-gateway`): servers, signals, shutdown, configuration checks.

**Mock bank** (`mock-bank/bank`). HTTP calls pass an idempotency middleware (cache
by key and path), a failure injector, and then run one database transaction on
accounts and a ledger of holds, captures, voids and refunds. Old cached responses
are deleted hourly.

What makes it hard: two attempts on one slot or one payment, a process that dies
between the claim, the bank call and the completion, deadlines that pass while a
statement runs, commits whose outcome is not known, copies of a payment written
back after another command changed the row, statements that do not name the
attempt they act for, and bank calls that overlap under one key.

## Modules

| Module | Models | State |
|---|---|---|
| `PaymentDomain` | `domain/payment.go`: the row, `Mark...`/`Set...` methods, `LoadPayment`, the table's CHECK | none (operators) |
| `PaymentStore` | `postgres/payment_store.go`: claim, recover, complete, release, cleanup statements | `payments`, `idempotencyRecords` |
| `PaymentService` | `app/payment_service.go`: the five commands as steps of concurrent attempts | per attempt: `pc`, `request`, `age`, `paymentID`, `payment`, `reply`; key generator; two history variables |
| `PaymentLifecycle` | what the gateway promises about one payment: status graph, bank identifiers kept | `ledger` |
| `MockBank` | the bank's middleware, services and repositories, statement by statement | `balances`, `transactions`, `idempotencyKeys`, `locks`, per call: `pc`, `request`, `caching`, `entry`, `response`; two history variables |
| `BankClient` | `mockbank/client.go` composed with `MockBank`: both tries of an operation, timeouts, delay, lost messages | per client: `try`, `operation`, `serving`, `remaining`, `elapsed`; one history variable |
| `BankLedger` | what the bank promises: one ledger entry per accepted request in one step, responses it remembers | `ledger`, `cached`, `refused` |
| `GatewayBank` | `PaymentService` composed with `BankLedger` | those of both |
| `RateLimiter` | `httpapi/rate_limiter.go` over the token bucket of `golang.org/x/time/rate` | `clock`, `buckets`, per request: `pc`, `bucketOf`, `sampledAt`, `reservation`; history of what was admitted, pledged and promised |
| `HttpApi` | middleware, handlers and authentication, composed with `RateLimiter` | per request: `exchange`, `answer`; one history variable |
| `Runtime` | `cmd/payment-gateway/runtime.go`: both servers, signals, drain, cleanup worker, database | `phase` of `run`, one variable per goroutine, channel and context |
| `MCPaymentService`, `MCGatewayBank`, `MCMockBank`, `MCBankClient`, `MCHttpApi`, `MCRuntime` | instances for TLC | |
| `PaymentServiceProofs` | theorems about `PaymentService`, and that it implements `PaymentLifecycle` | |
| `GatewayBankProofs` | theorems about `GatewayBank` | |
| `MockBankProofs`, `MockBankLedgerProofs` | theorems about `MockBank`; the second has its sums and proves that it implements `BankLedger` | |
| `BankClientProofs` | theorems about `BankClient` | |
| `HttpApiProofs`, `AdmissionProofs` | theorems about `HttpApi` with `RateLimiter`; the second proves what the rate limiter admits | |
| `RuntimeProofs` | theorems about `Runtime` | |

Two of these are abstract: `PaymentLifecycle` is what `PaymentService` is shown to
implement, `BankLedger` what `MockBank` is shown to implement, and `GatewayBank`
then uses `BankLedger` in place of `MockBank`.

### PaymentService

An attempt is one call of a command. Its steps are the points at which other
actors can come between:

- `recover`: the UPDATE of `recoverIdempotencyClaim`, with the checks of a
  recovered payment (`Recover`, `RejectRecovery`, `NothingToRecover`);
- `insert`: the INSERT with the payment row locked, its checks, the bank operation
  key and the commit (`StartAuthorization`, `ClaimPayment`, `RejectClaim`,
  `SlotTaken`);
- `select`: the separate SELECT that reads a taken slot in a later snapshot
  (`Select`);
- `bank`: the bank call and the transition the answer causes on the in-memory copy
  (`BankAnswer`); the bank may answer anything the client can return;
- `complete` or `release`: `CompletePaymentCommand`, `ReleasePaymentCommand`
  (`Complete`, `RejectComplete`, `Release`);
- `respond`: the command has returned.

`DatabaseError` is any statement that fails without effect: always possible after
the deadline, and at any time with the fault `"database"`. A client that goes away
early has the same effect. The same fault lets a commit take effect and report an
error. `Crash` (fault `"crash"`) ends an attempt at any step.

Time is kept as ages that saturate one past the largest value a comparison tells
apart. `Tick` ages everything at once: the gateway uses one business clock. A
statement is assumed to take effect before its context's deadline or not at all.

Fingerprints are the tuples they hash. Amount, customer and order are one value
`order`; `authorization_expires_at` is set and cleared with
`bank_authorization_id` and is represented by it.

Row locks are not modelled in the gateway: a transaction is one step because the
rows it decides on stay locked to its end. Recovery locks the record and then the
payment, completion the payment and then the record; they could wait for each
other only on one slot with two live holders, which `ExclusiveClaim` excludes. The
cycle itself is an argument from that property and not checked.

### MockBank

A call goes `lookup → handle → lock → create → adjust → commit → store → respond`.
`lock` is the SELECT … FOR UPDATE of the row the service decides on (the account
for an authorization, the hold or the capture for the others) with the service's
checks; `create` the INSERT under the unique index; `adjust` the UPDATE that
needs the account's row; `commit` makes the writes visible and frees the rows.
The key-share lock that the INSERT's foreign key takes on the account is left out: it
waits for the row that `adjust` waits for next, in the same direction.
The middleware's lookup and store are steps of their own. Faults: `"chaos"` (the
injected failure), `"database"` (any statement fails, a commit is ambiguous, a
lookup or store fails), `"abort"` (the caller cancels or the process dies).
A failed first read is reported as if the row did not exist, as in the code.
Expiry of a hold and the 24 hours of a cached response are separate, untimed
events.

### BankClient

`retryTransient` goes `first → wait → second`; a definite answer or a second failure
returns. `Send` starts a call at the bank and `Answered` is the bank's answer
classified as in the four attempt functions. A try can also end by its timeout
(`AttemptTimeout`), a lost message or undecodable body (`ConnectionError`), the
bank's death (`BankDies`) or the caller going away (`Cancelled`). Its call then
goes on at the bank unheard, or is cancelled (`Unheard`). A follow-up operation
uses only identifiers the adapter returned, with the amount of the operation they came
from (`FollowsUp`): the service takes both from the payment. Timers are urgent: `Tick` waits for a
timer that is due. Only definite outcomes are recorded in `outcomes`. The command
context's own deadline needs no action: the budget assumption puts it after the
last try, and `LeavesReserve` checks that.

### GatewayBank

In `PaymentService` the bank may answer anything. Here an answer is success only if
the bank carries the request out now (`CarryOut`) or remembers that it did, and
"expired" only if it refuses the hold for good (`ExpiredAnswer`). Declines, errors
and silence are always possible (`OtherAnswer`). Every request ever sent may be
carried out later, when nobody waits for it (`LateCall`): this covers the second try
of the adapter, attempts that crashed and calls that outlived their deadline. With
the lapse `"cache"` the bank forgets responses, with `"expiry"` holds expire.
`BankLedger` is the bank without its statements; that `MockBank` implements it is
checked by the run `bank_calls` and proved with every fault (`BankImplementsLedger`).

### HttpApi and RateLimiter

A request goes `new → clock → allow → admitted → handle → answered`, or
`allow → reserve → cancel → limited → answered`. The steps are the points of
`Reserve` between which other requests can use the bucket: the lookup under the
map lock, reading the clock, `AllowN`, `ReserveN`, `CancelAt`. `Advanced`, `Taken`,
`Reserved`, `Restored` and `Cancelled` follow the arithmetic of the library,
including times that run backwards and what a cancelled reservation gives back.
The clock has ticks of a fraction of a second; tokens are counted in the ticks it
takes to earn them (`Interval`), which keeps them whole. A delay that `ReserveN`
computed is `pledged`; it becomes a promise when `Reserve` returns it. The application
behind the handlers returns any of its results. 422 is not among the statuses of
`RefusedBeforeRunning`: constructors answer it before the application is called, and a
bank that finds the input invalid is answered with it afterwards.

### Runtime

`phase` is the line `run` is at, down to its deferred calls in the order they run.
Receiving a signal or a server's result, setting `draining` (`BeginDrain`) and starting
the drain (`StartShutdown`) are three steps on both ways, between which requests come
and readiness is asked. `CheckReady` reads `draining` and, when it is unset, leaves the
request waiting for the database (`ready`) for at most the readiness timeout. `result`
is what `run` returns; `broken` records that a server failed before any was shut down.
The goroutines are variables: `server` for `listenAndServe`, `shutdown` for
`Server.Shutdown`, `cleanup` for the worker. `serveResults` and `signals` are
channels of two. A public request ends by its own deadline. A scrape of the metrics
server need not end. Deadlines are urgent: time waits for a request or a drain whose
time is up, and for the goroutines of `shutdownServers` to start.

## Runs

| Run | Instance | Checks |
|---|---|---|
| `settle` | 2 attempts; two orders under one key, capture, void and refund of the payment; crashes; any bank answer | `TypeOK`, `ReplayConsistent`, `OneKeyPerBankOperation`, `StoredPaymentsLoadable`, `SnapshotWasReached`, `OpenClaimsRecoverable`, `ImplementsLifecycle` (refinement) |
| `gateway_bank` | 2 attempts and the bank's ledger; authorize, capture, void; missed deadlines, late calls, forgotten responses, expiry | `ExclusiveClaim`, `MoneyAgrees`, `NothingTaken` |
| `capture_learned` | 1 attempt at a time and the bank's ledger; authorize, retry, capture; crashes, database faults, missed deadlines, expiry | `OneKeyPerBankOperation`, `ReplayConsistent`, `OpenClaimsResolved`, `CaptureLearned` |
| `open_claim` | retry races authorization, nothing fails | violates `FinishedAttemptLeavesNoClaim` |
| `ledger` | 2 calls; two authorizations that cannot both be paid, capture, void, refund; all faults | `BankTypeOK`, `SettledOnce`, `BalancesMatchLedger`, `NoOverdraft`, `OneAnswerPerReference` |
| `bank_calls` | 2 calls, nothing fails | `CallsAnswered`, `ImplementsBankLedger` (refinement) |
| `client` | 1 client, 2 calls; authorize, capture, void; injected failures, aborts, lost messages, cancellation | `ClientTypeOK`, `ReportedOutcomeReal`, `ConflictMeansSettled`, `LeavesReserve` |
| `client_returns` | 1 client, 2 calls; authorize, capture, refund; only timeouts | `ReportedOutcomeReal`, `OperationsReturn` |
| `same_key` | 1 client, 2 calls, one authorization, only timeouts | violates `NoDuplicateBankOperation` |
| `http` | 3 requests; a credential with both scopes, one that may only write, an unknown one; good and bad input | `HttpTypeOK`, `AdmittedWithinLimit`, `RefusedBeforeRunning`, `RetryAfterExact` |
| `retry_after` | 4 requests in one bucket | violates `RetryAfterHonoured` |
| `runtime` | 2 requests, 3 signals, request timeout 2, readiness timeout 1, shutdown timeout 3 | `RuntimeTypeOK`, `CleanupBeforeDatabase`, `PublicRequestsFinish`, `ReadyAnswersEnd`, `FailureReported`, `Terminates` |

**Bounds.** These are the bounds of the runs; the theorems below have none of them
except where they name one. Two attempts make every pairwise race on a slot or a
row; what three can meet on is the claim, and `ExclusiveClaim` is proved for any
number. Different requests under one key are the two orders of `settle`, which are
interchangeable (`SettleSymmetry`); commits that report an error and took effect are in
`capture_learned`. The theorem `ReplaysConsistent` covers every set of requests and
faults. Timeouts keep the
configured order with the smallest distance. One payment is enough where commands
interact only through one row. In `gateway_bank` attempts that miss their deadline
stand for crashed ones: both leave a claim, a call and a copy behind. There one hold
per key (`MaxHolds`) is enough for a capture and a void to meet on it; the second hold
that the overlap of `same_key` can make is left out there. In the bank, two holds of 2 and 1 on an
account of 2 are the smallest overdraft, and `MaxHolds` bounds the authorizations
that may arrive. A client has two calls: the one it waits for and one that outlived
its try; a client with no call free can only time out. Three requests and a burst of
one are enough for an admission, a rejection and a newcomer between its steps; the
reservation that disturbs a punctual caller needs a fourth. In `runtime`, three
signals are one more than the channel and the code take, and the timeouts are the
smallest with which a request can ask for readiness late and a drain outlast both.
Attempts, orders, calls and requests
are symmetric; symmetry is not used with liveness.

**Fairness.** In `capture_learned`: time passes (weak, `Tick`); callers keep sending
every request, and each is answered in time, and not with a database error, again and
again (`InTime`); a recovery, the bank's verdict in time and the completing
transaction do not fail every time they are possible (strong). This is what a
caller that retries over a long enough time gets. It rests on `config.go`, which
refuses bank call budgets that leave no reserve before the command timeout. The bank
is assumed to remember its response: see the hazard at `payment_service.go:541` for
what happens otherwise. In `bank_calls`: a goroutine keeps running, and PostgreSQL
grants a row to a waiter that keeps waiting. In `client_returns`: only the clock and
the client's timers; the bank may hang and the network may deliver nothing. In
`runtime`: goroutines that can go on do (weak), and the worker's `select` between
its ticker and its context does not miss the context for ever (strong: Go chooses
at random). Nothing is asked of scrapes, of signals or of a server's failure.

**Disagreements with the documentation.** `open_claim`: when completion is refused
because another command moved the payment, the command returns without releasing
its claim; `CONTEXT.md` says a finished attempt never leaves a claim open. The
claim can then be neither recovered (the payment's status no longer fits) nor
cleaned up (only completed records are). `same_key`: ADR 0018 says
that a retry with the stored key does not create a duplicate bank operation. The
call of a timed-out first try can still run when the retry looks up the bank's
cache; both miss it and one authorization places two holds. For captures, voids
and refunds the bank's locks and unique index prevent the duplicate, but the retry
then returns `state_conflict` for what its own first try did. `retry_after`: a comment
in `rate_limiter.go` says that calculating Retry-After reserves no future capacity, so
that callers can retry exactly when the header says. Between `ReserveN` and `CancelAt`
it does: a caller that waited as long as it was told comes while another rejected
request holds the next token, and is refused although nobody was admitted.
`RetryAfterExact` shows that the comment holds where rejections do not overlap.

**What the properties leave out.** `ConflictMeansSettled` holds while the bank's reads
of its database do not fail; a failed SELECT is answered as `authorization_not_found`,
which the adapter takes for a conflict. `AdmittedWithinLimit` says nothing of a bucket
that requests reached in another order than they read the clock. `OneAnswerPerReference`
is about captures, voids and refunds, not about authorizations (see `same_key`).
`ReadyAnswersEnd` bounds how late a readiness check may say ready; that a check in
flight when the drain begins still says so is how the code works. `FailureReported` is
about failures before the first `Shutdown`: a server that fails between the shutdown of
the other and its own may go unreported, because the other's result can be first. A
listener whose `Accept` failed is down before `draining` is set; nothing is claimed of
that moment.
ADR 0016 also has `GET /healthz` succeed until the process exits; it is
served by the public server, whose listener closes when the drain begins (`Accept`), so
only callers already connected can see that. No run states it.

## Proofs

The proof modules make Zenon the default prover (`USE Zenon`); a leaf that needs
arithmetic names SMT. Each is checked from nothing in a few minutes.

About `PaymentService`, for arbitrary sets of payments, cards, requests, attempts and
faults, from the assumptions named in the modules: requests have the shape the
constructors give them, and a claim counts as stuck only after more than the command
timeout.

- `TypeCorrect`: `Spec => []TypeOK`. The inductive invariant `TypeInv` adds
  `Placed`: an attempt past `idle` has a request of `Requests`, and one that called
  the bank has a payment.
- `ClaimExclusive`: `Spec => []ExclusiveClaim`. `ExclusiveClaim` is not inductive:
  an attempt could take over a claim that happens to look old. `ClaimInv` adds
  that a live holder's record is in progress under its own fingerprint and payment,
  with `claimedAge` equal to the holder's own age. That age is below the
  command timeout, hence below *stuck after*, so no recovery applies to it
  (`HolderNotStuck`); no INSERT does either because the slot is taken. The
  ownerless release and completion therefore only ever meet the attempt's own
  claim.
- `ReplaysConsistent`: `Spec => []ReplayConsistent`, inductive with `TypeInv`: a
  completed record is only changed by cleanup, and only after the window, when the
  promise has ended.
- `OneBankOperationKey`: `Spec => []OneKeyPerBankOperation`. Strengthened with
  `RowKeys` (while a row admits an operation, every bank call of it used the key in
  the row) and `CopyKeys` (a working copy has the row's authorization key and, once
  the bank answered, a status its operation leads to), because completion writes
  the whole copy back and must leave the status that admits the operation.
- `PaymentsLoadable`, `SnapshotsWereReached`, `ClaimsRecoverable`:
  `StoredPaymentsLoadable`, `SnapshotWasReached` and `OpenClaimsRecoverable` always
  hold. `ServiceImplementsLifecycle`: `Spec => ImplementsLifecycle`. All four rest on
  `StoredInv`. Completion replaces the row by a copy taken before the bank call, so
  the invariant has to say what the copy is worth by then: it is loadable, and while
  the row still has the status the operation expects, the copy continues the row's
  bank identifiers (`CopyInv`). What is written is then loadable
  (`RowsInOrder`), and a row only moves along the status graph (`Advances`), so a
  snapshot once taken stays behind its row (`SnapshotsReached`) and a claim's payment
  stays where the claim found it or past it (`ClaimsCommitted`).

About `GatewayBank`, for any payments, attempts, faults and lapses, and any number of
holds per key (`MaxHolds`):

- `GatewayBankImplementsService`: `GatewayBankSpec => Spec`. Every theorem about
  `PaymentService` therefore holds here too.
- `MoneyAlwaysAgrees`, `NothingEverTaken`: `MoneyAgrees` and `NothingTaken`. The
  inductive invariant `MoneyInv` has five parts. A hold is settled by one entry, and
  by no capture once the bank refused it (`LedgerInv`). Every entry was made for a
  call that the gateway sent about that payment (`EntriesAskedFor`). No bank operation
  key is used for two payments, in rows, copies or calls (`KeysOwned`, a function from
  keys to owners). A row's identifiers are backed by entries, a declined payment was
  never settled, an expired one was refused (`RowBank`), and the same for copies on
  their way to a row (`CopyBank`). Keys are what ties the two sides together: a call
  that is carried out late, by a try nobody waits for, can only touch its own payment.

About `MockBank`, for any accounts, opening balances, requests, finite set of calls and
faults, and any `MaxHolds`. Requests have the shape the handlers accept
(`BankRequestsAssumption`), and two of them with one key and path have the same
reference and amount (`BankKeysAssumption`): the gateway's keys are used that way, as
`KeysOwned` shows for every call the gateway sends.

- `BankTypeCorrect`, `BankNoOverdraft`, `BankSettledOnce`,
  `BankOneAnswerPerReference`. A transaction decides at its first read and writes
  later. `BankInv` says that what it decided on still stands, because it holds the
  lock of that row (`OpenInv`), what it may answer (`AnswerInv`), and which entry each
  cached or given answer is about (`OriginInv`, `HistoryInv`). `CountInv` keeps
  the holds in the ledger and the authorizations on their way within `MaxHolds`.
- `BankBalancesMatchLedger`: both balances of an account are what its ledger adds up
  to. That a sum changes by one entry's amount when that entry
  does is shown by a least counterexample on the ledger's length, with the
  well-foundedness of the naturals.
- `BankImplementsLedger`: `BankSpec => ImplementsBankLedger`. The run checks the
  refinement where nothing fails; the theorem has failed statements, ambiguous commits
  and aborted calls.

About `BankClient`, from the same assumptions and the budgets `config.go` demands:

- `ClientImplementsBank`: `ClientSpec => BankSpec`. The bank's theorems hold for the
  bank as the adapter drives it.
- `ClientTypeCorrect`, `ClientReportsReal`, `ClientLeavesReserve`. `ClientInv` says
  that a call serves at most one client and carries that client's operation
  (`TryInv`), and that the time used so far plus the most the remaining steps can take
  stays within the budget (`TimeInv`).
- `ClientConflictMeansSettled`: `ConflictMeansSettled`, if the bank's statements do
  not fail (`"database" \notin BankFaults`, as in the run `client`). The hypothesis is
  needed: the bank answers a failed read as if the row did not exist, and the adapter
  reports that as a state conflict although the hold may still be open. `ConflictInv`
  adds that operations name holds of the bank, with their amounts (`Fits`), and that a
  conflict about to be answered is one for good (`AnswersConflict`).

About `HttpApi`, for any requests, credentials and rate limits that pass validation:

- `HttpTypeCorrect`, `HttpRefusedBeforeRunning` and `HttpRetryAfterExact`.
  `RefusedBeforeRunning` follows from where in the chain a request can be (`AtLimiter`,
  `RunInv`). For `RetryAfterExact`, `RetryInv` says that, where rejections do not
  overlap, there is a token at the promised time for whoever comes first, counting
  what the reservation that is still to be cancelled gives back.
- `HttpAdmittedWithinLimit`: `HttpSpec => []AdmittedWithinLimit`, where requests come
  to a bucket in the order in which they read the clock. The difficulty is `CancelAt`.
  It gives back the reserved token less what was reserved after it, so of two
  overlapping reservations the first to be cancelled may give back nothing; a later
  one gives back all of its own, and how much depends on the order. No bound on a
  single cancellation is inductive, and neither is the sum of what outstanding
  reservations may give back. The invariant `OrderedInv` uses a price that doubles
  with every token the bucket is in debt (`Price`). A reservation that is still to be
  cancelled is worth the price of the debt it was made at (`Weights`). What the live
  reservations of a bucket are worth together, plus the price of the debt its
  admissions account for (`Base`), is never more than the price of the debt it is in
  (`Paid`). Taking a token at once raises both sides alike (`PaidAllow`: below a debt
  of nothing the price is a line); a reservation raises the debt by one token, and the
  price by exactly what the reservation is worth (`PaidReserve`); a cancellation lowers
  the price by no more than the reservation is worth, because the price is convex
  (`PaidCancel`). Since no reservation is worth
  less than nothing, the debt is at least what was admitted less burst and earnings
  (`PaidBase`). Reservations made before the bucket's time have nothing to give back
  and are not counted (`Live`). That `Price` exists, and what a sum over a set
  of reservations does when one comes or goes, is shown by a least counterexample,
  as for the ledger. Where requests overtake each other between reading the clock and
  using the bucket (`disordered`), the bucket's time goes back and the same interval
  is earned twice; the property says nothing then.

About `Runtime`, for any number of requests and signals and any positive timeouts:

- `NoRequestCutShort`: `Spec => []PublicRequestsFinish`. The invariant `RuntimeInv`
  relates two clocks: once the listener is closed, every public request has at most
  the time left that the drain has, less the difference of the two timeouts
  (`DrainOutlasts`). A drain that runs out therefore finds no public request. A
  context that was cancelled was cancelled by a second signal or after both servers
  had drained (`CancelInv`), and `run` closes things only after both
  (`PhaseInv`).
- `ReadinessEndsPromptly`: `Spec => []ReadyAnswersEnd`. The same race with a shorter
  clock: a check that found `draining` unset did so with the whole drain ahead, and has
  at most the readiness timeout left, less what the drain has used (`ReadinessInv`).
- `FailureIsReported`: `Spec => []FailureReported`. Until a server is shut down the
  channel of results holds nothing but errors, so an error is first in it when a server
  fails on its own, and stays first until `run` takes one result (`FailureInv`).
- `CleanupStopsFirst`, `ChannelsBounded`: the other safety properties of the run
  `runtime`, from the same invariant; the channel of server results is bounded because
  each goroutine sends once (`ResultsInv`).

Checked by TLC only:

- the liveness properties `CaptureLearned`, `OpenClaimsResolved`, `CallsAnswered`,
  `OperationsReturn` and `Terminates`: fairness is outside the prover's reach;
- the three disagreements with the documentation, which are counterexamples.

## Not modelled

Metrics and collectors, logging, connection set-up, random identifiers and generated
code: no decision of the system reads or changes state through them. Read-only
queries (`FindByID`, `Search`, the GET operations of the bank). Parsing of environment
variables; what `config.go` demands of the values is an assumption where a module
needs it. Which strings, amounts and dates are valid (command constructors, the bank's
validators): the models take the verdict as an input. Hashing of credentials and
request fingerprints: hashes are the values they hash.

## Plan

Pure operators for the validators (Luhn, expiry, amounts) against reference
definitions.
