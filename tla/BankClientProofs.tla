-------------------------- MODULE BankClientProofs --------------------------
(***************************************************************************)
(* Machine-checked proofs about BankClient, for any number of goroutines,  *)
(* calls and requests, and any time limits the configuration accepts.      *)
(***************************************************************************)
EXTENDS BankClient, MockBankLedgerProofs

\* The prover of a leaf that names no other; arithmetic is for SMT.
USE Zenon

----------------------------------------------------------------------------
(* The inductive invariant *)

\* What an operation has of the time budget by the end of a step.
Allowance(step) ==
    CASE step = "idle" -> 0
      [] step = "first" -> InitialAttemptTimeout
      [] step = "wait" -> InitialAttemptTimeout + RetryDelay
      [] step = "second" -> InitialAttemptTimeout + RetryDelay + RetryAttemptTimeout

\* A goroutine has an operation while it is not idle, and the call that serves
\* its try is about it.
TryInv(k) ==
    /\ try[k] # "idle" => operation[k] \in BankRequests
    /\ ~ Trying(k) => serving[k] = NoCall
    /\ serving[k] # NoCall => pc[serving[k]] # "idle" /\ request[serving[k]] = operation[k]

TimeInv(k) == elapsed[k] + remaining[k] <= Allowance(try[k])

ClientInv ==
    /\ BankInv
    /\ ClientTypeOK
    /\ \A k \in Clients : TryInv(k) /\ TimeInv(k)
    /\ \A j, k \in Clients : serving[j] = serving[k] /\ serving[j] # NoCall => j = k
    /\ ReportedOutcomeReal

----------------------------------------------------------------------------
(* The bank behind the adapter *)

\* No entry of the ledger goes away, changes its kind or becomes active again.
LEMMA LedgerKeeps ==
    ASSUME BankInv, [BankNext]_bankVars, NEW i \in DOMAIN transactions
    PROVE  /\ i \in DOMAIN transactions' /\ origin'[i] = origin[i]
           /\ transactions'[i].type = transactions[i].type
           /\ transactions'[i].reference = transactions[i].reference
           /\ transactions'[i].amount = transactions[i].amount
           /\ transactions[i].status # "ACTIVE" => transactions'[i].status # "ACTIVE"
<1>1. CASE UNCHANGED <<balances, transactions, origin>>
  BY <1>1
<1>2. ASSUME NEW c \in Calls, Commit(c)
      PROVE  /\ i \in DOMAIN transactions' /\ origin'[i] = origin[i]
             /\ transactions'[i].type = transactions[i].type
             /\ transactions'[i].reference = transactions[i].reference
             /\ transactions'[i].amount = transactions[i].amount
             /\ transactions[i].status # "ACTIVE" => transactions'[i].status # "ACTIVE"
  <2>1. Extended(transactions, transactions', entry[c])
    BY <1>2, CommittedLedger DEF Commit
  <2>2. /\ DOMAIN transactions = 1..Len(transactions) /\ Len(transactions) \in Nat
        /\ Len(origin) = Len(transactions) /\ origin \in Seq(BankSlots)
    BY LedgerFits, SMT DEF BankInv, OriginInv, BankTypeOK
  <2>3. origin'[i] = origin[i]
    BY <1>2, <2>2, SMT DEF Commit
  <2>. QED
    BY <2>1, <2>2, <2>3, SMT DEF Extended
<1>3. ASSUME NEW id \in 1..MaxTransactions, ExpireHold(id)
      PROVE  /\ i \in DOMAIN transactions' /\ origin'[i] = origin[i]
             /\ transactions'[i].type = transactions[i].type
             /\ transactions'[i].reference = transactions[i].reference
             /\ transactions'[i].amount = transactions[i].amount
             /\ transactions[i].status # "ACTIVE" => transactions'[i].status # "ACTIVE"
  <2>1. transactions \in Seq(Entry) /\ origin' = origin
    BY <1>3 DEF BankInv, BankTypeOK, ExpireHold, history
  <2>2. transactions[i] \in Entry /\ transactions[id] \in Entry
    BY <1>3, <2>1, SMT DEF ExpireHold
  <2>3. transactions' = [transactions EXCEPT ![id] = [transactions[id] EXCEPT !.expired = TRUE]]
    BY <1>3 DEF ExpireHold
  <2>. QED
    BY <2>1, <2>2, <2>3 DEF Entry
<1>. QED
  BY <1>1, <1>2, <1>3, LedgerSteps

\* Every step of the system is a step of the bank, or none of its.
LEMMA ClientBankStep ==
    ASSUME ClientInv, [ClientNext]_systemVars
    PROVE  [BankNext]_bankVars
<1>1. ASSUME NEW k \in Clients, NEW c \in Calls, Send(k, c)
      PROVE  BankNext
  <2>1. operation[k] \in BankRequests
    BY <1>1 DEF Send, Trying, ClientInv, TryInv
  <2>. QED
    BY <1>1, <2>1 DEF Send, BankNext
<1>2. ASSUME NEW k \in Clients, NEW c \in Calls, Answered(k, c) \/ BankDies(k, c)
      PROVE  BankNext
  BY <1>2 DEF Answered, BankDies, BankNext, ServeCall
<1>3. ASSUME NEW c \in Calls, BankWorks(c) \/ Unheard(c)
      PROVE  BankNext
  BY <1>3 DEF BankWorks, Unheard, BankNext, ServeCall
<1>4. CASE BankClock
  BY <1>4 DEF BankClock, BankNext
<1>5. ASSUME NEW k \in Clients,
             \/ \E r \in BankRequests : StartOperation(k, r)
             \/ ConnectionError(k) \/ TimerStep(k) \/ Cancelled(k)
      PROVE  UNCHANGED bankVars
  BY <1>5 DEF StartOperation, ConnectionError, TimerStep, AttemptTimeout, DelayOver, Cancelled
<1>6. CASE Tick \/ UNCHANGED systemVars
  BY <1>6 DEF Tick, systemVars
<1>. QED
  BY <1>1, <1>2, <1>3, <1>4, <1>5, <1>6 DEF ClientNext

\* A call of the bank keeps its request until it answers or is cut off.
LEMMA CallKept ==
    ASSUME BankInv, NEW c \in Calls, NEW d \in Calls, pc[d] # "idle",
           \/ WorkOn(c)
           \/ c # d /\ (BankRespond(c) \/ Abort(c))
           \/ c # d /\ \E r \in BankRequests : Receive(c, r)
    PROVE  pc'[d] # "idle" /\ request'[d] = request[d]
<1>1. pc \in [Calls -> {"idle", "lookup", "handle", "lock", "create", "adjust", "commit",
                        "store", "respond"}]
      /\ request \in [Calls -> BankRequests \cup {NoBankRequest}]
  BY DEF BankInv, BankTypeOK
<1>2. CASE WorkOn(c)
  <2>1. request' = request
    BY <1>2 DEF WorkOn, Replay, Miss, FailureInjection, Validate, Accept, Reject, Create,
                Duplicate, AdjustBalances, Commit, Store, StatementError
  <2>2. \E step \in {"handle", "lock", "create", "adjust", "commit", "store", "respond"} :
           pc' = [pc EXCEPT ![c] = step]
    BY <1>2 DEF WorkOn, Replay, Miss, FailureInjection, Validate, Accept, Reject, Create,
                Duplicate, AdjustBalances, Commit, Store, StatementError, RollBack, Answer, GoTo
  <2>. QED
    BY <1>1, <2>1, <2>2
<1>3. CASE c # d /\ (BankRespond(c) \/ Abort(c))
  BY <1>1, <1>3 DEF BankRespond, Abort, EndCall, GoTo
<1>4. CASE c # d /\ \E r \in BankRequests : Receive(c, r)
  BY <1>1, <1>4 DEF Receive, GoTo
<1>. QED
  BY <1>2, <1>3, <1>4

----------------------------------------------------------------------------
(* The steps of the adapter *)

TransientKinds == {"bank_timeout", "bank_unavailable"}

\* What ends a try: an answer of the bank, or a failure that may be transient.
TryEnds(k, kind, id) ==
    /\ Trying(k)
    /\ EndTry(k, kind, id)
    /\ kind \in OutcomeKinds \cup TransientKinds
    /\ id \in 0..MaxTransactions
    /\ \/ kind \in TransientKinds
       \/ \E c \in Calls : /\ serving[k] = c /\ BankRespond(c)
                           /\ kind = OutcomeKind(operation[k].path, response[c].error)
                           /\ id = response[c].id

\* Every code of the bank is an outcome or transient, and only "" is a success.
LEMMA OutcomeKindType ==
    ASSUME NEW path, NEW code
    PROVE  /\ OutcomeKind(path, code) \in OutcomeKinds \cup TransientKinds
           /\ OutcomeKind(path, code) = "success" => code = ""
BY DEF OutcomeKind, AuthorizeKind, RefundKind, SettleKind, OutcomeKinds, TransientKinds

\* What a step of the client and the bank together is for the client alone.
LEMMA ClientSteps ==
    ASSUME ClientInv, [ClientNext]_systemVars
    PROVE  \/ UNCHANGED clientVars
           \/ \E k \in Clients : \E r \in BankRequests : StartOperation(k, r)
           \/ \E k \in Clients : \E c \in Calls : Send(k, c)
           \/ \E k \in Clients : \E kind, id : TryEnds(k, kind, id)
           \/ \E k \in Clients : DelayOver(k) \/ Cancelled(k)
           \/ Tick
<1>1. 0 \in 0..MaxTransactions
  BY MaxHoldsAssumption, SMT DEF MaxTransactions
<1>2. \A k \in Clients, c \in Calls : serving[k] = c => Trying(k)
  BY CallsAssumption DEF ClientInv, TryInv
<1>3. ASSUME NEW k \in Clients, NEW c \in Calls, Answered(k, c)
      PROVE  \E kind, id : TryEnds(k, kind, id)
  <2>1. PICK kind, id : /\ kind = OutcomeKind(operation[k].path, response[c].error)
                        /\ id = response[c].id
    OBVIOUS
  <2>2. id \in 0..MaxTransactions
    BY <2>1 DEF ClientInv, BankInv, BankTypeOK, Response
  <2>3. kind \in OutcomeKinds \cup TransientKinds
    BY <2>1, OutcomeKindType
  <2>4. EndTry(k, kind, id)
    BY <1>3, <2>1 DEF Answered, EndTry, Enter, Return
  <2>5. TryEnds(k, kind, id)
    BY <1>2, <1>3, <2>1, <2>2, <2>3, <2>4 DEF TryEnds, Answered
  <2>. QED
    BY <2>5
<1>4. ASSUME NEW k \in Clients,
             \/ \E c \in Calls : BankDies(k, c)
             \/ ConnectionError(k) \/ AttemptTimeout(k)
      PROVE  \E kind, id : TryEnds(k, kind, id)
  <2>1. TryEnds(k, "bank_unavailable", 0) \/ TryEnds(k, "bank_timeout", 0)
    BY <1>1, <1>2, <1>4 DEF BankDies, ConnectionError, AttemptTimeout, TryEnds, TransientKinds
  <2>. QED
    BY <2>1
<1>5. ASSUME NEW c \in Calls, BankWorks(c) \/ Unheard(c)
      PROVE  UNCHANGED clientVars
  BY <1>5 DEF BankWorks, Unheard
<1>6. CASE BankClock \/ UNCHANGED systemVars
  BY <1>6 DEF BankClock, systemVars
<1>. QED
  BY <1>3, <1>4, <1>5, <1>6 DEF ClientNext, TimerStep

\* The budget of each step, and what config validation makes of their sum.
LEMMA Budgets ==
    /\ {Budget("first"), Budget("wait"), Budget("second")} \subseteq Nat
    /\ {Allowance("idle"), Allowance("first"), Allowance("wait"), Allowance("second")} \subseteq Nat
    /\ Allowance("idle") = 0 /\ Allowance("first") = Budget("first")
    /\ Allowance("wait") = Allowance("first") + Budget("wait")
    /\ Allowance("second") = Allowance("wait") + Budget("second")
    /\ PaymentCommandTimeout \in Nat /\ CompletionReserve \in Nat
    /\ Allowance("second") + CompletionReserve < PaymentCommandTimeout
BY BudgetAssumption, SMT DEF BudgetsFit, Budget, Allowance

\* The shorter of two timeouts is one of them.
LEMMA MinOfTwo ==
    ASSUME NEW m \in Nat, NEW n \in Nat
    PROVE  Min({m, n}) \in Nat /\ Min({m, n}) <= m
<1>1. \E x \in {m, n} : \A y \in {m, n} : x <= y
  BY SMT DEF Nat
<1>2. Min({m, n}) \in {m, n} /\ \A y \in {m, n} : Min({m, n}) <= y
  BY <1>1 DEF Min
<1>. QED
  BY <1>2

\* An operation ends.
LEMMA ReturnStep ==
    ASSUME ClientInv, NEW k \in Clients, NEW kind \in OutcomeKinds \cup TransientKinds,
           NEW id \in 0..MaxTransactions, try[k] # "idle", Return(k, kind, id)
    PROVE  ClientTypeOK' /\ \A j \in Clients : TimeInv(j)'
<1>1. ClientTypeOK /\ operation[k] \in BankRequests
  BY DEF ClientInv, TryInv
<1>2. outcomes' \subseteq [operation : BankRequests, kind : OutcomeKinds, id : 0..MaxTransactions]
  <2>1. ~ isRetryablePaymentError(kind) => kind \in OutcomeKinds
    BY DEF isRetryablePaymentError, TransientKinds
  <2>2. ~ isRetryablePaymentError(kind) =>
           [operation |-> operation[k], kind |-> kind, id |-> id]
              \in [operation : BankRequests, kind : OutcomeKinds, id : 0..MaxTransactions]
    BY <1>1, <2>1
  <2>. QED
    BY <1>1, <2>2 DEF Return, ClientTypeOK
<1>3. ClientTypeOK'
  BY <1>1, <1>2 DEF Return, ClientTypeOK
<1>4. ASSUME NEW j \in Clients PROVE TimeInv(j)'
  <2>1. CASE j = k
    <3>1. try'[k] = "idle" /\ elapsed'[k] = 0 /\ remaining'[k] = 0
      BY <1>1 DEF Return, ClientTypeOK
    <3>. QED
      BY <2>1, <3>1, SMT DEF TimeInv, Allowance
  <2>2. CASE j # k
    <3>1. try'[j] = try[j] /\ elapsed'[j] = elapsed[j] /\ remaining'[j] = remaining[j]
      BY <1>1, <2>2 DEF Return, ClientTypeOK
    <3>2. TimeInv(j)
      BY DEF ClientInv
    <3>. QED
      BY <3>1, <3>2 DEF TimeInv, Allowance
  <2>. QED
    BY <2>1, <2>2
<1>. QED
  BY <1>3, <1>4

\* The delay, or the second try, begins.
LEMMA EnterStep ==
    ASSUME ClientInv, NEW k \in Clients, NEW step \in {"wait", "second"}, Enter(k, step),
           step = "wait" => try[k] = "first", step = "second" => try[k] = "wait"
    PROVE  ClientTypeOK' /\ \A j \in Clients : TimeInv(j)'
<1>1. ClientTypeOK /\ Budget(step) \in Nat
  BY Budgets DEF ClientInv
<1>2. ClientTypeOK'
  BY <1>1 DEF Enter, ClientTypeOK
<1>3. ASSUME NEW j \in Clients PROVE TimeInv(j)'
  <2>1. TimeInv(j) /\ elapsed[j] \in Nat /\ remaining[j] \in Nat
    BY <1>1 DEF ClientInv, ClientTypeOK
  <2>2. CASE j = k
    <3>1. try'[k] = step /\ elapsed'[k] = elapsed[k] /\ remaining'[k] = Budget(step)
      BY <1>1 DEF Enter, ClientTypeOK
    <3>2. elapsed[k] <= Allowance(try[k]) /\ Allowance(try[k]) \in Nat
      BY <2>1, <2>2, Budgets, SMT DEF TimeInv
    <3>3. Allowance(step) = Allowance(try[k]) + Budget(step)
      BY Budgets
    <3>4. elapsed'[k] + remaining'[k] <= Allowance(try'[k])
      BY <1>1, <2>1, <2>2, <3>1, <3>2, <3>3, SMT
    <3>. QED
      BY <2>2, <3>4 DEF TimeInv, Allowance
  <2>3. CASE j # k
    <3>1. try'[j] = try[j] /\ elapsed'[j] = elapsed[j] /\ remaining'[j] = remaining[j]
      BY <1>1, <2>3 DEF Enter, ClientTypeOK
    <3>. QED
      BY <2>1, <3>1 DEF TimeInv, Allowance
  <2>. QED
    BY <2>2, <2>3
<1>. QED
  BY <1>2, <1>3

\* Types and the time budget, whatever happens.
LEMMA ClientTimeStep ==
    ASSUME ClientInv, [ClientNext]_systemVars
    PROVE  ClientTypeOK' /\ \A k \in Clients : TimeInv(k)'
<1>1. ClientTypeOK /\ \A k \in Clients : TimeInv(k)
  BY DEF ClientInv
<1>2. CASE UNCHANGED clientVars
  BY <1>1, <1>2 DEF clientVars, ClientTypeOK, TimeInv, Allowance
<1>3. ASSUME NEW k \in Clients, NEW r \in BankRequests, StartOperation(k, r)
      PROVE  ClientTypeOK' /\ \A j \in Clients : TimeInv(j)'
  <2>1. Budget("first") \in Nat /\ Allowance("first") = Budget("first") /\ Allowance("idle") = 0
    BY Budgets
  <2>2. ClientTypeOK'
    BY <1>1, <1>3, <2>1 DEF StartOperation, ClientTypeOK
  <2>3. ASSUME NEW j \in Clients PROVE TimeInv(j)'
    <3>1. CASE j = k
      <4>1. try[k] = "idle" /\ try'[k] = "first" /\ elapsed'[k] = elapsed[k]
            /\ remaining'[k] = Budget("first")
        BY <1>1, <1>3 DEF StartOperation, ClientTypeOK
      <4>2. elapsed[k] = 0
        BY <1>1, <2>1, <4>1, SMT DEF TimeInv, ClientTypeOK
      <4>3. elapsed'[k] + remaining'[k] <= Allowance(try'[k])
        BY <2>1, <4>1, <4>2, SMT
      <4>. QED
        BY <3>1, <4>3 DEF TimeInv, Allowance
    <3>2. CASE j # k
      <4>1. try'[j] = try[j] /\ elapsed'[j] = elapsed[j] /\ remaining'[j] = remaining[j]
        BY <1>1, <1>3, <3>2 DEF StartOperation, ClientTypeOK
      <4>. QED
        BY <1>1, <4>1 DEF TimeInv, Allowance
    <3>. QED
      BY <3>1, <3>2
  <2>. QED
    BY <2>2, <2>3
<1>4. ASSUME NEW k \in Clients, NEW c \in Calls, Send(k, c)
      PROVE  ClientTypeOK' /\ \A j \in Clients : TimeInv(j)'
  BY <1>1, <1>4 DEF Send, ClientTypeOK, TimeInv, Allowance
<1>5. ASSUME NEW k \in Clients, NEW kind, NEW id, TryEnds(k, kind, id)
      PROVE  ClientTypeOK' /\ \A j \in Clients : TimeInv(j)'
  <2>1. try[k] # "idle" /\ kind \in OutcomeKinds \cup TransientKinds /\ id \in 0..MaxTransactions
    BY <1>5 DEF TryEnds, Trying
  <2>2. CASE try[k] = "first" /\ Enter(k, "wait")
    BY <2>2, EnterStep
  <2>3. CASE Return(k, kind, id)
    BY <2>1, <2>3, ReturnStep
  <2>. QED
    BY <1>5, <2>2, <2>3 DEF TryEnds, EndTry
<1>6. ASSUME NEW k \in Clients, DelayOver(k)
      PROVE  ClientTypeOK' /\ \A j \in Clients : TimeInv(j)'
  BY <1>6, EnterStep DEF DelayOver
<1>7. ASSUME NEW k \in Clients, Cancelled(k)
      PROVE  ClientTypeOK' /\ \A j \in Clients : TimeInv(j)'
  <2>1. 0 \in 0..MaxTransactions /\ "bank_unavailable" \in OutcomeKinds \cup TransientKinds
    BY MaxHoldsAssumption, SMT DEF MaxTransactions, TransientKinds
  <2>. QED
    BY <1>7, <2>1, ReturnStep DEF Cancelled
<1>8. CASE Tick
  <2>1. ASSUME NEW k \in Clients
        PROVE  remaining'[k] \in Nat /\ elapsed'[k] \in Nat /\ TimeInv(k)'
    <3>1. elapsed[k] \in Nat /\ remaining[k] \in Nat /\ try'[k] = try[k]
          /\ PaymentCommandTimeout \in Nat
      BY <1>1, <1>8, Budgets DEF ClientTypeOK, Tick
    <3>2. CASE try[k] = "idle"
      <4>1. remaining'[k] = 0 /\ elapsed'[k] = 0
        BY <1>8, <3>2 DEF Tick
      <4>. QED
        BY <3>1, <3>2, <4>1, SMT DEF TimeInv, Allowance
    <3>3. CASE try[k] # "idle"
      <4>1. remaining[k] > 0 /\ remaining'[k] = remaining[k] - 1
            /\ elapsed'[k] = Min({elapsed[k] + 1, PaymentCommandTimeout})
        BY <1>8, <3>3 DEF Tick
      <4>2. elapsed'[k] \in Nat /\ elapsed'[k] <= elapsed[k] + 1
        BY <3>1, <4>1, MinOfTwo, SMT
      <4>3. elapsed[k] + remaining[k] <= Allowance(try[k]) /\ Allowance(try[k]) \in Nat
        BY <1>1, Budgets DEF TimeInv, ClientTypeOK
      <4>4. elapsed'[k] + remaining'[k] <= Allowance(try[k])
        BY <3>1, <4>1, <4>2, <4>3, SMT
      <4>5. remaining'[k] \in Nat
        BY <3>1, <4>1, SMT
      <4>6. TimeInv(k)'
        BY <3>1, <4>4 DEF TimeInv, Allowance
      <4>. QED
        BY <4>2, <4>5, <4>6
    <3>. QED
      BY <3>2, <3>3
  <2>2. ClientTypeOK'
    BY <1>1, <1>8, <2>1 DEF Tick, ClientTypeOK
  <2>. QED
    BY <2>1, <2>2
<1>. QED
  BY <1>2, <1>3, <1>4, <1>5, <1>6, <1>7, <1>8, ClientSteps

\* A goroutine that keeps its try and its operation keeps what is said of them,
\* when the call that serves it goes on.
LEMMA TryKept ==
    ASSUME ClientInv, NEW k \in Clients,
           try'[k] = try[k], operation'[k] = operation[k], serving'[k] = serving[k],
           serving[k] # NoCall => pc'[serving[k]] # "idle"
                                  /\ request'[serving[k]] = request[serving[k]]
    PROVE  TryInv(k)'
BY DEF ClientInv, TryInv, Trying

Injective == \A j, k \in Clients : serving[j] = serving[k] /\ serving[j] # NoCall => j = k

\* A try ends, by Return or by Enter: nothing serves the goroutine any more.
LEMMA TryOver ==
    ASSUME ClientInv, NEW k \in Clients, try[k] # "idle",
           (\E step \in {"wait", "second"} : Enter(k, step)) \/ (\E kind, id : Return(k, kind, id)),
           \A j \in Clients \ {k} : serving[j] # NoCall =>
               pc'[serving[j]] # "idle" /\ request'[serving[j]] = request[serving[j]]
    PROVE  Injective' /\ \A j \in Clients : TryInv(j)'
<1>1. ClientTypeOK /\ TryInv(k) /\ Injective
  BY DEF ClientInv, Injective
<1>2. serving' = [serving EXCEPT ![k] = NoCall] /\ serving'[k] = NoCall
  BY <1>1 DEF Enter, Return, ClientTypeOK
<1>3. Injective'
  BY <1>1, <1>2 DEF Injective, ClientTypeOK
<1>4. ASSUME NEW j \in Clients, j # k PROVE TryInv(j)'
  <2>1. try'[j] = try[j] /\ operation'[j] = operation[j] /\ serving'[j] = serving[j]
    BY <1>1, <1>4 DEF Enter, Return, ClientTypeOK
  <2>. QED
    BY <1>4, <2>1, TryKept
<1>5. TryInv(k)'
  <2>1. CASE \E kind, id : Return(k, kind, id)
    <3>1. try'[k] = "idle"
      BY <1>1, <2>1 DEF Return, ClientTypeOK
    <3>. QED
      BY <1>2, <3>1 DEF TryInv, Trying
  <2>2. CASE \E step \in {"wait", "second"} : Enter(k, step)
    <3>1. operation'[k] = operation[k]
      BY <2>2 DEF Enter
    <3>. QED
      BY <1>1, <1>2, <3>1 DEF TryInv, Trying
  <2>. QED
    BY <2>1, <2>2
<1>. QED
  BY <1>3, <1>4, <1>5

\* A try that ends leads to the delay, to the second try or back to the caller.
LEMMA EndTryOver ==
    ASSUME NEW k, NEW kind, NEW id, EndTry(k, kind, id)
    PROVE  (\E step \in {"wait", "second"} : Enter(k, step)) \/ (\E kd, i : Return(k, kd, i))
<1>1. CASE Enter(k, "wait")
  BY <1>1
<1>2. CASE Return(k, kind, id)
  BY <1>2
<1>. QED
  BY <1>1, <1>2 DEF EndTry

\* At any time at most one goroutine waits for a call of the bank, and the call
\* is about its operation.
LEMMA ClientTryStep ==
    ASSUME ClientInv, [ClientNext]_systemVars
    PROVE  Injective' /\ \A k \in Clients : TryInv(k)'
<1>1. /\ BankInv /\ ClientTypeOK /\ Injective /\ NoCall \notin Calls
      /\ \A k \in Clients : TryInv(k)
  BY CallsAssumption DEF ClientInv, Injective
<1>. DEFINE Goal == Injective' /\ \A k \in Clients : TryInv(k)'
            Goes(j) == serving[j] # NoCall =>
                          pc'[serving[j]] # "idle" /\ request'[serving[j]] = request[serving[j]]
<1>2. \A j \in Clients : serving[j] \in Calls \cup {NoCall}
  BY <1>1 DEF ClientTypeOK
<1>3. \A j \in Clients : serving[j] # NoCall => pc[serving[j]] # "idle"
  BY <1>1 DEF TryInv
<1>4. ASSUME UNCHANGED clientVars, \A j \in Clients : Goes(j)
      PROVE  Goal
  <2>1. Injective'
    BY <1>1, <1>4 DEF Injective, clientVars
  <2>2. ASSUME NEW j \in Clients PROVE TryInv(j)'
    BY <1>4, TryKept DEF clientVars
  <2>. QED
    BY <2>1, <2>2
<1>5. ASSUME UNCHANGED bankVars
      PROVE  \A j \in Clients : Goes(j)
  BY <1>3, <1>5 DEF bankVars
<1>6. ASSUME NEW k \in Clients, NEW c \in Calls, serving[k] = c, BankRespond(c) \/ Abort(c)
      PROVE  \A j \in Clients \ {k} : Goes(j)
  <2>1. SUFFICES ASSUME NEW j \in Clients \ {k}, serving[j] # NoCall
                 PROVE  Goes(j)
    OBVIOUS
  <2>2. serving[j] \in Calls /\ serving[j] # c /\ pc[serving[j]] # "idle"
    BY <1>1, <1>2, <1>3, <1>6, <2>1 DEF Injective
  <2>. QED
    BY <1>1, <1>6, <2>2, CallKept
<1>7. ASSUME NEW k \in Clients, NEW r \in BankRequests, StartOperation(k, r)
      PROVE  Goal
  <2>1. /\ UNCHANGED <<bankVars, serving>> /\ try[k] = "idle" /\ operation'[k] = r
        /\ try' = [try EXCEPT ![k] = "first"] /\ operation' = [operation EXCEPT ![k] = r]
    BY <1>1, <1>7 DEF StartOperation, ClientTypeOK
  <2>2. Injective'
    BY <1>1, <2>1 DEF Injective
  <2>3. ASSUME NEW j \in Clients PROVE TryInv(j)'
    <3>1. CASE j = k
      <4>1. serving[k] = NoCall
        BY <1>1, <2>1 DEF TryInv, Trying
      <4>. QED
        BY <2>1, <3>1, <4>1 DEF TryInv
    <3>2. CASE j # k
      <4>1. try'[j] = try[j] /\ operation'[j] = operation[j] /\ serving'[j] = serving[j]
        BY <1>1, <2>1, <3>2 DEF ClientTypeOK
      <4>. QED
        BY <1>5, <2>1, <4>1, TryKept
    <3>. QED
      BY <3>1, <3>2
  <2>. QED
    BY <2>2, <2>3
<1>8. ASSUME NEW k \in Clients, NEW c \in Calls, Send(k, c)
      PROVE  Goal
  <2>1. /\ UNCHANGED <<try, operation>> /\ Trying(k) /\ serving[k] = NoCall /\ pc[c] = "idle"
        /\ serving' = [serving EXCEPT ![k] = c] /\ Receive(c, operation[k])
    BY <1>8 DEF Send, Receive
  <2>2. operation[k] \in BankRequests
    BY <1>1, <2>1 DEF TryInv, Trying
  <2>3. \A j \in Clients : serving[j] # c
    BY <1>1, <1>3, <2>1
  <2>4. Injective'
    BY <1>1, <2>1, <2>3 DEF Injective, ClientTypeOK
  <2>5. ASSUME NEW j \in Clients, j # k PROVE TryInv(j)'
    <3>1. serving'[j] = serving[j]
      BY <1>1, <2>1, <2>5 DEF ClientTypeOK
    <3>2. Goes(j)
      <4>1. SUFFICES ASSUME serving[j] # NoCall PROVE Goes(j)
        OBVIOUS
      <4>2. serving[j] \in Calls /\ serving[j] # c /\ pc[serving[j]] # "idle"
        BY <1>2, <1>3, <2>3, <4>1
      <4>. QED
        BY <1>1, <2>1, <2>2, <4>2, CallKept
    <3>. QED
      BY <2>1, <3>1, <3>2, TryKept
  <2>6. TryInv(k)'
    <3>1. serving'[k] = c /\ pc'[c] = "lookup" /\ request'[c] = operation[k]
      BY <1>1, <2>1 DEF ClientTypeOK, BankInv, BankTypeOK, Receive, GoTo
    <3>. QED
      BY <2>1, <2>2, <3>1 DEF TryInv, Trying
  <2>. QED
    BY <2>4, <2>5, <2>6
<1>9. ASSUME NEW k \in Clients, NEW c \in Calls, Answered(k, c) \/ BankDies(k, c)
      PROVE  Goal
  <2>1. serving[k] = c /\ (BankRespond(c) \/ Abort(c)) /\ \E kind, id : EndTry(k, kind, id)
    <3>1. CASE Answered(k, c)
      <4>1. EndTry(k, OutcomeKind(operation[k].path, response[c].error), response[c].id)
        BY <3>1 DEF Answered
      <4>2. \E kind, id : EndTry(k, kind, id)
        BY <4>1
      <4>. QED
        BY <3>1, <4>2 DEF Answered
    <3>2. CASE BankDies(k, c)
      BY <3>2 DEF BankDies
    <3>. QED
      BY <1>9, <3>1, <3>2
  <2>2. try[k] # "idle"
    BY <1>1, <2>1 DEF TryInv, Trying
  <2>3. \A j \in Clients \ {k} : Goes(j)
    BY <1>6, <2>1
  <2>. QED
    BY <2>1, <2>2, <2>3, EndTryOver, TryOver
<1>10. ASSUME NEW k \in Clients, ConnectionError(k) \/ TimerStep(k) \/ Cancelled(k)
       PROVE  Goal
  <2>1. /\ UNCHANGED bankVars /\ try[k] # "idle"
        /\ \/ \E kind, id : EndTry(k, kind, id)
           \/ \E kind, id : Return(k, kind, id)
           \/ Enter(k, "second")
    BY <1>10 DEF ConnectionError, TimerStep, AttemptTimeout, DelayOver, Cancelled, Trying
  <2>2. \A j \in Clients \ {k} : Goes(j)
    BY <1>5, <2>1
  <2>3. (\E step \in {"wait", "second"} : Enter(k, step)) \/ (\E kd, i : Return(k, kd, i))
    BY <2>1, EndTryOver
  <2>. QED
    BY <2>1, <2>2, <2>3, TryOver
<1>11. ASSUME NEW c \in Calls, BankWorks(c) \/ Unheard(c)
       PROVE  Goal
  <2>1. UNCHANGED clientVars
    BY <1>11 DEF BankWorks, Unheard
  <2>2. ASSUME NEW j \in Clients, serving[j] # NoCall PROVE Goes(j)
    <3>1. serving[j] \in Calls /\ pc[serving[j]] # "idle"
      BY <1>2, <1>3, <2>2
    <3>2. WorkOn(c) \/ (c # serving[j] /\ (BankRespond(c) \/ Abort(c)))
      BY <1>11 DEF BankWorks, Unheard, IsServed
    <3>. QED
      BY <1>1, <3>1, <3>2, CallKept
  <2>. QED
    BY <1>4, <2>1, <2>2
<1>12. CASE BankClock
  <2>1. UNCHANGED <<clientVars, pc, request>>
    BY <1>12 DEF BankClock, ExpireHold, DayPasses, CleanupIdempotencyKeys, callVars
  <2>. QED
    BY <1>3, <1>4, <2>1
<1>13. CASE Tick
  <2>1. UNCHANGED <<bankVars, try, operation, serving>>
    BY <1>13 DEF Tick
  <2>2. Injective'
    BY <1>1, <2>1 DEF Injective
  <2>3. ASSUME NEW j \in Clients PROVE TryInv(j)'
    BY <1>5, <2>1, TryKept
  <2>. QED
    BY <2>2, <2>3
<1>14. CASE UNCHANGED systemVars
  BY <1>4, <1>5, <1>14 DEF systemVars
<1>. QED
  BY <1>7, <1>8, <1>9, <1>10, <1>11, <1>12, <1>13, <1>14 DEF ClientNext

----------------------------------------------------------------------------
(* What operations return *)

\* Every definite outcome is the answer of a call about that operation.
LEMMA NewOutcome ==
    ASSUME ClientInv, [ClientNext]_systemVars, NEW o \in outcomes', o \notin outcomes
    PROVE  \E c \in Calls :
              /\ BankRespond(c) /\ o.operation = request[c] /\ request[c] \in BankRequests
              /\ o.kind = OutcomeKind(request[c].path, response[c].error)
              /\ o.id = response[c].id
<1>1. outcomes' # outcomes
  OBVIOUS
<1>2. ~ UNCHANGED clientVars
  BY <1>1 DEF clientVars
<1>3. PICK k \in Clients : (\E kind, id : TryEnds(k, kind, id)) \/ DelayOver(k) \/ Cancelled(k)
  BY <1>1, <1>2, ClientSteps DEF StartOperation, Send, Tick
<1>4. ~ DelayOver(k) /\ ~ Cancelled(k)
  BY <1>1 DEF DelayOver, Enter, Cancelled, Return, isRetryablePaymentError
<1>5. PICK kind, id : TryEnds(k, kind, id)
  BY <1>3, <1>4
<1>6. /\ ~ isRetryablePaymentError(kind)
      /\ o = [operation |-> operation[k], kind |-> kind, id |-> id]
  BY <1>1, <1>5 DEF TryEnds, EndTry, Enter, Return
<1>7. PICK c \in Calls : /\ serving[k] = c /\ BankRespond(c)
                         /\ kind = OutcomeKind(operation[k].path, response[c].error)
                         /\ id = response[c].id
  BY <1>5, <1>6 DEF TryEnds, TransientKinds, isRetryablePaymentError
<1>8. request[c] = operation[k] /\ operation[k] \in BankRequests
  BY <1>5, <1>7, CallsAssumption DEF ClientInv, TryInv, TryEnds, Trying
<1>. QED
  BY <1>6, <1>7, <1>8

\* The entry behind a request is the one it asked for.
LEMMA EntryOfRequest ==
    ASSUME BankInv, NEW r \in BankRequests, NEW id, IsEntryOf(id, BankSlot(r))
    PROVE  /\ id \in DOMAIN transactions /\ origin[id] = BankSlot(r)
           /\ transactions[id].type = TransactionType(r.path)
           /\ transactions[id].reference = r.reference
           /\ transactions[id].type = "AUTH_HOLD" => transactions[id].amount = r.amount
<1>1. id \in DOMAIN transactions /\ origin[id] = BankSlot(r)
  BY DEF IsEntryOf
<1>2. PICK s \in BankRequests :
          /\ origin[id] = BankSlot(s)
          /\ transactions[id].type = TransactionType(s.path)
          /\ transactions[id].reference = s.reference
          /\ transactions[id].type = "AUTH_HOLD" => transactions[id].amount = s.amount
  BY <1>1 DEF BankInv, OriginInv
<1>3. s.path = r.path /\ s.reference = r.reference /\ s.amount = r.amount
  BY <1>1, <1>2, SlotFacts
<1>. QED
  BY <1>1, <1>2, <1>3

\* What the client told its caller stays true: entries are never taken back.
LEMMA ReportedStep ==
    ASSUME ClientInv, [ClientNext]_systemVars
    PROVE  ReportedOutcomeReal'
<1>1. BankInv /\ [BankNext]_bankVars /\ ReportedOutcomeReal
  BY ClientBankStep DEF ClientInv
<1>2. SUFFICES ASSUME NEW o \in outcomes', o.kind = "success"
               PROVE  /\ o.id \in DOMAIN transactions'
                      /\ origin'[o.id] = BankSlot(o.operation)
                      /\ transactions'[o.id].type = TransactionType(o.operation.path)
                      /\ transactions'[o.id].reference = o.operation.reference
  BY DEF ReportedOutcomeReal
<1>3. CASE o \in outcomes
  <2>1. /\ o.id \in DOMAIN transactions /\ origin[o.id] = BankSlot(o.operation)
        /\ transactions[o.id].type = TransactionType(o.operation.path)
        /\ transactions[o.id].reference = o.operation.reference
    BY <1>1, <1>2, <1>3 DEF ReportedOutcomeReal
  <2>. QED
    BY <1>1, <2>1, LedgerKeeps
<1>4. CASE o \notin outcomes
  <2>1. PICK c \in Calls :
            /\ BankRespond(c) /\ o.operation = request[c] /\ request[c] \in BankRequests
            /\ o.kind = OutcomeKind(request[c].path, response[c].error)
            /\ o.id = response[c].id
    BY <1>4, NewOutcome
  <2>2. response[c].error = ""
    BY <1>2, <2>1, OutcomeKindType
  <2>3. IsEntryOf(o.id, BankSlot(request[c]))
    BY <1>1, <2>1, <2>2 DEF BankInv, AnswerInv, BankRespond
  <2>4. /\ o.id \in DOMAIN transactions /\ origin[o.id] = BankSlot(request[c])
        /\ transactions[o.id].type = TransactionType(request[c].path)
        /\ transactions[o.id].reference = request[c].reference
    BY <1>1, <2>1, <2>3, EntryOfRequest
  <2>5. UNCHANGED <<transactions, origin>>
    BY <2>1 DEF BankRespond
  <2>. QED
    BY <2>1, <2>4, <2>5
<1>. QED
  BY <1>3, <1>4

\* Idle clients with their whole budget satisfy the invariant.
LEMMA ClientInvInit == ClientInit => ClientInv
<1>. SUFFICES ASSUME ClientInit PROVE ClientInv
  OBVIOUS
<1>1. BankInv
  BY BankInvInit DEF ClientInit
<1>2. ClientTypeOK /\ ReportedOutcomeReal
  BY DEF ClientInit, ClientTypeOK, ReportedOutcomeReal
<1>3. ASSUME NEW k \in Clients PROVE TryInv(k) /\ TimeInv(k)
  BY <1>3, SMT DEF ClientInit, TryInv, TimeInv, Trying, Allowance
<1>4. \A j, k \in Clients : serving[j] = serving[k] /\ serving[j] # NoCall => j = k
  BY DEF ClientInit
<1>. QED
  BY <1>1, <1>2, <1>3, <1>4 DEF ClientInv

\* Every step of clients, network and bank keeps the invariant.
LEMMA ClientInvStep == ClientInv /\ [ClientNext]_systemVars => ClientInv'
<1>. SUFFICES ASSUME ClientInv, [ClientNext]_systemVars PROVE ClientInv'
  OBVIOUS
<1>1. BankInv'
  BY ClientBankStep, BankInvStep DEF ClientInv
<1>2. ClientTypeOK' /\ \A k \in Clients : TimeInv(k)'
  BY ClientTimeStep
<1>3. Injective' /\ \A k \in Clients : TryInv(k)'
  BY ClientTryStep
<1>4. ReportedOutcomeReal'
  BY ReportedStep
<1>. QED
  BY <1>1, <1>2, <1>3, <1>4 DEF ClientInv, Injective

\* The inductive invariant holds in every state of the adapter and the bank
\* together.
THEOREM ClientInvariant == ClientSpec => []ClientInv
<1>1. ClientInit => ClientInv
  BY ClientInvInit
<1>2. ClientInv /\ [ClientNext]_systemVars => ClientInv'
  BY ClientInvStep
<1>. QED
  BY <1>1, <1>2, PTL DEF ClientSpec

\* Every variable of the adapter stays within its type; in particular every
\* code of the bank becomes one of the adapter's outcomes or a transient failure.
THEOREM ClientTypeCorrect == ClientSpec => []ClientTypeOK
<1>1. ClientInv => ClientTypeOK
  BY DEF ClientInv
<1>. QED
  BY <1>1, ClientInvariant, PTL

\* Whatever was lost, retried or answered late, a success the adapter returns
\* names a ledger entry that the operation's own key made, of its type and
\* about its reference.
THEOREM ClientReportsReal == ClientSpec => []ReportedOutcomeReal
<1>1. ClientInv => ReportedOutcomeReal
  BY DEF ClientInv
<1>. QED
  BY <1>1, ClientInvariant, PTL

\* For any time limits config validation accepts, the two tries and the delay
\* leave the reserve of the command timeout.
THEOREM ClientLeavesReserve == ClientSpec => []LeavesReserve
<1>1. ClientInv => LeavesReserve
  <2>. SUFFICES ASSUME ClientInv, NEW k \in Clients
                PROVE  elapsed[k] + CompletionReserve < PaymentCommandTimeout
    BY DEF LeavesReserve
  <2>1. elapsed[k] \in Nat /\ remaining[k] \in Nat
        /\ elapsed[k] + remaining[k] <= Allowance(try[k])
    BY DEF ClientInv, ClientTypeOK, TimeInv
  <2>2. Allowance(try[k]) \in Nat /\ Allowance(try[k]) <= Allowance("second")
    <3>1. try[k] \in {"idle", "first", "wait", "second"}
      BY DEF ClientInv, ClientTypeOK
    <3>. QED
      BY <3>1, Budgets, SMT
  <2>. QED
    BY <2>1, <2>2, Budgets, SMT
<1>. QED
  BY <1>1, ClientInvariant, PTL

\* Seen from the bank, the adapter is a caller like any other: what is proved of
\* the bank holds behind the adapter.
THEOREM ClientImplementsBank == ClientSpec => BankSpec
<1>1. ClientInit => BankInit
  BY DEF ClientInit
<1>2. ClientInv /\ [ClientNext]_systemVars => [BankNext]_bankVars
  BY ClientBankStep
<1>. QED
  BY <1>1, <1>2, ClientInvariant, PTL DEF ClientSpec, BankSpec

----------------------------------------------------------------------------
(* State conflicts, when the bank's reads of its database do not fail *)

SettlePaths == {"captures", "voids"}

\* A capture or void names an authorization of the bank, a capture its amount.
Fits(r) ==
    r.path \in SettlePaths =>
        /\ r.reference \in DOMAIN transactions
        /\ transactions[r.reference].type = "AUTH_HOLD"
        /\ r.path = "captures" => r.amount = transactions[r.reference].amount

\* A conflict the bank is about to report is one for good.
AnswersConflict(c) ==
    pc[c] = "respond" /\ request[c].path \in SettlePaths
        /\ response[c].error \in StateConflictCodes =>
    transactions[request[c].reference].status # "ACTIVE"

ConflictInv ==
    /\ ClientInv
    /\ \A k \in Clients : try[k] # "idle" => Fits(operation[k])
    /\ \A c \in Calls : pc[c] # "idle" => Fits(request[c])
    /\ \A c \in Calls : AnswersConflict(c)
    /\ \A o \in outcomes : Fits(o.operation)
    /\ ConflictMeansSettled

\* What fits goes on fitting.
LEMMA FitsKept ==
    ASSUME BankInv, [BankNext]_bankVars, NEW r, Fits(r)
    PROVE  Fits(r)'
BY LedgerKeeps DEF Fits

\* A step of one call leaves the others alone.
LEMMA OtherCalls ==
    ASSUME BankInv, NEW c \in Calls, NEW d \in Calls, c # d,
           WorkOn(c) \/ BankRespond(c) \/ Abort(c) \/ \E r \in BankRequests : Receive(c, r)
    PROVE  pc'[d] = pc[d] /\ request'[d] = request[d] /\ response'[d] = response[d]
<1>1. /\ pc \in [Calls -> {"idle", "lookup", "handle", "lock", "create", "adjust", "commit",
                           "store", "respond"}]
      /\ request \in [Calls -> BankRequests \cup {NoBankRequest}]
      /\ response \in [Calls -> Response]
  BY DEF BankInv, BankTypeOK
<1>2. CASE WorkOn(c)
  <2>1. request' = request
    BY <1>2 DEF WorkOn, Replay, Miss, FailureInjection, Validate, Accept, Reject, Create,
                Duplicate, AdjustBalances, Commit, Store, StatementError
  <2>2. \E step : pc' = [pc EXCEPT ![c] = step]
    BY <1>2 DEF WorkOn, Replay, Miss, FailureInjection, Validate, Accept, Reject, Create,
                Duplicate, AdjustBalances, Commit, Store, StatementError, RollBack, Answer, GoTo
  <2>3. response' = response \/ \E x : response' = [response EXCEPT ![c] = x]
    BY <1>2 DEF WorkOn, Replay, Miss, FailureInjection, Validate, Accept, Reject, Create,
                Duplicate, AdjustBalances, Commit, Store, StatementError, RollBack, Answer
  <2>. QED
    BY <1>1, <2>1, <2>2, <2>3
<1>3. CASE BankRespond(c) \/ Abort(c)
  BY <1>1, <1>3 DEF BankRespond, Abort, EndCall, GoTo
<1>4. CASE \E r \in BankRequests : Receive(c, r)
  BY <1>1, <1>4 DEF Receive, GoTo
<1>. QED
  BY <1>2, <1>3, <1>4

\* How a call comes to be where it is after a step.
LEMMA CallSteps ==
    ASSUME ClientInv, [ClientNext]_systemVars, NEW d \in Calls, pc'[d] # "idle"
    PROVE  \/ pc'[d] = pc[d] /\ request'[d] = request[d] /\ response'[d] = response[d]
           \/ WorkOn(d) /\ pc[d] # "idle" /\ request'[d] = request[d]
           \/ /\ pc'[d] = "lookup"
              /\ \E k \in Clients : try[k] # "idle" /\ request'[d] = operation[k]
<1>. DEFINE Same == pc'[d] = pc[d] /\ request'[d] = request[d] /\ response'[d] = response[d]
            Sent == /\ pc'[d] = "lookup"
                    /\ \E k \in Clients : try[k] # "idle" /\ request'[d] = operation[k]
<1>1. BankInv /\ BankTypeOK
  BY DEF ClientInv, BankInv
<1>2. ASSUME NEW k \in Clients, NEW c \in Calls, Send(k, c)
      PROVE  Same \/ Sent
  <2>1. Receive(c, operation[k]) /\ try[k] # "idle" /\ operation[k] \in BankRequests
    BY <1>2 DEF Send, Trying, ClientInv, TryInv
  <2>2. CASE c = d
    BY <1>1, <2>1, <2>2 DEF Receive, GoTo, BankTypeOK
  <2>3. CASE c # d
    BY <1>1, <2>1, <2>3, OtherCalls
  <2>. QED
    BY <2>2, <2>3
<1>3. ASSUME NEW c \in Calls, BankRespond(c) \/ Abort(c)
      PROVE  Same
  <2>1. c # d
    BY <1>1, <1>3 DEF BankRespond, Abort, EndCall, GoTo, BankTypeOK
  <2>. QED
    BY <1>1, <1>3, <2>1, OtherCalls
<1>4. ASSUME NEW c \in Calls, WorkOn(c)
      PROVE  Same \/ (WorkOn(d) /\ pc[d] # "idle" /\ request'[d] = request[d])
  <2>1. CASE c = d
    <3>1. pc[d] # "idle"
      BY <1>4, <2>1 DEF WorkOn, Replay, Miss, FailureInjection, Validate, Accept, Reject,
                        Create, Duplicate, AdjustBalances, Commit, Store, StatementError
    <3>. QED
      BY <1>1, <1>4, <2>1, <3>1, CallKept
  <2>2. CASE c # d
    BY <1>1, <1>4, <2>2, OtherCalls
  <2>. QED
    BY <2>1, <2>2
<1>5. CASE UNCHANGED <<pc, request, response>>
  BY <1>5
<1>6. ASSUME NEW k \in Clients,
             \/ \E r \in BankRequests : StartOperation(k, r)
             \/ ConnectionError(k) \/ TimerStep(k) \/ Cancelled(k)
      PROVE  UNCHANGED bankVars
  BY <1>6 DEF StartOperation, ConnectionError, TimerStep, AttemptTimeout, DelayOver, Cancelled
<1>7. ASSUME UNCHANGED bankVars \/ BankClock \/ Tick \/ UNCHANGED systemVars
      PROVE  UNCHANGED <<pc, request, response>>
  BY <1>7 DEF bankVars, BankClock, Tick, systemVars, ExpireHold, DayPasses,
              CleanupIdempotencyKeys, callVars
<1>. QED
  BY <1>2, <1>3, <1>4, <1>5, <1>6, <1>7
  DEF ClientNext, Answered, BankDies, BankWorks, Unheard

\* A hold that an entry settles is not active.
LEMMA SettledIsInactive ==
    ASSUME BankInv, NEW reference, NEW type \in Settlement, IsReferenced(reference, type)
    PROVE  transactions[reference].status # "ACTIVE"
<1>1. PICK i \in DOMAIN transactions :
          transactions[i].reference = reference /\ transactions[i].type = type
  BY DEF IsReferenced
<1>2. transactions[transactions[i].reference].status = "COMPLETED"
  BY <1>1 DEF BankInv, LedgerOK
<1>. QED
  BY <1>1, <1>2

\* The bank refuses a capture or void of an authorization it knows as a conflict
\* only when the authorization is settled.
LEMMA ConflictAnswer ==
    ASSUME "database" \notin BankFaults, BankInv, NEW c \in Calls, WorkOn(c), Fits(request[c]),
           request[c].path \in SettlePaths, pc'[c] = "respond",
           response'[c].error \in StateConflictCodes
    PROVE  transactions[request[c].reference].status # "ACTIVE"
<1>. DEFINE r == request[c]
            e == entry[c]
<1>1. /\ pc[c] \in {"lookup", "handle", "lock", "create", "adjust", "commit", "store"}
      /\ BankTypeOK /\ OpenInv(c) /\ RequestInv(c) /\ AnswerInv(c) /\ HistoryInv
  BY DEF BankInv, WorkOn, Replay, Miss, FailureInjection, Validate, Accept, Reject, Create,
         Duplicate, AdjustBalances, Commit, Store, StatementError
<1>2. r \in BankRequests /\ BankSlot(r) \in BankSlots
  BY <1>1, RequestFacts DEF RequestInv
<1>3. ASSUME NEW x, Answer(c, x) PROVE response'[c] = x
  BY <1>1, <1>3 DEF Answer, BankTypeOK
<1>4. {"", "internal_error"} \cap StateConflictCodes = {}
  BY DEF StateConflictCodes
<1>5. ~ Replay(c)
  <2>1. SUFFICES ASSUME Replay(c) PROVE FALSE
    OBVIOUS
  <2>2. response'[c] = CachedResponse(c) /\ CachedResponse(c) # NoResponse
    BY <1>3, <2>1 DEF Replay
  <2>3. CachedResponse(c).error = ""
    BY <1>1, <1>2, <2>2 DEF HistoryInv, CachedResponse
  <2>. QED
    BY <1>4, <2>2, <2>3
<1>6. ~ FailureInjection(c)
  <2>1. SUFFICES ASSUME FailureInjection(c) PROVE FALSE
    OBVIOUS
  <2>2. response'[c] = Failure("internal_error")
    BY <1>3, <2>1 DEF FailureInjection
  <2>3. response'[c].error = "internal_error"
    BY <2>2, SMTT(20) DEF Failure
  <2>. QED
    BY <2>3, <1>4
<1>7. ~ Validate(c)
  <2>1. SUFFICES ASSUME Validate(c) PROVE FALSE
    OBVIOUS
  <2>2. ValidationError(r) = ""
    BY DEF ValidationError, SettlePaths
  <2>3. pc'[c] = "lock"
    BY <1>1, <2>1, <2>2 DEF Validate, GoTo, BankTypeOK
  <2>. QED
    BY <2>3
<1>8. ~ Miss(c) /\ ~ Accept(c) /\ ~ Create(c) /\ ~ AdjustBalances(c)
  BY <1>1 DEF Miss, Accept, Create, AdjustBalances, GoTo, BankTypeOK
<1>9. ~ Commit(c)
  <2>1. SUFFICES ASSUME Commit(c) PROVE FALSE
    OBVIOUS
  <2>2. response' = [response EXCEPT ![c] = Success(Len(transactions'))]
    BY <2>1 DEF Commit
  <2>3. response'[c].error = ""
    BY <1>1, <2>2 DEF BankTypeOK, Success
  <2>. QED
    BY <1>4, <2>3
<1>10. ~ Store(c)
  <2>1. SUFFICES ASSUME Store(c) PROVE FALSE
    OBVIOUS
  <2>2. response'[c] = response[c] /\ response[c].error = ""
    BY <1>1, <1>3, <2>1 DEF Store, AnswerInv
  <2>. QED
    BY <1>4, <2>2
<1>11. ~ StatementError(c)
  BY DEF StatementError
<1>12. CASE Reject(c)
  <2>1. response'[c] = Failure(ServiceError(r))
    BY <1>3, <1>12 DEF Reject, RollBack
  <2>2. ServiceError(r) \in StateConflictCodes
    BY <2>1, SMT DEF Failure
  <2>3. r.reference \in DOMAIN transactions /\ Exists(r, "AUTH_HOLD")
    BY DEF Fits, Exists
  <2>4. CASE r.path = "captures"
    <3>1. ServiceError(r) = CaptureError(r)
      BY <2>4 DEF ServiceError
    <3>2. r.amount = transactions[r.reference].amount
      BY <2>4 DEF Fits, SettlePaths
    <3>3. CaptureError(r) \in StateConflictCodes
      BY <2>2, <3>1
    <3>. QED
      BY <2>3, <3>2, <3>3 DEF CaptureError, StateConflictCodes
  <2>5. CASE r.path = "voids"
    <3>1. VoidError(r) \in StateConflictCodes
      BY <2>2, <2>5 DEF ServiceError
    <3>2. IsReferenced(r.reference, "CAPTURE") => transactions[r.reference].status # "ACTIVE"
      BY SettledIsInactive DEF Settlement
    <3>. QED
      BY <2>3, <3>1, <3>2 DEF VoidError, StateConflictCodes
  <2>. QED
    BY <2>4, <2>5 DEF SettlePaths
<1>13. CASE Duplicate(c)
  <2>1. pc[c] = "create" /\ IsReferenced(e.reference, e.type)
    BY <1>13 DEF Duplicate, IsDuplicate
  <2>2. e.type = TransactionType(r.path) /\ e.reference = r.reference
    BY <1>1, <2>1 DEF OpenInv, Open
  <2>3. e.type \in Settlement
    BY <2>2 DEF TransactionType, SettlePaths, Settlement
  <2>. QED
    BY <2>1, <2>2, <2>3, SettledIsInactive
<1>. QED
  BY <1>5, <1>6, <1>7, <1>8, <1>9, <1>10, <1>11, <1>12, <1>13 DEF WorkOn

\* The kind of an outcome tells the codes it can come from.
LEMMA ConflictKind ==
    ASSUME NEW path \in SettlePaths, NEW code, OutcomeKind(path, code) = "state_conflict"
    PROVE  code \in StateConflictCodes
BY DEF OutcomeKind, SettleKind, SettlePaths

\* What a capture or void that begins refers to.
LEMMA StartFits ==
    ASSUME ClientInv, NEW r \in BankRequests,
           r.path # "authorizations" => \E o \in outcomes : FollowsUp(r, o)
    PROVE  Fits(r)
<1>. SUFFICES ASSUME r.path \in SettlePaths
              PROVE  /\ r.reference \in DOMAIN transactions
                     /\ transactions[r.reference].type = "AUTH_HOLD"
                     /\ r.path = "captures" => r.amount = transactions[r.reference].amount
  BY DEF Fits
<1>1. PICK o \in outcomes : FollowsUp(r, o)
  BY DEF SettlePaths
<1>2. /\ o.kind = "success" /\ o.id = r.reference /\ o.operation.path = "authorizations"
      /\ r.path = "captures" => r.amount = o.operation.amount
  BY <1>1 DEF FollowsUp, SettlePaths
<1>3. o.operation \in BankRequests
  BY DEF ClientInv, ClientTypeOK
<1>4. IsEntryOf(o.id, BankSlot(o.operation))
  BY <1>2 DEF ClientInv, ReportedOutcomeReal, IsEntryOf
<1>5. /\ o.id \in DOMAIN transactions
      /\ transactions[o.id].type = TransactionType(o.operation.path)
      /\ transactions[o.id].type = "AUTH_HOLD" => transactions[o.id].amount = o.operation.amount
  BY <1>3, <1>4, EntryOfRequest DEF ClientInv
<1>. QED
  BY <1>2, <1>5 DEF TransactionType

\* A conflict is only ever reported of a hold that is settled, as long as the
\* bank does not report a failed read as a missing row.
LEMMA ConflictStep ==
    ASSUME "database" \notin BankFaults, ConflictInv, [ClientNext]_systemVars
    PROVE  ConflictInv'
<1>1. ClientInv /\ BankInv /\ ClientTypeOK /\ [BankNext]_bankVars /\ ClientInv'
  BY ClientBankStep, ClientInvStep DEF ConflictInv, ClientInv
<1>2. \A r : Fits(r) => Fits(r)'
  BY <1>1, FitsKept
<1>3. ASSUME NEW k \in Clients, try'[k] # "idle"
      PROVE  Fits(operation[k])'
  <2>1. CASE \E r \in BankRequests : StartOperation(k, r)
    <3>1. PICK r \in BankRequests : StartOperation(k, r)
      BY <2>1
    <3>2. Fits(r) /\ operation'[k] = r
      BY <1>1, <3>1, StartFits DEF StartOperation, ClientTypeOK
    <3>. QED
      BY <1>2, <3>2 DEF Fits
  <2>2. CASE try[k] # "idle" /\ operation'[k] = operation[k]
    <3>1. Fits(operation[k])
      BY <2>2 DEF ConflictInv
    <3>. QED
      BY <1>2, <2>2, <3>1 DEF Fits
  <2>3. \/ \E r \in BankRequests : StartOperation(k, r)
        \/ try[k] # "idle" /\ operation'[k] = operation[k]
    <3>1. CASE UNCHANGED clientVars
      BY <1>3, <3>1 DEF clientVars
    <3>2. CASE \E j \in Clients : \E r \in BankRequests : StartOperation(j, r)
      BY <1>1, <1>3, <3>2 DEF StartOperation, ClientTypeOK
    <3>3. CASE (\E j \in Clients : \E c \in Calls : Send(j, c)) \/ Tick
      BY <1>3, <3>3 DEF Send, Tick
    <3>4. ASSUME NEW j \in Clients, (\E kind, id : TryEnds(j, kind, id)) \/ DelayOver(j)
                                       \/ Cancelled(j)
          PROVE  try[k] # "idle" /\ operation'[k] = operation[k]
      <4>1. /\ try[j] # "idle"
            /\ (\E step : Enter(j, step)) \/ (\E kind, id : Return(j, kind, id))
        BY <3>4 DEF TryEnds, EndTry, Trying, DelayOver, Cancelled
      <4>2. CASE \E step : Enter(j, step)
        BY <1>1, <1>3, <4>1, <4>2 DEF Enter, ClientTypeOK
      <4>3. CASE \E kind, id : Return(j, kind, id)
        BY <1>1, <1>3, <4>3 DEF Return, ClientTypeOK
      <4>. QED
        BY <4>1, <4>2, <4>3
    <3>. QED
      BY <1>1, <3>1, <3>2, <3>3, <3>4, ClientSteps
  <2>. QED
    BY <2>1, <2>2, <2>3
<1>4. ASSUME NEW c \in Calls, pc'[c] # "idle"
      PROVE  Fits(request[c])'
  <2>1. \/ pc[c] # "idle" /\ request'[c] = request[c]
        \/ \E k \in Clients : try[k] # "idle" /\ request'[c] = operation[k]
    BY <1>1, <1>4, CallSteps
  <2>2. PICK r : Fits(r) /\ request'[c] = r
    BY <2>1 DEF ConflictInv
  <2>. QED
    BY <1>2, <2>2 DEF Fits
<1>5. ASSUME NEW r, r.reference \in DOMAIN transactions,
             transactions[r.reference].status # "ACTIVE"
      PROVE  transactions'[r.reference].status # "ACTIVE"
  BY <1>1, <1>5, LedgerKeeps
<1>6. ASSUME NEW c \in Calls PROVE AnswersConflict(c)'
  <2>. SUFFICES ASSUME pc'[c] = "respond", request'[c].path \in SettlePaths,
                       response'[c].error \in StateConflictCodes
                PROVE  transactions'[request'[c].reference].status # "ACTIVE"
    BY DEF AnswersConflict
  <2>1. CASE pc'[c] = pc[c] /\ request'[c] = request[c] /\ response'[c] = response[c]
    <3>1. Fits(request[c]) /\ AnswersConflict(c)
      BY <2>1 DEF ConflictInv
    <3>2. /\ transactions[request[c].reference].status # "ACTIVE"
          /\ request[c].reference \in DOMAIN transactions
      BY <2>1, <3>1 DEF AnswersConflict, Fits
    <3>. QED
      BY <1>5, <2>1, <3>2
  <2>2. CASE WorkOn(c) /\ pc[c] # "idle" /\ request'[c] = request[c]
    <3>1. Fits(request[c])
      BY <2>2 DEF ConflictInv
    <3>2. /\ transactions[request[c].reference].status # "ACTIVE"
          /\ request[c].reference \in DOMAIN transactions
      BY <1>1, <2>2, <3>1, ConflictAnswer DEF Fits
    <3>. QED
      BY <1>5, <2>2, <3>2
  <2>. QED
    BY <1>1, <2>1, <2>2, CallSteps
<1>7. ASSUME NEW o \in outcomes'
      PROVE  /\ Fits(o.operation)'
             /\ o.kind = "state_conflict" /\ o.operation.path \in SettlePaths =>
                   transactions'[o.operation.reference].status # "ACTIVE"
  <2>1. CASE o \in outcomes
    <3>1. Fits(o.operation)
      BY <2>1 DEF ConflictInv
    <3>2. o.kind = "state_conflict" /\ o.operation.path \in SettlePaths =>
             transactions[o.operation.reference].status # "ACTIVE"
      BY <2>1 DEF ConflictInv, ConflictMeansSettled, SettlePaths
    <3>3. o.operation.path \in SettlePaths => o.operation.reference \in DOMAIN transactions
      BY <3>1 DEF Fits
    <3>. QED
      BY <1>2, <1>5, <3>1, <3>2, <3>3
  <2>2. CASE o \notin outcomes
    <3>1. PICK c \in Calls :
              /\ BankRespond(c) /\ o.operation = request[c] /\ request[c] \in BankRequests
              /\ o.kind = OutcomeKind(request[c].path, response[c].error)
              /\ o.id = response[c].id
      BY <1>1, <2>2, NewOutcome
    <3>2. Fits(request[c]) /\ AnswersConflict(c) /\ pc[c] = "respond" /\ UNCHANGED transactions
      BY <3>1 DEF ConflictInv, BankRespond
    <3>3. Fits(o.operation)'
      BY <1>2, <3>1, <3>2
    <3>4. o.kind = "state_conflict" /\ o.operation.path \in SettlePaths =>
             transactions[o.operation.reference].status # "ACTIVE"
      BY <3>1, <3>2, ConflictKind DEF AnswersConflict
    <3>. QED
      BY <3>2, <3>3, <3>4
  <2>. QED
    BY <2>1, <2>2
<1>8. ConflictMeansSettled'
  BY <1>7 DEF ConflictMeansSettled, SettlePaths
<1>. QED
  BY <1>1, <1>3, <1>4, <1>6, <1>7, <1>8 DEF ConflictInv

\* While the bank's reads of its database do not fail, a capture or void returns
\* state_conflict, which is not retried, only about a hold that is settled for
\* good.  A failed SELECT breaks it: the bank reports it as
\* authorization_not_found, which the adapter takes for a conflict.
THEOREM ClientConflictMeansSettled ==
    "database" \notin BankFaults => (ClientSpec => []ConflictMeansSettled)
<1>. SUFFICES ASSUME "database" \notin BankFaults
              PROVE  ClientSpec => []ConflictMeansSettled
  OBVIOUS
<1>1. ClientInit => ConflictInv
  BY ClientInvInit DEF ClientInit, BankInit, ConflictInv, AnswersConflict, ConflictMeansSettled
<1>2. ConflictInv /\ [ClientNext]_systemVars => ConflictInv'
  BY ConflictStep
<1>3. ConflictInv => ConflictMeansSettled
  BY DEF ConflictInv
<1>. QED
  BY <1>1, <1>2, <1>3, PTL DEF ClientSpec
=============================================================================
