------------------------------ MODULE MockBank ------------------------------
(***************************************************************************)
(* The mock bank (mock-bank/bank/internal): concurrent HTTP calls pass the *)
(* idempotency middleware and the failure injection, then run one database *)
(* transaction of the authorization, capture, void or refund service.      *)
(*                                                                         *)
(*   lookup -> handle -> lock -> create -> adjust -> commit -> store       *)
(*                                                                         *)
(* A transaction runs at READ COMMITTED.  It locks the row it decides on   *)
(* (SELECT ... FOR UPDATE), inserts its ledger entry, and updates the      *)
(* account; its writes show when it commits, its row locks last as long.   *)
(* A ledger entry's identifier is its position in transactions.  Currency, *)
(* metadata, creation times and response bodies are left out.              *)
(***************************************************************************)
EXTENDS Integers, Sequences, FiniteSetsExt

CONSTANTS Accounts,         \* the accounts cards belong to
          OpeningBalance,   \* what the migration gives each account
          BankRequests,     \* the requests that may arrive
          Calls,            \* requests the bank may serve at once
          BankFaults,       \* which of "chaos", "database" and "abort" may happen
          MaxHolds,         \* bound: authorizations
          NoCall            \* the holder of a free row

ASSUME BankFaultsAssumption == BankFaults \subseteq {"chaos", "database", "abort"}
ASSUME OpeningAssumption == OpeningBalance \in [Accounts -> Nat]
ASSUME CallsAssumption == IsFiniteSet(Calls) /\ NoCall \notin Calls
ASSUME MaxHoldsAssumption == MaxHolds \in Nat

\* A hold, its capture or void, and the refund of the capture.
MaxTransactions == 3 * MaxHolds

Paths == {"authorizations", "captures", "voids", "refunds"}
TransactionTypes == {"AUTH_HOLD", "CAPTURE", "VOID", "REFUND"}

\* How the card details of an authorization compare with the checks made on them.
CardDetails == {"good", "bad_number", "bad_cvv", "unknown", "wrong_cvv", "expired"}

\* account, card and amount belong to an authorization, reference (a ledger
\* entry) to the others; a capture and a refund carry an amount too.  A card
\* that is found belongs to an account.
BankRequestShape(r) ==
    /\ r = [path |-> r.path, key |-> r.key, account |-> r.account, card |-> r.card,
            amount |-> r.amount, reference |-> r.reference]
    /\ r.path \in Paths
    /\ r.account \in Accounts \cup {""}
    /\ r.card \in CardDetails
    /\ r.amount \in Int
    /\ r.reference \in Nat
    /\ r.path = "authorizations" =>
          /\ r.reference = 0
          /\ r.card \in {"good", "wrong_cvv", "expired"} => r.account \in Accounts

ASSUME BankRequestsAssumption == \A r \in BankRequests : BankRequestShape(r)

VARIABLES balances,         \* balance_cents and available_balance_cents by account
          transactions,     \* the ledger
          idempotencyKeys,  \* the cached response of each key and path
          locks,            \* row locks of open transactions
          pc, request,      \* where each call is and what it asks for
          caching,          \* whether the middleware will store its response
          entry,            \* the ledger entry its open transaction inserts
          response,         \* what it answers
          served,           \* history: successful answers
          origin,           \* history: the key and path behind each ledger entry
          refused           \* history: holds whose capture was refused as expired

callVars == <<pc, request, caching, entry, response>>
bankVars == <<balances, transactions, idempotencyKeys, locks, pc, request,
              caching, entry, response, served, origin, refused>>
history == <<served, origin, refused>>

NoEntry == [type |-> "", account |-> "", amount |-> 0, reference |-> 0,
            status |-> "", expired |-> FALSE]
NoBankRequest == [path |-> "", key |-> "", account |-> "", card |-> "good",
                  amount |-> 0, reference |-> 0]

\* A response: the new ledger entry, or the error code.
Success(id) == [error |-> "", id |-> id]
Failure(code) == [error |-> code, id |-> 0]
NoResponse == Failure("none")

BankSlot(r) == <<r.key, r.path>>
BankSlots == {BankSlot(r) : r \in BankRequests}

\* The callers' part: the gateway keeps a key for one operation of one payment
\* (OneKeyPerBankOperation of PaymentService), so a key and path name one
\* reference and one amount.
ASSUME BankKeysAssumption ==
    \A r, s \in BankRequests :
        BankSlot(r) = BankSlot(s) => r.reference = s.reference /\ r.amount = s.amount

AccountRow(a) == <<"accounts", a>>
TransactionRow(id) == <<"transactions", id>>
Rows == {AccountRow(a) : a \in Accounts} \cup {TransactionRow(id) : id \in 1..MaxTransactions}

BankInit ==
    /\ balances = [a \in Accounts |-> [balance |-> OpeningBalance[a],
                                       available |-> OpeningBalance[a]]]
    /\ transactions = <<>>
    /\ idempotencyKeys = [s \in BankSlots |-> [response |-> NoResponse, old |-> FALSE]]
    /\ locks = [row \in Rows |-> NoCall]
    /\ pc = [c \in Calls |-> "idle"]
    /\ request = [c \in Calls |-> NoBankRequest]
    /\ caching = [c \in Calls |-> FALSE]
    /\ entry = [c \in Calls |-> NoEntry]
    /\ response = [c \in Calls |-> NoResponse]
    /\ served = {}
    /\ origin = <<>>
    /\ refused = {}

----------------------------------------------------------------------------
(* What each service decides on the rows it reads *)

TransactionType(path) ==
    CASE path = "authorizations" -> "AUTH_HOLD"
      [] path = "captures" -> "CAPTURE"
      [] path = "voids" -> "VOID"
      [] OTHER -> "REFUND"

\* validateAuthorizationRequest, before any transaction ("" when it passes).
ValidationError(r) ==
    IF r.path # "authorizations" THEN ""
    ELSE IF r.card = "bad_number" THEN "invalid_card"
    ELSE IF r.card = "bad_cvv" THEN "invalid_cvv"
    ELSE IF r.amount <= 0 THEN "invalid_amount"
    ELSE ""

AuthorizeError(r) ==
    IF r.card = "unknown" THEN "invalid_card"
    ELSE IF r.card = "wrong_cvv" THEN "invalid_cvv"
    ELSE IF r.card = "expired" THEN "card_expired"
    ELSE IF balances[r.account].available < r.amount THEN "insufficient_funds"
    ELSE ""

Exists(r, type) ==
    /\ r.reference \in DOMAIN transactions
    /\ transactions[r.reference].type = type

\* The unique index on (reference_id, type).
IsReferenced(reference, type) ==
    \E i \in DOMAIN transactions :
        transactions[i].reference = reference /\ transactions[i].type = type

\* Mutant of CaptureError: the status of the hold is not looked at.
CaptureErrorIgnoringStatus(r) ==
    IF ~ Exists(r, "AUTH_HOLD") THEN "authorization_not_found"
    ELSE IF r.amount # transactions[r.reference].amount THEN "amount_mismatch"
    ELSE ""

CaptureError(r) ==
    IF ~ Exists(r, "AUTH_HOLD") THEN "authorization_not_found"
    ELSE IF transactions[r.reference].status # "ACTIVE" THEN "authorization_already_used"
    ELSE IF transactions[r.reference].expired THEN "authorization_expired"
    ELSE IF r.amount # transactions[r.reference].amount THEN "amount_mismatch"
    ELSE ""

\* A void does not look at the expiry of the hold.
VoidError(r) ==
    IF ~ Exists(r, "AUTH_HOLD") THEN "authorization_not_found"
    ELSE IF transactions[r.reference].status # "ACTIVE" THEN "authorization_already_used"
    ELSE IF IsReferenced(r.reference, "CAPTURE") THEN "already_captured"
    ELSE ""

RefundError(r) ==
    IF ~ Exists(r, "CAPTURE") THEN "capture_not_found"
    ELSE IF transactions[r.reference].status # "COMPLETED" THEN "capture_not_found"
    ELSE IF r.amount # transactions[r.reference].amount THEN "amount_mismatch"
    ELSE ""

ServiceError(r) ==
    CASE r.path = "authorizations" -> AuthorizeError(r)
      [] r.path = "captures" -> CaptureError(r)
      [] r.path = "voids" -> VoidError(r)
      [] OTHER -> RefundError(r)

\* Mutant of ReadErrorCode: the code of the GET handlers.
ReadErrorAsNotFound(r) == "not_found"

\* The code a failed first SELECT is reported under: the row is said not to exist.
ReadErrorCode(r) ==
    CASE r.path = "authorizations" -> "invalid_card"
      [] r.path = "refunds" -> "capture_not_found"
      [] OTHER -> "authorization_not_found"

DuplicateCode(type) ==
    CASE type = "CAPTURE" -> "already_captured"
      [] type = "VOID" -> "already_voided"
      [] OTHER -> "already_refunded"

\* The ledger entry of an accepted request.
NewEntry(r) ==
    IF r.path = "authorizations"
    THEN [type |-> "AUTH_HOLD", account |-> r.account, amount |-> r.amount,
          reference |-> 0, status |-> "ACTIVE", expired |-> FALSE]
    ELSE [type |-> TransactionType(r.path),
          account |-> transactions[r.reference].account,
          amount |-> transactions[r.reference].amount,
          reference |-> r.reference, status |-> "COMPLETED", expired |-> FALSE]

----------------------------------------------------------------------------
(* Control of one call *)

GoTo(c, step) == pc' = [pc EXCEPT ![c] = step]

Answer(c, r) ==
    /\ GoTo(c, "respond")
    /\ caching' = [caching EXCEPT ![c] = FALSE]
    /\ response' = [response EXCEPT ![c] = r]

\* Mutant of IsFree: the statement runs outside the transaction that holds the row.
IsFreeForOthers(c, row) == locks[row] = NoCall

IsFree(c, row) == locks[row] \in {NoCall, c}

\* Mutant of LockRow: SELECT without FOR UPDATE.
ReadRow(c, row) == UNCHANGED locks

\* FOR UPDATE, or an UPDATE: wait for the row, then hold it until the end.
LockRow(c, row) ==
    /\ IsFree(c, row)
    /\ locks' = [locks EXCEPT ![row] = c]

\* The end of a transaction, committed or rolled back.
Unlock(c) == locks' = [row \in Rows |-> IF locks[row] = c THEN NoCall ELSE locks[row]]

RollBack(c, code) ==
    /\ Unlock(c)
    /\ Answer(c, Failure(code))
    /\ entry' = [entry EXCEPT ![c] = NoEntry]

----------------------------------------------------------------------------
(* Middleware *)

Receive(c, r) ==
    /\ pc[c] = "idle"
    /\ GoTo(c, "lookup")
    /\ request' = [request EXCEPT ![c] = r]
    /\ UNCHANGED <<balances, transactions, idempotencyKeys, locks, caching, entry,
                   response, history>>

CachedResponse(c) == idempotencyKeys[BankSlot(request[c])].response

Replay(c) ==
    /\ pc[c] = "lookup"
    /\ CachedResponse(c) # NoResponse
    /\ Answer(c, CachedResponse(c))
    /\ UNCHANGED <<balances, transactions, idempotencyKeys, locks, request, entry, history>>

\* A key that is not cached is served and cached; when the lookup fails, the
\* request is served without caching.
Miss(c) ==
    /\ pc[c] = "lookup"
    /\ \/ /\ CachedResponse(c) = NoResponse
          /\ caching' = [caching EXCEPT ![c] = TRUE]
       \/ /\ "database" \in BankFaults
          /\ UNCHANGED caching
    /\ GoTo(c, "handle")
    /\ UNCHANGED <<balances, transactions, idempotencyKeys, locks, request, entry,
                   response, history>>

FailureInjection(c) ==
    /\ pc[c] = "handle"
    /\ "chaos" \in BankFaults
    /\ Answer(c, Failure("internal_error"))
    /\ UNCHANGED <<balances, transactions, idempotencyKeys, locks, request, entry, history>>

Validate(c) ==
    LET error == ValidationError(request[c]) IN
    /\ pc[c] = "handle"
    /\ \/ error = "" /\ GoTo(c, "lock") /\ UNCHANGED <<response, caching>>
       \/ error # "" /\ Answer(c, Failure(error))
    /\ UNCHANGED <<balances, transactions, idempotencyKeys, locks, request, entry, history>>

----------------------------------------------------------------------------
(* The transaction *)

\* The row a service decides on.
DecisiveRow(r) ==
    IF r.path = "authorizations" THEN AccountRow(r.account) ELSE TransactionRow(r.reference)

\* Lock the row the service decides on, and accept the request.
Accept(c) ==
    LET r == request[c] IN
    /\ pc[c] = "lock"
    /\ ServiceError(r) = ""
    /\ LockRow(c, DecisiveRow(r))
    /\ entry' = [entry EXCEPT ![c] = NewEntry(r)]
    /\ GoTo(c, "create")
    /\ UNCHANGED <<balances, transactions, idempotencyKeys, request, caching,
                   response, history>>

RowExists(r) ==
    IF r.path = "authorizations" THEN r.card # "unknown"
    ELSE r.reference \in DOMAIN transactions

\* The row is read once nobody else holds it, and the request refused.
Reject(c) ==
    LET r == request[c] IN
    /\ pc[c] = "lock"
    /\ ServiceError(r) # ""
    /\ RowExists(r) => IsFree(c, DecisiveRow(r))
    /\ RollBack(c, ServiceError(r))
    /\ refused' = IF ServiceError(r) = "authorization_expired"
                  THEN refused \cup {r.reference} ELSE refused
    /\ UNCHANGED <<balances, transactions, idempotencyKeys, request, served, origin>>

\* An insert of another open transaction that the unique index makes this one wait for.
SameReference(c, d) ==
    /\ d # c
    /\ pc[d] \in {"adjust", "commit"}
    /\ entry[d].reference = entry[c].reference
    /\ entry[d].type = entry[c].type

\* Mutant of IsDuplicate: there is no unique index.
NeverDuplicate(c) == FALSE

IsDuplicate(c) ==
    /\ entry[c].type # "AUTH_HOLD"
    /\ IsReferenced(entry[c].reference, entry[c].type)

\* transactionRepo.Create, and UpdateStatus on the row already locked.  The key-share
\* lock that the INSERT's foreign key takes on the account is left out: whoever it
\* makes wait holds the account and no lock of this call, and AdjustBalances waits for
\* that row next.
Create(c) ==
    /\ pc[c] = "create"
    /\ entry[c].type # "AUTH_HOLD" => \A d \in Calls : ~ SameReference(c, d)
    /\ ~ IsDuplicate(c)
    /\ GoTo(c, "adjust")
    /\ UNCHANGED <<balances, transactions, idempotencyKeys, locks, request, caching,
                   entry, response, history>>

Duplicate(c) ==
    /\ pc[c] = "create"
    /\ IsDuplicate(c)
    /\ RollBack(c, DuplicateCode(entry[c].type))
    /\ UNCHANGED <<balances, transactions, idempotencyKeys, request, history>>

AdjustBalances(c) ==
    /\ pc[c] = "adjust"
    /\ LockRow(c, AccountRow(entry[c].account))
    /\ GoTo(c, "commit")
    /\ UNCHANGED <<balances, transactions, idempotencyKeys, request, caching, entry,
                   response, history>>

\* Mutant of BalanceDelta: a void gives back money that was never taken.
VoidAsRefund(e) ==
    CASE e.type = "AUTH_HOLD" -> [balance |-> 0, available |-> - e.amount]
      [] e.type = "CAPTURE" -> [balance |-> - e.amount, available |-> 0]
      [] OTHER -> [balance |-> e.amount, available |-> e.amount]

\* What each kind of entry adds to the two balances of its account.
BalanceDelta(e) ==
    CASE e.type = "AUTH_HOLD" -> [balance |-> 0, available |-> - e.amount]
      [] e.type = "CAPTURE" -> [balance |-> - e.amount, available |-> 0]
      [] e.type = "VOID" -> [balance |-> 0, available |-> e.amount]
      [] OTHER -> [balance |-> e.amount, available |-> e.amount]

\* The transaction's writes become visible together.
Committed(e) ==
    /\ transactions' =
          Append(IF e.type \in {"CAPTURE", "VOID"}
                 THEN [transactions EXCEPT ![e.reference].status = "COMPLETED"]
                 ELSE transactions, e)
    /\ balances' = [balances EXCEPT ![e.account] =
                       [balance |-> @.balance + BalanceDelta(e).balance,
                        available |-> @.available + BalanceDelta(e).available]]

\* A commit may report an error although it happened.
Commit(c) ==
    /\ pc[c] = "commit"
    /\ Committed(entry[c])
    /\ Unlock(c)
    /\ entry' = [entry EXCEPT ![c] = NoEntry]
    /\ \/ /\ GoTo(c, IF caching[c] THEN "store" ELSE "respond")
          /\ response' = [response EXCEPT ![c] = Success(Len(transactions'))]
          /\ UNCHANGED caching
       \/ /\ "database" \in BankFaults
          /\ Answer(c, Failure("internal_error"))
    /\ origin' = Append(origin, BankSlot(request[c]))
    /\ UNCHANGED <<idempotencyKeys, request, served, refused>>

----------------------------------------------------------------------------
(* Caching and answering *)

\* ON CONFLICT DO NOTHING: the first response stored stays.
StoreKey(c) ==
    idempotencyKeys' = [idempotencyKeys EXCEPT ![BankSlot(request[c])] =
                           IF @.response = NoResponse
                           THEN [response |-> response[c], old |-> FALSE] ELSE @]

\* A response that cannot be stored is only logged.
Store(c) ==
    /\ pc[c] = "store"
    /\ \/ StoreKey(c)
       \/ "database" \in BankFaults /\ UNCHANGED idempotencyKeys
    /\ Answer(c, response[c])
    /\ UNCHANGED <<balances, transactions, locks, request, entry, history>>

EndCall(c) ==
    /\ GoTo(c, "idle")
    /\ request' = [request EXCEPT ![c] = NoBankRequest]
    /\ caching' = [caching EXCEPT ![c] = FALSE]
    /\ entry' = [entry EXCEPT ![c] = NoEntry]
    /\ response' = [response EXCEPT ![c] = NoResponse]

BankRespond(c) ==
    /\ pc[c] = "respond"
    /\ EndCall(c)
    /\ served' = IF response[c].error # "" THEN served
                 ELSE served \cup {[slot |-> BankSlot(request[c]),
                                    reference |-> request[c].reference,
                                    id |-> response[c].id]}
    /\ UNCHANGED <<balances, transactions, idempotencyKeys, locks, origin, refused>>

----------------------------------------------------------------------------
(* Failures, time and cleanup *)

\* A statement of the transaction fails and the transaction rolls back.
StatementError(c) ==
    /\ "database" \in BankFaults
    /\ pc[c] \in {"lock", "create", "adjust", "commit"}
    /\ \/ RollBack(c, "internal_error")
       \/ pc[c] = "lock" /\ RollBack(c, ReadErrorCode(request[c]))
    /\ UNCHANGED <<balances, transactions, idempotencyKeys, request, history>>

\* The caller gives up and cancels the request, or the bank process dies.  An
\* answer that is ready is written, and may be lost on its way.
Abort(c) ==
    /\ "abort" \in BankFaults
    /\ pc[c] \notin {"idle", "respond"}
    /\ EndCall(c)
    /\ Unlock(c)
    /\ UNCHANGED <<balances, transactions, idempotencyKeys, history>>

\* The expiry of a hold passes; nobody asks for it once the hold is settled.
ExpireHold(id) ==
    /\ id \in DOMAIN transactions
    /\ transactions[id].type = "AUTH_HOLD" /\ ~ transactions[id].expired
    /\ transactions[id].status = "ACTIVE"
    /\ transactions' = [transactions EXCEPT ![id].expired = TRUE]
    /\ UNCHANGED <<balances, idempotencyKeys, locks, callVars, history>>

\* 24 hours pass for every response cached so far.
DayPasses ==
    /\ \E s \in BankSlots : idempotencyKeys[s].response # NoResponse /\ ~ idempotencyKeys[s].old
    /\ idempotencyKeys' = [s \in BankSlots |->
          [idempotencyKeys[s] EXCEPT !.old = @ \/ idempotencyKeys[s].response # NoResponse]]
    /\ UNCHANGED <<balances, transactions, locks, callVars, history>>

\* The hourly pass of the cleanup goroutine, when it finds something.
CleanupIdempotencyKeys ==
    /\ \E s \in BankSlots : idempotencyKeys[s].old
    /\ idempotencyKeys' = [s \in BankSlots |->
          IF idempotencyKeys[s].old THEN [response |-> NoResponse, old |-> FALSE]
          ELSE idempotencyKeys[s]]
    /\ UNCHANGED <<balances, transactions, locks, callVars, history>>

\* The steps of a call up to its answer.
WorkOn(c) ==
    \/ Replay(c) \/ Miss(c) \/ FailureInjection(c) \/ Validate(c)
    \/ Accept(c) \/ Reject(c) \/ Create(c) \/ Duplicate(c) \/ AdjustBalances(c)
    \/ Commit(c) \/ Store(c) \/ StatementError(c)

ServeCall(c) == WorkOn(c) \/ BankRespond(c)

\* Bound: authorizations stop arriving when MaxHolds may have been made.
Holds == {i \in DOMAIN transactions : transactions[i].type = "AUTH_HOLD"}
Authorizing == {c \in Calls : request[c].path = "authorizations"}
MayArrive(r) ==
    r.path = "authorizations" => Cardinality(Holds) + Cardinality(Authorizing) < MaxHolds

BankNext ==
    \/ \E c \in Calls :
          \/ \E r \in BankRequests : MayArrive(r) /\ Receive(c, r)
          \/ ServeCall(c)
          \/ Abort(c)
    \/ \E id \in 1..MaxTransactions : ExpireHold(id)
    \/ DayPasses
    \/ CleanupIdempotencyKeys

BankSpec == BankInit /\ [][BankNext]_bankVars

\* A call is a goroutine of the bank's server: it keeps running, and PostgreSQL
\* hands a row lock that keeps being released to one that keeps waiting.
BankFairness ==
    \A c \in Calls :
        /\ WF_bankVars(ServeCall(c))
        /\ SF_bankVars(Accept(c))
        /\ SF_bankVars(Reject(c))
        /\ SF_bankVars(Create(c))
        /\ SF_bankVars(AdjustBalances(c))

FairBankSpec == BankSpec /\ BankFairness

----------------------------------------------------------------------------
(* Properties *)

BankCodes == {"", "none", "invalid_card", "invalid_cvv", "invalid_amount", "card_expired",
              "insufficient_funds", "authorization_not_found", "authorization_expired",
              "authorization_already_used", "already_captured", "already_voided",
              "already_refunded", "amount_mismatch", "capture_not_found", "internal_error"}

Response == [error : BankCodes, id : 0..MaxTransactions]

Entry == [type : TransactionTypes \cup {""}, account : Accounts \cup {""}, amount : Int,
          reference : 0..MaxTransactions, status : {"", "ACTIVE", "COMPLETED"},
          expired : BOOLEAN]

\* Every variable stays within its type.
BankTypeOK ==
    /\ balances \in [Accounts -> [balance : Int, available : Int]]
    /\ transactions \in Seq(Entry)
    /\ idempotencyKeys \in [BankSlots -> [response : Response, old : BOOLEAN]]
    /\ locks \in [Rows -> Calls \cup {NoCall}]
    /\ pc \in [Calls -> {"idle", "lookup", "handle", "lock", "create", "adjust", "commit",
                         "store", "respond"}]
    /\ request \in [Calls -> BankRequests \cup {NoBankRequest}]
    /\ caching \in [Calls -> BOOLEAN]
    /\ entry \in [Calls -> Entry]
    /\ response \in [Calls -> Response]
    /\ origin \in Seq(BankSlots)
    /\ refused \subseteq 1..MaxTransactions
    /\ served \subseteq [slot : BankSlots, reference : Nat, id : 1..MaxTransactions]

SumSeq(s) ==
    LET upTo[n \in 0..Len(s)] == IF n = 0 THEN 0 ELSE upTo[n - 1] + s[n]
    IN upTo[Len(s)]

\* The amounts of the entries of one account that are of a kind.
Total(account, Kind(_)) ==
    SumSeq([i \in DOMAIN transactions |->
               IF transactions[i].account = account /\ Kind(transactions[i])
               THEN transactions[i].amount ELSE 0])

IsCapture(e) == e.type = "CAPTURE"
IsRefund(e) == e.type = "REFUND"
IsActiveHold(e) == e.type = "AUTH_HOLD" /\ e.status = "ACTIVE"

\* However transactions interleave and fail, the balances are the ones the
\* ledger tells: the balance is what captures took and refunds gave back, and
\* what is not available is exactly what the active holds reserve.
BalancesMatchLedger ==
    \A a \in Accounts :
        /\ balances[a].balance = OpeningBalance[a]
              - Total(a, IsCapture) + Total(a, IsRefund)
        /\ balances[a].available = balances[a].balance - Total(a, IsActiveHold)

\* Concurrent authorizations never reserve more than the account has.
NoOverdraft == \A a \in Accounts : balances[a].available >= 0

\* "Can't capture a voided auth, can't void after capture": a hold that is not
\* active was settled by exactly one capture or void, an active one by none.
SettledOnce ==
    \A i \in Holds :
        LET settlements == {j \in DOMAIN transactions :
                               /\ transactions[j].reference = i
                               /\ transactions[j].type \in {"CAPTURE", "VOID"}}
        IN Cardinality(settlements) = IF transactions[i].status = "ACTIVE" THEN 0 ELSE 1

\* Whatever is cached, lost or cleaned up, two successful answers about one
\* reference name the same ledger entry: an authorization is captured or voided
\* once, and a capture refunded once, under any number of keys.
OneAnswerPerReference ==
    \A x, y \in served :
        x.slot[2] = y.slot[2] /\ x.slot[2] # "authorizations" /\ x.reference = y.reference
            => x.id = y.id

\* The ledger and the cached responses as callers may know them.
Ledger == INSTANCE BankLedger WITH
    Keyed <- BankSlots,
    ledger <- [i \in DOMAIN transactions |->
                  [type |-> transactions[i].type, reference |-> transactions[i].reference,
                   status |-> transactions[i].status, slot |-> origin[i]]],
    cached <- {idempotencyKeys[s].response.id : s \in BankSlots} \ {0}

\* Row locks, the unique index and the transactions make every operation of the
\* bank look atomic: an authorization is settled once, a capture refunded once,
\* and a hold whose capture was refused as expired is never captured later, not
\* even by a call that began before.
ImplementsBankLedger == Ledger!Spec

\* Every call is answered: row locks are always taken in an order in which no
\* two transactions wait for each other, and given back.
CallsAnswered == \A c \in Calls : pc[c] # "idle" ~> pc[c] = "idle"
=============================================================================
