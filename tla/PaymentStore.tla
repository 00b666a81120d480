---------------------------- MODULE PaymentStore ----------------------------
(***************************************************************************)
(* The command persistence of gateway/internal/postgres/payment_store.go:  *)
(* the payments and idempotency_records tables and the transactions that   *)
(* claim, complete, release and clean up a payment command.                *)
(*                                                                         *)
(* Each operator below that mentions primed variables is one statement or  *)
(* one transaction.  A transaction is one step when the rows it reads and  *)
(* writes stay locked until it commits; claimIdempotency runs up to three  *)
(* statements that see different snapshots, and is three steps.            *)
(*                                                                         *)
(* Times are kept as saturating ages: the only comparisons the code makes  *)
(* are "claimed_at <= now - stuck after" and "completed_at < now - replay  *)
(* window".                                                                *)
(***************************************************************************)
EXTENDS PaymentDomain

CONSTANTS Requests,              \* the commands callers may send
          PaymentCommandTimeout, \* deadline of a command's context
          ClaimStuckAfter,       \* age at which a claim counts as stuck
          ReplayWindow           \* how long a completed record is kept

Operations == {"authorize_payment", "retry_authorization", "capture_payment",
               "void_payment", "refund_payment"}

\* A request as the store sees it.  paymentID is "" for an authorization,
\* order stands for order, customer and amount, card for the card details.
RequestShape(r) ==
    /\ DOMAIN r = {"operation", "key", "paymentID", "order", "card"}
    /\ r.operation \in Operations
    /\ r.operation = "authorize_payment" <=> r.paymentID = ""
    /\ r.paymentID \in PaymentIDs \cup {""}
    /\ r.operation \in {"authorize_payment", "retry_authorization"} <=> r.card # ""
    /\ r.card \in Cards \cup {""}

ASSUME RequestsAssumption == \A r \in Requests : RequestShape(r)
\* config.go refuses a stuck-after that does not exceed the command timeout;
\* the replay window is a constant of 24 hours.
ASSUME TimesAssumption ==
    /\ PaymentCommandTimeout \in Nat \ {0}
    /\ ClaimStuckAfter \in Nat
    /\ ClaimStuckAfter > PaymentCommandTimeout
    /\ ReplayWindow \in Nat

VARIABLES payments,           \* the payments table, by payment ID
          idempotencyRecords  \* the idempotency_records table, by slot

storeVars == <<payments, idempotencyRecords>>

----------------------------------------------------------------------------
(* Requests, records and results *)

\* The primary key of idempotency_records.
Slot(r) == <<r.operation, r.key>>
Slots == {Slot(r) : r \in Requests}

\* The keyed hashes of the request, as the values they hash.
Fingerprint(r) == <<r.operation, r.paymentID, r.order, r.card>>
Fingerprints == {Fingerprint(r) : r \in Requests}

ExpectedStatus(operation) ==
    CASE operation \in {"authorize_payment", "retry_authorization"} -> "pending"
      [] operation \in {"capture_payment", "void_payment"} -> "authorized"
      [] OTHER -> "captured"

Result == [paymentID : PaymentIDs \cup {""},
           status : PaymentStatus \cup {"absent"},
           declineReason : DeclineReason \cup {""}]

NoResult == [paymentID |-> "", status |-> "absent", declineReason |-> ""]

newPaymentResult(id, p) ==
    [paymentID |-> id, status |-> p.status, declineReason |-> p.declineReason]

\* The kinds IsTerminalFailureKind lets a completed record store.
TerminalFailureKinds == {"authorization_expired"}

\* A claim's age past this bound is stuck for every live retrier.
MaxClaimedAge == ClaimStuckAfter + PaymentCommandTimeout
MaxCompletedAge == ReplayWindow + 1

Record == [status       : {"absent", "in_progress", "completed"},
           fingerprint  : Fingerprints \cup {<<>>},
           paymentID    : PaymentIDs \cup {""},
           claimedAge   : 0..MaxClaimedAge,
           completedAge : 0..MaxCompletedAge,
           failureKind  : TerminalFailureKinds \cup {""},
           result       : Result]

NoRecord == [status |-> "absent", fingerprint |-> <<>>, paymentID |-> "",
             claimedAge |-> 0, completedAge |-> 0, failureKind |-> "",
             result |-> NoResult]

InProgressRecord(r, id, age) ==
    [NoRecord EXCEPT !.status = "in_progress", !.fingerprint = Fingerprint(r),
                     !.paymentID = id, !.claimedAge = age]

\* Mutant of BankOperationKey: a void is sent with the capture's key.
BankOperationKeySharedBySettlement(operation, p) ==
    CASE operation \in {"capture_payment", "void_payment"} -> p.captureKey
      [] operation = "refund_payment" -> p.refundKey
      [] OTHER -> p.authorizationKey

\* Each operation's bank operation key on the payment.
BankOperationKey(operation, p) ==
    CASE operation = "capture_payment" -> p.captureKey
      [] operation = "void_payment" -> p.voidKey
      [] operation = "refund_payment" -> p.refundKey
      [] OTHER -> p.authorizationKey

StoreInit ==
    /\ payments = [id \in PaymentIDs |-> NoPayment]
    /\ idempotencyRecords = [s \in Slots |-> NoRecord]

----------------------------------------------------------------------------
(* Claiming: recoverIdempotencyClaim, then INSERT, then SELECT *)

\* Mutant of IsStuckClaim: claimed_at and the attempt's time are swapped.
IsStuckClaimSwapped(r, age) ==
    LET record == idempotencyRecords[Slot(r)] IN
    /\ record.status = "in_progress"
    /\ record.fingerprint = Fingerprint(r)
    /\ age >= record.claimedAge + ClaimStuckAfter

\* The WHERE clause of recoverIdempotencyClaim for an attempt that sampled its
\* business time age ago.
IsStuckClaim(r, age) ==
    LET record == idempotencyRecords[Slot(r)] IN
    /\ record.status = "in_progress"
    /\ record.fingerprint = Fingerprint(r)
    /\ record.claimedAge >= age + ClaimStuckAfter

\* What stops the recovery of record for r ("" when nothing does), in the
\* order of findRecoveredPayment and validateRecoveredPaymentCommand, or of
\* the recovered case of ClaimAuthorizationStart.
RecoveryError(r, record) ==
    IF record.paymentID \notin PaymentIDs THEN "internal"
    ELSE LET p == payments[record.paymentID] IN
    IF p.status = "absent" THEN "internal"
    ELSE IF r.paymentID \notin {"", record.paymentID} THEN "idempotency_conflict"
    ELSE IF p.status # ExpectedStatus(r.operation) THEN "payment_status_conflict"
    ELSE IF r.operation = "retry_authorization" /\ r.card # p.card THEN "idempotency_conflict"
    ELSE IF /\ r.operation \in {"capture_payment", "void_payment", "refund_payment"}
            /\ BankOperationKey(r.operation, p) = 0 THEN "internal"
    ELSE ""

\* Mutant of RecoverClaim: ownership is not refreshed.
RecoverClaimWithoutRefresh(r, age) == UNCHANGED <<payments, idempotencyRecords>>

\* Take over a stuck claim: only claimed_at moves.
RecoverClaim(r, age) ==
    /\ idempotencyRecords' = [idempotencyRecords EXCEPT ![Slot(r)].claimedAge = age]
    /\ UNCHANGED payments

\* validateAcquiredPaymentCommand after findPaymentByID.
AcquireError(r) ==
    LET p == payments[r.paymentID] IN
    IF p.status = "absent" THEN "not_found"
    ELSE IF p.status # ExpectedStatus(r.operation) THEN "payment_status_conflict"
    ELSE IF r.operation = "retry_authorization" /\ r.card # p.card THEN "payment_status_conflict"
    ELSE ""

\* Mutant of ensureBankOperationKey: a stored key is replaced.
ReplaceBankOperationKey(operation, p, key) ==
    CASE operation = "capture_payment" -> SetCaptureBankOperationKey(p, key)
      [] operation = "void_payment" -> SetVoidBankOperationKey(p, key)
      [] operation = "refund_payment" -> SetRefundBankOperationKey(p, key)
      [] OTHER -> p

\* Mutant of ensureBankOperationKey: an authorization retry gets a key of its own.
NewKeyForRetry(operation, p, key) ==
    IF operation = "retry_authorization" THEN [p EXCEPT !.authorizationKey = key] ELSE p

ensureBankOperationKey(operation, p, key) ==
    IF BankOperationKey(operation, p) # 0 THEN p
    ELSE CASE operation = "capture_payment" -> SetCaptureBankOperationKey(p, key)
           [] operation = "void_payment" -> SetVoidBankOperationKey(p, key)
           [] operation = "refund_payment" -> SetRefundBankOperationKey(p, key)
           [] OTHER -> p

\* ClaimAuthorizationStart, acquired: the record and the pending payment.
InsertAuthorization(r, id, age, key) ==
    /\ idempotencyRecords' = [idempotencyRecords EXCEPT ![Slot(r)] = InProgressRecord(r, id, age)]
    /\ payments' = [payments EXCEPT ![id] = NewPendingPayment(key, r.card)]

\* Mutant of InsertClaim: the bank operation key is not stored with the claim.
InsertClaimWithoutKey(r, age, key) ==
    /\ idempotencyRecords' =
          [idempotencyRecords EXCEPT ![Slot(r)] = InProgressRecord(r, r.paymentID, age)]
    /\ UNCHANGED payments

\* ClaimExistingPaymentCommand, acquired: the record and the bank operation key.
InsertClaim(r, age, key) ==
    /\ idempotencyRecords' =
          [idempotencyRecords EXCEPT ![Slot(r)] = InProgressRecord(r, r.paymentID, age)]
    /\ payments' = [payments EXCEPT ![r.paymentID] = ensureBankOperationKey(r.operation, @, key)]

----------------------------------------------------------------------------
(* Completing, releasing, cleaning up *)

\* Mutant of CompleteError: the UPDATE does not ask for the expected status.
CompleteErrorIgnoringStatus(r, id, failureKind) ==
    LET record == idempotencyRecords[Slot(r)] IN
    IF record.status # "in_progress" \/ record.fingerprint # Fingerprint(r)
    THEN "idempotency_conflict" ELSE ""

\* What makes CompletePaymentCommand roll back ("" when nothing does).
CompleteError(r, id, failureKind) ==
    LET record == idempotencyRecords[Slot(r)] IN
    IF payments[id].status = "absent" THEN "not_found"
    ELSE IF payments[id].status # ExpectedStatus(r.operation) THEN "payment_status_conflict"
    ELSE IF failureKind \notin TerminalFailureKinds \cup {""} THEN "internal"
    ELSE IF record.status # "in_progress" \/ record.fingerprint # Fingerprint(r)
         THEN "idempotency_conflict"
    ELSE ""

\* persistPaymentTransition writes every column of the attempt's copy;
\* completeIdempotencyRecord stores the snapshot in the same transaction.
CompletePaymentCommand(r, id, p, failureKind) ==
    /\ payments' = [payments EXCEPT ![id] = p]
    /\ idempotencyRecords' =
          [idempotencyRecords EXCEPT ![Slot(r)] =
              [@ EXCEPT !.status = "completed", !.failureKind = failureKind,
                        !.result = newPaymentResult(id, p)]]

\* Mutant of ReleasePaymentCommand: the DELETE names the wrong status.
ReleaseCompletedCommand(r) ==
    /\ idempotencyRecords' =
          [idempotencyRecords EXCEPT ![Slot(r)] =
              IF @.status = "completed" THEN NoRecord ELSE @]
    /\ UNCHANGED payments

\* The DELETE names the slot and the status, not the attempt.
ReleasePaymentCommand(r) ==
    /\ idempotencyRecords' =
          [idempotencyRecords EXCEPT ![Slot(r)] =
              IF @.status = "in_progress" THEN NoRecord ELSE @]
    /\ UNCHANGED payments

\* Mutant of IsExpiredReplay: the end of the window counts as past it.
IsExpiredReplayAtWindow(record) ==
    record.status = "completed" /\ record.completedAge >= ReplayWindow

IsExpiredReplay(record) ==
    record.status = "completed" /\ record.completedAge > ReplayWindow

CleanupCompletedIdempotencyRecords ==
    /\ idempotencyRecords' =
          [s \in Slots |-> IF IsExpiredReplay(idempotencyRecords[s])
                           THEN NoRecord ELSE idempotencyRecords[s]]
    /\ UNCHANGED payments

----------------------------------------------------------------------------
(* One unit of time for the stored timestamps *)

Older(age, max) == IF age < max THEN age + 1 ELSE age

\* A record's claimed_at no longer matters once it is completed.
OlderRecord(record) ==
    CASE record.status = "in_progress" ->
            [record EXCEPT !.claimedAge = Older(@, MaxClaimedAge)]
      [] record.status = "completed" ->
            [record EXCEPT !.completedAge = Older(@, MaxCompletedAge)]
      [] OTHER -> record

StoreTick ==
    /\ idempotencyRecords' = [s \in Slots |-> OlderRecord(idempotencyRecords[s])]
    /\ UNCHANGED payments
=============================================================================
