--------------------------- MODULE PaymentService ---------------------------
(***************************************************************************)
(* The five payment commands of gateway/internal/app/payment_service.go,   *)
(* run by concurrent attempts over the shared store.  An attempt is one    *)
(* HTTP request's call of AuthorizePayment, RetryAuthorization,            *)
(* CapturePayment, VoidPayment or RefundPayment; the five share one shape: *)
(*                                                                         *)
(*   recover -> insert -> select        claim the idempotency slot         *)
(*           -> bank                    call the bank, apply its answer    *)
(*           -> complete | release      finish the claim                   *)
(*           -> respond                 answer the caller                  *)
(*                                                                         *)
(* The bank is external here: it gives any answer the client can return.   *)
(* A context past its deadline makes every database call fail; a database  *)
(* call may also fail, or commit and report a failure; a gateway process   *)
(* may die between any two steps.                                          *)
(***************************************************************************)
EXTENDS PaymentStore

CONSTANTS Attempts,  \* concurrent command attempts
          Faults     \* which of "crash" and "database" may happen

ASSUME FaultsAssumption == Faults \subseteq {"crash", "database"}

VARIABLES pc,         \* where each attempt is
          request,    \* the request it serves
          age,        \* time since it sampled its business time
          paymentID,  \* the claimed payment ...
          payment,    \* ... and the attempt's in-memory copy of it
          reply,      \* what it returns to its caller
          nextBankOperationKey, \* generator of bank operation keys
          called,     \* history: keys used in bank calls, by payment and bank operation
          answers     \* history: outcomes callers were given, by slot

attemptVars == <<pc, request, age, paymentID, payment, reply>>
vars == <<payments, idempotencyRecords, pc, request, age, paymentID, payment,
          reply, nextBankOperationKey, called, answers>>

Steps == {"idle", "recover", "insert", "select", "bank", "complete", "release", "respond"}

NoRequest == [operation |-> "", key |-> "", paymentID |-> "", order |-> "", card |-> ""]

ErrorKinds == {"", "not_found", "idempotency_conflict", "idempotency_in_progress",
               "payment_status_conflict", "authorization_expired", "bank_error",
               "internal"}

Reply == [error : ErrorKinds, result : Result]
NoReply == [error |-> "", result |-> NoResult]
ErrorReply(kind) == [error |-> kind, result |-> NoResult]

\* The same function of a stored outcome for the original answer and a replay.
replayPaymentCommand(result, failureKind) ==
    IF failureKind = "" THEN [error |-> "", result |-> result] ELSE ErrorReply(failureKind)

BankOperations == {"authorize", "capture", "void", "refund"}

BankOperation(operation) ==
    CASE operation = "capture_payment" -> "capture"
      [] operation = "void_payment" -> "void"
      [] operation = "refund_payment" -> "refund"
      [] OTHER -> "authorize"

Init ==
    /\ StoreInit
    /\ pc = [a \in Attempts |-> "idle"]
    /\ request = [a \in Attempts |-> NoRequest]
    /\ age = [a \in Attempts |-> 0]
    /\ paymentID = [a \in Attempts |-> ""]
    /\ payment = [a \in Attempts |-> NoPayment]
    /\ reply = [a \in Attempts |-> NoReply]
    /\ nextBankOperationKey = 1
    /\ called = [id \in PaymentIDs |-> [b \in BankOperations |-> {}]]
    /\ answers = [s \in Slots |-> {}]

\* The attempt's context has not reached its deadline.
Live(a) == age[a] < PaymentCommandTimeout

----------------------------------------------------------------------------
(* Control of one attempt *)

GoTo(a, step) == pc' = [pc EXCEPT ![a] = step]

\* The command returns: its copy of the payment is gone.
Return(a, answer) ==
    /\ GoTo(a, "respond")
    /\ payment' = [payment EXCEPT ![a] = NoPayment]
    /\ reply' = [reply EXCEPT ![a] = answer]

\* The claim is held: keep the copy of the payment and call the bank with its key.
CallBank(a, id, p) ==
    LET operation == request[a].operation IN
    /\ GoTo(a, "bank")
    /\ paymentID' = [paymentID EXCEPT ![a] = id]
    /\ payment' = [payment EXCEPT ![a] = p]
    /\ called' = [called EXCEPT ![id][BankOperation(operation)] =
                     @ \cup {BankOperationKey(operation, p)}]
    /\ UNCHANGED reply

\* A commit that reports an error although it happened.
CommitLost(a) ==
    /\ "database" \in Faults
    /\ Return(a, ErrorReply("internal"))
    /\ UNCHANGED <<paymentID, called>>

\* The caller sends a command; its business time and deadline start here.
Begin(a, r) ==
    /\ pc[a] = "idle"
    /\ GoTo(a, "recover")
    /\ request' = [request EXCEPT ![a] = r]
    /\ UNCHANGED <<storeVars, age, paymentID, payment, reply, nextBankOperationKey,
                   called, answers>>

----------------------------------------------------------------------------
(* Claiming the slot *)

\* A stuck claim is taken over and the bank is called with the stored payment.
Recover(a) ==
    LET r == request[a]
        id == idempotencyRecords[Slot(r)].paymentID
    IN
    /\ pc[a] = "recover" /\ Live(a)
    /\ IsStuckClaim(r, age[a])
    /\ RecoveryError(r, idempotencyRecords[Slot(r)]) = ""
    /\ RecoverClaim(r, age[a])
    /\ CallBank(a, id, payments[id])
       \/ CommitLost(a)
    /\ UNCHANGED <<request, age, nextBankOperationKey, answers>>

\* A stuck claim whose payment moved on: the transaction rolls back.
RejectRecovery(a) ==
    LET r == request[a] IN
    /\ pc[a] = "recover" /\ Live(a)
    /\ IsStuckClaim(r, age[a])
    /\ RecoveryError(r, idempotencyRecords[Slot(r)]) # ""
    /\ Return(a, ErrorReply(RecoveryError(r, idempotencyRecords[Slot(r)])))
    /\ UNCHANGED <<storeVars, request, age, paymentID, nextBankOperationKey,
                   called, answers>>

\* No stuck claim: go on to the INSERT.
NothingToRecover(a) ==
    /\ pc[a] = "recover" /\ Live(a)
    /\ ~ IsStuckClaim(request[a], age[a])
    /\ GoTo(a, "insert")
    /\ UNCHANGED <<storeVars, request, age, paymentID, payment, reply,
                   nextBankOperationKey, called, answers>>

\* The slot is free: a new payment, stored pending with its bank operation key.
StartAuthorization(a, id) ==
    LET r == request[a] IN
    /\ pc[a] = "insert" /\ Live(a)
    /\ r.operation = "authorize_payment"
    /\ idempotencyRecords[Slot(r)].status = "absent"
    /\ payments[id].status = "absent"
    /\ InsertAuthorization(r, id, age[a], nextBankOperationKey)
    /\ nextBankOperationKey' = nextBankOperationKey + 1
    /\ CallBank(a, id, payments'[id])
       \/ CommitLost(a)
    /\ UNCHANGED <<request, age, answers>>

\* The slot is free and the payment admits the operation: its bank operation
\* key is stored before the bank is called.
ClaimPayment(a) ==
    LET r == request[a] IN
    /\ pc[a] = "insert" /\ Live(a)
    /\ r.operation # "authorize_payment"
    /\ idempotencyRecords[Slot(r)].status = "absent"
    /\ AcquireError(r) = ""
    /\ InsertClaim(r, age[a], nextBankOperationKey)
    /\ nextBankOperationKey' = IF BankOperationKey(r.operation, payments[r.paymentID]) = 0
                               THEN nextBankOperationKey + 1
                               ELSE nextBankOperationKey
    /\ CallBank(a, r.paymentID, payments'[r.paymentID])
       \/ CommitLost(a)
    /\ UNCHANGED <<request, age, answers>>

\* The slot is free but the payment does not admit the operation: roll back.
RejectClaim(a) ==
    LET r == request[a] IN
    /\ pc[a] = "insert" /\ Live(a)
    /\ r.operation # "authorize_payment"
    /\ idempotencyRecords[Slot(r)].status = "absent"
    /\ AcquireError(r) # ""
    /\ Return(a, ErrorReply(AcquireError(r)))
    /\ UNCHANGED <<storeVars, request, age, paymentID, nextBankOperationKey,
                   called, answers>>

\* ON CONFLICT DO NOTHING: read the record in a later snapshot.
SlotTaken(a) ==
    /\ pc[a] = "insert" /\ Live(a)
    /\ idempotencyRecords[Slot(request[a])].status # "absent"
    /\ GoTo(a, "select")
    /\ UNCHANGED <<storeVars, request, age, paymentID, payment, reply,
                   nextBankOperationKey, called, answers>>

\* Mutant of SelectReply: the request is not compared with the record's.
SelectReplyIgnoringFingerprint(r, record) ==
    CASE record.status = "absent" -> ErrorReply("internal")
      [] record.status = "in_progress" -> ErrorReply("idempotency_in_progress")
      [] OTHER -> replayPaymentCommand(record.result, record.failureKind)

\* The record as a later snapshot shows it: gone (released or cleaned up in
\* between), another request's, still in progress, or completed.
SelectReply(r, record) ==
    IF record.status = "absent" THEN ErrorReply("internal")
    ELSE IF record.fingerprint # Fingerprint(r) THEN ErrorReply("idempotency_conflict")
    ELSE IF record.status = "in_progress" THEN ErrorReply("idempotency_in_progress")
    ELSE replayPaymentCommand(record.result, record.failureKind)

\* An answer that carries a command's outcome rather than asking to try again.
IsOutcome(answer) == answer.error \in {"", "authorization_expired"}

Select(a) ==
    LET r == request[a]
        answer == SelectReply(r, idempotencyRecords[Slot(r)])
    IN
    /\ pc[a] = "select" /\ Live(a)
    /\ Return(a, answer)
    /\ answers' = IF IsOutcome(answer)
                  THEN [answers EXCEPT ![Slot(r)] = @ \cup {<<Fingerprint(r), answer>>}]
                  ELSE answers
    /\ UNCHANGED <<storeVars, request, age, paymentID, nextBankOperationKey, called>>

----------------------------------------------------------------------------
(* The bank's answer and what the attempt makes of it *)

\* The attempt goes on to CompletePaymentCommand with p as its copy.
Completing(a, p) ==
    /\ GoTo(a, "complete")
    /\ payment' = [payment EXCEPT ![a] = p]
    /\ UNCHANGED reply

\* The decline reasons the bank client produces.
BankDeclineReasons == {"expired_card", "insufficient_funds"}

\* applyAuthorizationOutcome, and for AuthorizePayment alone the unknown
\* outcome that completes the command as pending.
AuthorizationAnswer(a) ==
    /\ request[a].operation \in {"authorize_payment", "retry_authorization"}
    /\ payment[a].status = "pending"
    /\ \/ \E id \in BankIDs : Completing(a, MarkAuthorized(payment[a], id))
       \/ \E reason \in BankDeclineReasons : Completing(a, MarkDeclined(payment[a], reason))
       \/ /\ request[a].operation = "authorize_payment"
          /\ Completing(a, payment[a])

CaptureAnswer(a) ==
    /\ request[a].operation = "capture_payment"
    /\ payment[a].status = "authorized"
    /\ \/ \E id \in BankIDs : Completing(a, MarkCaptured(payment[a], id))
       \/ Completing(a, MarkExpired(payment[a]))

VoidAnswer(a) ==
    /\ request[a].operation = "void_payment"
    /\ payment[a].status = "authorized"
    /\ \/ \E id \in BankIDs : Completing(a, MarkVoided(payment[a], id))
       \/ Completing(a, MarkExpired(payment[a]))

RefundAnswer(a) ==
    /\ request[a].operation = "refund_payment"
    /\ payment[a].status = "captured"
    /\ \E id \in BankIDs : Completing(a, MarkRefunded(payment[a], id))

\* Every other bank error, and a transition the payment refuses: release the claim.
BankError(a) ==
    /\ GoTo(a, "release")
    /\ reply' = [reply EXCEPT ![a] = ErrorReply("bank_error")]
    /\ UNCHANGED payment

BankAnswer(a) ==
    /\ pc[a] = "bank"
    /\ \/ AuthorizationAnswer(a)
       \/ CaptureAnswer(a)
       \/ VoidAnswer(a)
       \/ RefundAnswer(a)
       \/ BankError(a)
    /\ UNCHANGED <<storeVars, request, age, paymentID, nextBankOperationKey, called, answers>>

----------------------------------------------------------------------------
(* Finishing the claim *)

\* Only an expired authorization completes a command as a failure.
FailureKind(p) == IF p.status = "expired" THEN "authorization_expired" ELSE ""

Complete(a) ==
    LET r == request[a]
        answer == replayPaymentCommand(newPaymentResult(paymentID[a], payment[a]),
                                       FailureKind(payment[a]))
    IN
    /\ pc[a] = "complete" /\ Live(a)
    /\ CompleteError(r, paymentID[a], FailureKind(payment[a])) = ""
    /\ CompletePaymentCommand(r, paymentID[a], payment[a], FailureKind(payment[a]))
    /\ \/ /\ Return(a, answer)
          /\ answers' = [answers EXCEPT ![Slot(r)] = @ \cup {<<Fingerprint(r), answer>>}]
       \/ /\ "database" \in Faults
          /\ Return(a, ErrorReply("internal"))
          /\ UNCHANGED answers
    /\ UNCHANGED <<request, age, paymentID, nextBankOperationKey, called>>

\* The transaction rolls back and the error is returned; nothing releases the claim.
RejectComplete(a) ==
    LET error == CompleteError(request[a], paymentID[a], FailureKind(payment[a])) IN
    /\ pc[a] = "complete" /\ Live(a)
    /\ error # ""
    /\ Return(a, ErrorReply(error))
    /\ UNCHANGED <<storeVars, request, age, paymentID, nextBankOperationKey,
                   called, answers>>

\* The bank error is returned whether or not the DELETE reports success.
Release(a) ==
    /\ pc[a] = "release" /\ Live(a)
    /\ ReleasePaymentCommand(request[a])
    /\ Return(a, reply[a])
    /\ UNCHANGED <<request, age, paymentID, nextBankOperationKey, called, answers>>

----------------------------------------------------------------------------
(* Failures, the caller, the cleanup worker and time *)

\* A database call that changes nothing and reports an error: always the case
\* once the context is done.  A failed release is only counted in a metric.
DatabaseError(a) ==
    /\ pc[a] \in {"recover", "insert", "select", "complete", "release"}
    /\ ~ Live(a) \/ "database" \in Faults
    /\ Return(a, IF pc[a] = "release" THEN reply[a] ELSE ErrorReply("internal"))
    /\ UNCHANGED <<storeVars, request, age, paymentID, nextBankOperationKey,
                   called, answers>>

Forget(a) ==
    /\ GoTo(a, "idle")
    /\ request' = [request EXCEPT ![a] = NoRequest]
    /\ age' = [age EXCEPT ![a] = 0]
    /\ paymentID' = [paymentID EXCEPT ![a] = ""]
    /\ payment' = [payment EXCEPT ![a] = NoPayment]
    /\ reply' = [reply EXCEPT ![a] = NoReply]
    /\ UNCHANGED <<storeVars, nextBankOperationKey, called, answers>>

Respond(a) == pc[a] = "respond" /\ Forget(a)

\* The gateway process dies: nothing of the attempt survives.
Crash(a) ==
    /\ "crash" \in Faults
    /\ pc[a] \notin {"idle", "respond"}
    /\ Forget(a)

\* One pass of the cleanup worker that finds something to delete.  The promise
\* to replay an answer ends with the replay window, not with the deletion.
Cleanup ==
    /\ \E s \in Slots : IsExpiredReplay(idempotencyRecords[s])
    /\ CleanupCompletedIdempotencyRecords
    /\ answers' = [s \in Slots |-> IF idempotencyRecords[s].completedAge > ReplayWindow
                                    THEN {} ELSE answers[s]]
    /\ UNCHANGED <<attemptVars, nextBankOperationKey, called>>

Tick ==
    /\ StoreTick
    /\ age' = [a \in Attempts |-> IF pc[a] = "idle" THEN age[a]
                                   ELSE Older(age[a], PaymentCommandTimeout)]
    /\ UNCHANGED <<pc, request, paymentID, payment, reply, nextBankOperationKey,
                   called, answers>>

\* The steps an attempt takes by itself once it has begun.
Proceed(a) ==
    \/ Recover(a) \/ RejectRecovery(a) \/ NothingToRecover(a)
    \/ \E id \in PaymentIDs : StartAuthorization(a, id)
    \/ ClaimPayment(a) \/ RejectClaim(a) \/ SlotTaken(a) \/ Select(a)
    \/ BankAnswer(a)
    \/ Complete(a) \/ RejectComplete(a) \/ Release(a)
    \/ DatabaseError(a) \/ Respond(a)

Attempt(a) ==
    \/ \E r \in Requests : Begin(a, r)
    \/ Proceed(a)
    \/ Crash(a)

Next == (\E a \in Attempts : Attempt(a)) \/ Cleanup \/ Tick

Spec == Init /\ [][Next]_vars

\* Time passes and attempts run; a caller without an outcome sends its command
\* again; an attempt is not starved of every chance to take its decisive steps
\* before its deadline.  The last one rests on config.go, which refuses bank
\* call budgets that leave no reserve before the command timeout.
Fairness ==
    /\ WF_vars(Tick)
    /\ \A a \in Attempts :
          /\ WF_vars(Proceed(a))
          /\ \A r \in Requests : SF_vars(Begin(a, r))
          /\ SF_vars(Recover(a))
          /\ SF_vars(Live(a) /\ BankAnswer(a))
          /\ SF_vars(Complete(a))
          /\ SF_vars(Release(a))

FairSpec == Spec /\ Fairness

----------------------------------------------------------------------------
(* Properties *)

\* Every variable stays within its type.
TypeOK ==
    /\ payments \in [PaymentIDs -> Payment]
    /\ idempotencyRecords \in [Slots -> Record]
    /\ pc \in [Attempts -> Steps]
    /\ request \in [Attempts -> Requests \cup {NoRequest}]
    /\ age \in [Attempts -> 0..PaymentCommandTimeout]
    /\ paymentID \in [Attempts -> PaymentIDs \cup {""}]
    /\ payment \in [Attempts -> Payment]
    /\ reply \in [Attempts -> Reply]
    /\ nextBankOperationKey \in Nat \ {0}
    /\ called \in [PaymentIDs -> [BankOperations -> SUBSET Nat]]
    /\ answers \in [Slots -> SUBSET (Fingerprints \X Reply)]

\* The attempt is between its claim and the end of it, with a live context.
Holds(a) == pc[a] \in {"bank", "complete", "release"} /\ Live(a)

\* Two attempts never work under the same claim at once: recovery, the
\* ownerless release and the ownerless completion never reach a claim whose
\* holder can still act.
ExclusiveClaim ==
    \A a, b \in Attempts :
        Holds(a) /\ Holds(b) /\ Slot(request[a]) = Slot(request[b]) => a = b

\* However often, under however many idempotency keys and through however
\* many crashes an operation of a payment is tried, the bank sees one bank
\* operation key for it.  Authorization and authorization retry share theirs.
OneKeyPerBankOperation ==
    \A id \in PaymentIDs, b \in BankOperations :
        \A k, l \in called[id][b] : k = l

\* Whatever copy an attempt wrote over a row, and whichever keys another
\* attempt stored in between, the row passes the CHECK constraint of the
\* table and loads back as a payment.
StoredPaymentsLoadable ==
    \A id \in PaymentIDs :
        payments[id].status # "absent" =>
            LoadPayment(payments[id]) /\ StatusPrivateFieldsCheck(payments[id])

\* Statuses a payment may still be in after it has been in status.
Reaches(status) ==
    CASE status = "pending" -> PaymentStatus
      [] status = "authorized" -> {"authorized", "expired", "captured", "voided", "refunded"}
      [] status = "captured" -> {"captured", "refunded"}
      [] OTHER -> {status}

\* A completed record tells a state its payment really was in: the payment
\* exists and is in, or past, the status of the stored snapshot.  A lost
\* update between two commands on one payment would break it.
SnapshotWasReached ==
    \A s \in Slots :
        LET record == idempotencyRecords[s] IN
        record.status = "completed" =>
            /\ record.result.paymentID = record.paymentID
            /\ record.paymentID \in PaymentIDs
            /\ payments[record.paymentID].status \in Reaches(record.result.status)

\* Until cleanup deletes the record, every caller that was given an outcome
\* for an operation and key was given the same one, and sent the same request:
\* a replay is indistinguishable from the original answer.
ReplayConsistent ==
    \A s \in Slots : \A x \in answers[s] :
        LET record == idempotencyRecords[s] IN
        /\ record.status = "completed"
        /\ x = <<record.fingerprint, replayPaymentCommand(record.result, record.failureKind)>>

\* A claim left open by a crash, a timeout or a lost commit can always be
\* taken over later, unless its payment has moved on: the payment and the bank
\* operation key were stored with the claim.
OpenClaimsRecoverable ==
    \A r \in Requests :
        LET record == idempotencyRecords[Slot(r)] IN
        record.status = "in_progress" /\ record.fingerprint = Fingerprint(r) =>
            RecoveryError(r, record) \in {"", "payment_status_conflict"}

\* The lifecycle seen through the payments table.
Ledger ==
    [id \in PaymentIDs |->
        [status |-> payments[id].status,
         bank |-> [f \in {"authorization", "capture", "void", "refund"} |->
                      CASE f = "authorization" -> payments[id].authorizationID
                        [] f = "capture" -> payments[id].captureID
                        [] f = "void" -> payments[id].voidID
                        [] OTHER -> payments[id].refundID]]]

Lifecycle == INSTANCE PaymentLifecycle WITH ledger <- Ledger

\* The gateway implements the payment lifecycle: concurrent commands, stale
\* copies and recoveries never move a payment off the documented graph and
\* never drop or replace a recorded bank identifier.
ImplementsLifecycle == Lifecycle!Spec

\* An open claim does not stay open: callers that keep sending the command
\* finally complete it or have it released, whatever crashes and missed
\* deadlines came before, or another command moves its payment to a status
\* that no longer admits it.
OpenClaimsResolved ==
    \A r \in Requests :
        LET record == idempotencyRecords[Slot(r)]
            open == record.status = "in_progress" /\ record.fingerprint = Fingerprint(r)
        IN open ~> ~ open \/ RecoveryError(r, record) = "payment_status_conflict"

\* "A claim is completed or released; it is never left open by a finished
\* attempt": an attempt that had its claim and answered before its deadline
\* with an error of its own leaves no open claim of its own behind.
FinishedAttemptLeavesNoClaim ==
    \A a \in Attempts :
        /\ pc[a] = "respond"
        /\ paymentID[a] # ""
        /\ Live(a)
        => idempotencyRecords[Slot(request[a])].status # "in_progress"
=============================================================================
