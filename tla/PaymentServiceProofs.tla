------------------------ MODULE PaymentServiceProofs ------------------------
(***************************************************************************)
(* Machine-checked proofs about PaymentService, for every set of payments, *)
(* requests, attempts and faults and all times config.go accepts.  First   *)
(* its types, its claims and its replays.                                  *)
(*                                                                         *)
(* Then what the tables hold: the bank sees one bank operation key per     *)
(* operation of a payment, every stored payment loads back, every          *)
(* completed record tells a state its payment was in, every open claim can *)
(* be taken over, and the payments table implements the payment lifecycle. *)
(***************************************************************************)
EXTENDS PaymentService, TLAPS

\* The prover of a leaf that names no other; arithmetic is for SMT.
USE Zenon

----------------------------------------------------------------------------
(* Types of the operators the model is built from *)

\* A request's slot and fingerprint are among those the tables are indexed by,
\* and a command on an existing payment names one.
LEMMA RequestFacts ==
    ASSUME NEW r \in Requests
    PROVE  /\ Slot(r) \in Slots
           /\ Fingerprint(r) \in Fingerprints
           /\ r.operation \in Operations
           /\ r.card \in Cards \cup {""}
           /\ r.operation # "authorize_payment" => r.paymentID \in PaymentIDs
<1>1. RequestShape(r)
  BY RequestsAssumption
<1>2. Slot(r) \in Slots /\ Fingerprint(r) \in Fingerprints
  BY DEF Slots, Fingerprints
<1>. QED
  BY <1>1, <1>2 DEF RequestShape

\* The empty payment, record, result and reply are of their types.
LEMMA EmptyTypes ==
    /\ NoPayment \in Payment
    /\ NoResult \in Result
    /\ NoRecord \in Record
    /\ NoReply \in Reply
    /\ \A kind \in ErrorKinds : ErrorReply(kind) \in Reply
<1>1. NoPayment \in Payment
  BY DEF NoPayment, Payment, Key, BankID
<1>2. NoResult \in Result
  BY DEF NoResult, Result
<1>3. 0 \in 0..MaxClaimedAge /\ 0 \in 0..MaxCompletedAge
  BY TimesAssumption, SMT DEF MaxClaimedAge, MaxCompletedAge
<1>4. NoRecord \in Record
  BY <1>2, <1>3 DEF NoRecord, Record
<1>5. NoReply \in Reply /\ \A kind \in ErrorKinds : ErrorReply(kind) \in Reply
  BY <1>2 DEF NoReply, Reply, ErrorReply, ErrorKinds
<1>. QED
  BY <1>1, <1>2, <1>4, <1>5

\* Each transition of the domain yields a payment.
LEMMA MarkTypes ==
    ASSUME NEW p \in Payment
    PROVE  /\ \A id \in BankIDs : /\ MarkAuthorized(p, id) \in Payment
                                  /\ MarkCaptured(p, id) \in Payment
                                  /\ MarkVoided(p, id) \in Payment
                                  /\ MarkRefunded(p, id) \in Payment
           /\ \A reason \in BankDeclineReasons : MarkDeclined(p, reason) \in Payment
           /\ MarkExpired(p) \in Payment
<1>1. ASSUME NEW id \in BankIDs
      PROVE  MarkAuthorized(p, id) \in Payment /\ MarkCaptured(p, id) \in Payment
  BY ZenonT(30) DEF Payment, Key, BankID, PaymentStatus, MarkAuthorized, MarkCaptured
<1>2. ASSUME NEW id \in BankIDs
      PROVE  MarkVoided(p, id) \in Payment /\ MarkRefunded(p, id) \in Payment
  <2>1. MarkVoided(p, id) \in Payment
    BY DEF Payment, Key, BankID, PaymentStatus, MarkVoided
  <2>2. MarkRefunded(p, id) \in Payment
    BY DEF Payment, BankID, PaymentStatus, MarkRefunded
  <2>. QED
    BY <2>1, <2>2
<1>3. ASSUME NEW reason \in BankDeclineReasons PROVE MarkDeclined(p, reason) \in Payment
  <2>1. reason \in DeclineReason \cup {""}
    BY DEF DeclineReason, BankDeclineReasons
  <2>. QED
    BY <2>1 DEF Payment, BankID, PaymentStatus, MarkDeclined
<1>4. MarkExpired(p) \in Payment
  BY DEF Payment, Key, PaymentStatus, MarkExpired
<1>. QED
  BY <1>1, <1>2, <1>3, <1>4

\* The store keeps records of their type.
LEMMA RecordTypes ==
    ASSUME NEW record \in Record, NEW n \in 0..PaymentCommandTimeout,
           NEW r \in Requests, NEW id \in PaymentIDs, NEW p \in Payment
    PROVE  /\ [record EXCEPT !.claimedAge = n] \in Record
           /\ InProgressRecord(r, id, n) \in Record
           /\ newPaymentResult(id, p) \in Result
           /\ [record EXCEPT !.status = "completed", !.failureKind = FailureKind(p),
                             !.result = newPaymentResult(id, p)] \in Record
<1>1. n \in 0..MaxClaimedAge
  BY TimesAssumption, SMT DEF MaxClaimedAge
<1>2. newPaymentResult(id, p) \in Result
  BY DEF newPaymentResult, Result, Payment
<1>3. FailureKind(p) \in TerminalFailureKinds \cup {""}
  BY DEF FailureKind, TerminalFailureKinds
<1>4. [record EXCEPT !.claimedAge = n] \in Record
  BY <1>1 DEF Record
<1>5. InProgressRecord(r, id, n) \in Record
  <2>. DEFINE base == NoRecord
  <2>1. base \in Record
    BY EmptyTypes
  <2>2. Fingerprint(r) \in Fingerprints
    BY RequestFacts
  <2>3. [base EXCEPT !.status = "in_progress", !.fingerprint = Fingerprint(r),
                     !.paymentID = id, !.claimedAge = n] \in Record
    <3>. HIDE DEF base
    <3>. QED
      BY <1>1, <2>1, <2>2 DEF Record
  <2>. QED
    BY <2>3 DEF InProgressRecord
<1>6. [record EXCEPT !.status = "completed", !.failureKind = FailureKind(p),
                     !.result = newPaymentResult(id, p)] \in Record
  BY <1>2, <1>3 DEF Record
<1>. QED
  BY <1>2, <1>4, <1>5, <1>6

\* An aged record is a record.
LEMMA OlderTypes ==
    ASSUME NEW record \in Record
    PROVE  OlderRecord(record) \in Record
<1>1. \A m \in 0..MaxClaimedAge : Older(m, MaxClaimedAge) \in 0..MaxClaimedAge
  BY TimesAssumption, SMT DEF Older, MaxClaimedAge
<1>2. \A m \in 0..MaxCompletedAge : Older(m, MaxCompletedAge) \in 0..MaxCompletedAge
  BY TimesAssumption, SMT DEF Older, MaxCompletedAge
<1>3. /\ [record EXCEPT !.claimedAge = Older(@, MaxClaimedAge)] \in Record
      /\ [record EXCEPT !.completedAge = Older(@, MaxCompletedAge)] \in Record
  BY <1>1, <1>2 DEF Record
<1>. QED
  BY <1>3 DEF OlderRecord

\* A stored outcome turns into a reply, and so does the record a SELECT shows
\* and the outcome an attempt is about to store.
LEMMA ReplyTypes ==
    /\ \A r \in Requests, record \in Record : SelectReply(r, record) \in Reply
    /\ \A id \in PaymentIDs, p \in Payment :
          replayPaymentCommand(newPaymentResult(id, p), FailureKind(p)) \in Reply
<1>1. \A x \in Result, k \in TerminalFailureKinds \cup {""} :
          replayPaymentCommand(x, k) \in Reply
  BY EmptyTypes DEF replayPaymentCommand, Reply, ErrorKinds, TerminalFailureKinds
<1>2. \A record \in Record :
          /\ record.result \in Result
          /\ record.failureKind \in TerminalFailureKinds \cup {""}
  BY DEF Record
<1>3. \A id \in PaymentIDs, p \in Payment :
          /\ newPaymentResult(id, p) \in Result
          /\ FailureKind(p) \in TerminalFailureKinds \cup {""}
  BY DEF newPaymentResult, Result, Payment, FailureKind, TerminalFailureKinds
<1>4. \A r \in Requests, record \in Record : SelectReply(r, record) \in Reply
  BY <1>1, <1>2, EmptyTypes DEF SelectReply, ErrorKinds
<1>. QED
  BY <1>1, <1>3, <1>4

\* The bank operation key an operation adds to a payment.
LEMMA EnsureKeyTypes ==
    ASSUME NEW p \in Payment, NEW operation \in Operations, NEW key \in Nat
    PROVE  /\ ensureBankOperationKey(operation, p, key) \in Payment
           /\ BankOperationKey(operation, p) \in Nat
<1>1. BankOperationKey(operation, p) \in Nat
  BY DEF BankOperationKey, Payment, Key
<1>2. /\ SetCaptureBankOperationKey(p, key) \in Payment
      /\ SetVoidBankOperationKey(p, key) \in Payment
      /\ SetRefundBankOperationKey(p, key) \in Payment
  BY DEF Payment, Key, SetCaptureBankOperationKey, SetVoidBankOperationKey,
         SetRefundBankOperationKey
<1>. QED
  BY <1>1, <1>2 DEF ensureBankOperationKey

\* The errors the store reports are among the service's.
LEMMA ErrorTypes ==
    ASSUME NEW r \in Requests
    PROVE  /\ \A record \in Record :
                 /\ RecoveryError(r, record) \in ErrorKinds
                 /\ RecoveryError(r, record) = "" => record.paymentID \in PaymentIDs
           /\ AcquireError(r) \in ErrorKinds
           /\ \A id \in PaymentIDs, p \in Payment :
                 CompleteError(r, id, FailureKind(p)) \in ErrorKinds
BY DEF RecoveryError, AcquireError, CompleteError, ErrorKinds

----------------------------------------------------------------------------
(* Type correctness *)

\* A started attempt has a request, and one with a claim has its payment.
Placed ==
    \A a \in Attempts :
        /\ pc[a] # "idle" => request[a] \in Requests
        /\ pc[a] \in {"bank", "complete", "release"} => paymentID[a] \in PaymentIDs

TypeInv == TypeOK /\ Placed

\* An attempt's age can become a claim's.
LEMMA AgeFits ==
    ASSUME TypeInv, NEW a \in Attempts
    PROVE  age[a] \in 0..PaymentCommandTimeout /\ age[a] \in 0..MaxClaimedAge
<1>1. age[a] \in 0..PaymentCommandTimeout
  BY DEF TypeInv, TypeOK
<1>. QED
  BY <1>1, TimesAssumption, SMT DEF MaxClaimedAge

\* The empty store and idle attempts have their types.
LEMMA TypeInit == Init => TypeInv
<1>. SUFFICES ASSUME Init PROVE TypeInv
  OBVIOUS
<1>1. payments \in [PaymentIDs -> Payment] /\ idempotencyRecords \in [Slots -> Record]
  BY EmptyTypes DEF Init, StoreInit
<1>2. /\ pc \in [Attempts -> Steps]
      /\ request \in [Attempts -> Requests \cup {NoRequest}]
      /\ paymentID \in [Attempts -> PaymentIDs \cup {""}]
  BY DEF Init, Steps
<1>7. age \in [Attempts -> 0..PaymentCommandTimeout]
  <2>1. 0 \in 0..PaymentCommandTimeout
    BY TimesAssumption, SMT
  <2>. QED
    BY <2>1 DEF Init
<1>3. payment \in [Attempts -> Payment] /\ reply \in [Attempts -> Reply]
  BY EmptyTypes DEF Init
<1>6. nextBankOperationKey \in Nat \ {0}
  <2>1. nextBankOperationKey = 1
    BY DEF Init
  <2>. QED
    BY <2>1, SMT
<1>4. /\ called \in [PaymentIDs -> [BankOperations -> SUBSET Nat]]
      /\ answers \in [Slots -> SUBSET (Fingerprints \X Reply)]
  BY DEF Init
<1>5. Placed
  BY DEF Init, Placed
<1>. QED
  BY <1>1, <1>2, <1>3, <1>4, <1>5, <1>6, <1>7 DEF TypeInv, TypeOK

\* What an attempt's move to another step, with a reply and a payment of their
\* types, does to the types of the attempt's own variables.
LEMMA TypeReturn ==
    ASSUME TypeInv, NEW a \in Attempts, pc[a] # "idle",
           NEW answer \in Reply, Return(a, answer),
           UNCHANGED <<request, age, paymentID, called>>,
           nextBankOperationKey' \in Nat \ {0},
           payments' \in [PaymentIDs -> Payment],
           idempotencyRecords' \in [Slots -> Record],
           answers' \in [Slots -> SUBSET (Fingerprints \X Reply)]
    PROVE  TypeInv'
<1>1. pc' = [pc EXCEPT ![a] = "respond"]
  BY DEF Return, GoTo
<1>2. pc' \in [Attempts -> Steps]
  BY <1>1 DEF TypeInv, TypeOK, Steps
<1>3. payment' \in [Attempts -> Payment] /\ reply' \in [Attempts -> Reply]
  BY EmptyTypes DEF Return, TypeInv, TypeOK
<1>4. Placed'
  BY <1>1 DEF TypeInv, TypeOK, Placed
<1>. QED
  BY <1>2, <1>3, <1>4 DEF TypeInv, TypeOK

\* Taking the claim, CallBank keeps the types of what it writes.
LEMMA TypeCallBank ==
    ASSUME TypeInv, NEW a \in Attempts, pc[a] # "idle",
           NEW id \in PaymentIDs, NEW p \in Payment, CallBank(a, id, p),
           UNCHANGED <<request, age, answers>>,
           nextBankOperationKey' \in Nat \ {0},
           payments' \in [PaymentIDs -> Payment],
           idempotencyRecords' \in [Slots -> Record]
    PROVE  TypeInv'
<1>1. pc' = [pc EXCEPT ![a] = "bank"] /\ paymentID' = [paymentID EXCEPT ![a] = id]
  BY DEF CallBank, GoTo
<1>2. pc' \in [Attempts -> Steps] /\ paymentID' \in [Attempts -> PaymentIDs \cup {""}]
  BY <1>1 DEF TypeInv, TypeOK, Steps
<1>3. payment' \in [Attempts -> Payment] /\ reply' = reply
  BY DEF CallBank, TypeInv, TypeOK
<1>4. request[a] \in Requests
  BY DEF TypeInv, Placed
<1>5. BankOperation(request[a].operation) \in BankOperations
  BY DEF BankOperation, BankOperations
<1>6. BankOperationKey(request[a].operation, p) \in Nat
  BY <1>4, RequestFacts, EnsureKeyTypes
<1>7. called' \in [PaymentIDs -> [BankOperations -> SUBSET Nat]]
  BY <1>5, <1>6 DEF CallBank, TypeInv, TypeOK
<1>8. Placed'
  BY <1>1 DEF TypeInv, TypeOK, Placed
<1>. QED
  BY <1>2, <1>3, <1>7, <1>8 DEF TypeInv, TypeOK

\* Recording an outcome keeps the type of the history of outcomes.
LEMMA AnswerType ==
    ASSUME TypeInv, NEW s \in Slots, NEW f \in Fingerprints, NEW answer \in Reply
    PROVE  [answers EXCEPT ![s] = @ \cup {<<f, answer>>}]
               \in [Slots -> SUBSET (Fingerprints \X Reply)]
<1>. DEFINE given == Fingerprints \X Reply
<1>1. <<f, answer>> \in given
  OBVIOUS
<1>2. answers \in [Slots -> SUBSET given]
  BY DEF TypeInv, TypeOK
<1>. HIDE DEF given
<1>3. [answers EXCEPT ![s] = @ \cup {<<f, answer>>}] \in [Slots -> SUBSET given]
  BY <1>1, <1>2
<1>. QED
  BY <1>3 DEF given

\* Every step keeps the types.
LEMMA TypeStep == TypeInv /\ [Next]_vars => TypeInv'
<1>. SUFFICES ASSUME TypeInv, [Next]_vars PROVE TypeInv'
  OBVIOUS
<1>1. ASSUME NEW a \in Attempts, NEW r \in Requests, Begin(a, r) PROVE TypeInv'
  BY <1>1 DEF TypeInv, TypeOK, Placed, Begin, GoTo, storeVars, Steps
<1>2. ASSUME NEW a \in Attempts, Recover(a) PROVE TypeInv'
  <2>. DEFINE r == request[a]
              record == idempotencyRecords[Slot(r)]
  <2>1. r \in Requests /\ pc[a] # "idle"
    BY <1>2 DEF Recover, TypeInv, Placed
  <2>2. record \in Record /\ record.paymentID \in PaymentIDs
    BY <1>2, <2>1, RequestFacts, ErrorTypes DEF Recover, TypeInv, TypeOK
  <2>3. idempotencyRecords' \in [Slots -> Record] /\ payments' = payments
    <3>1. age[a] \in 0..MaxClaimedAge
      BY AgeFits
    <3>2. [record EXCEPT !.claimedAge = age[a]] \in Record
      BY <2>2, <3>1 DEF Record
    <3>. QED
      BY <1>2, <2>1, <3>2, RequestFacts DEF Recover, RecoverClaim, TypeInv, TypeOK
  <2>4. CASE CallBank(a, record.paymentID, payments[record.paymentID])
    BY <1>2, <2>1, <2>2, <2>3, <2>4, TypeCallBank DEF Recover, TypeInv, TypeOK
  <2>5. CASE CommitLost(a)
    BY <1>2, <2>1, <2>3, <2>5, TypeReturn, EmptyTypes
       DEF Recover, CommitLost, ErrorKinds, TypeInv, TypeOK
  <2>. QED
    BY <1>2, <2>4, <2>5 DEF Recover
<1>3. ASSUME NEW a \in Attempts, RejectRecovery(a) PROVE TypeInv'
  <2>1. request[a] \in Requests /\ pc[a] # "idle"
    BY <1>3 DEF RejectRecovery, TypeInv, Placed
  <2>2. ErrorReply(RecoveryError(request[a], idempotencyRecords[Slot(request[a])])) \in Reply
    BY <2>1, RequestFacts, ErrorTypes, EmptyTypes DEF TypeInv, TypeOK
  <2>. QED
    BY <1>3, <2>1, <2>2, TypeReturn DEF RejectRecovery, storeVars, TypeInv, TypeOK
<1>4. ASSUME NEW a \in Attempts, NothingToRecover(a) PROVE TypeInv'
  BY <1>4 DEF TypeInv, TypeOK, Placed, NothingToRecover, GoTo, storeVars, Steps
<1>5. ASSUME NEW a \in Attempts, NEW id \in PaymentIDs, StartAuthorization(a, id)
      PROVE TypeInv'
  <2>. DEFINE r == request[a]
  <2>1. r \in Requests /\ pc[a] # "idle"
    BY <1>5 DEF StartAuthorization, TypeInv, Placed
  <2>2. idempotencyRecords' \in [Slots -> Record]
    BY <1>5, <2>1, RequestFacts, RecordTypes, EmptyTypes
       DEF StartAuthorization, InsertAuthorization, TypeInv, TypeOK
  <2>3. payments' \in [PaymentIDs -> Payment]
    <3>1. NewPendingPayment(nextBankOperationKey, r.card) \in Payment
      BY <2>1, RequestFacts DEF Payment, Key, BankID, PaymentStatus, NewPendingPayment,
         NoPayment, TypeInv, TypeOK
    <3>. QED
      BY <1>5, <3>1 DEF StartAuthorization, InsertAuthorization, TypeInv, TypeOK
  <2>4. nextBankOperationKey' \in Nat \ {0}
    <3>1. nextBankOperationKey' = nextBankOperationKey + 1
      BY <1>5 DEF StartAuthorization
    <3>2. nextBankOperationKey \in Nat \ {0}
      BY DEF TypeInv, TypeOK
    <3>. QED
      BY <3>1, <3>2, SMT
  <2>5. CASE CallBank(a, id, payments'[id])
    BY <1>5, <2>1, <2>2, <2>3, <2>4, <2>5, TypeCallBank DEF StartAuthorization
  <2>6. CASE CommitLost(a)
    BY <1>5, <2>1, <2>2, <2>3, <2>4, <2>6, TypeReturn, EmptyTypes
       DEF StartAuthorization, CommitLost, ErrorKinds, TypeInv, TypeOK
  <2>. QED
    BY <1>5, <2>5, <2>6 DEF StartAuthorization
<1>6. ASSUME NEW a \in Attempts, ClaimPayment(a) PROVE TypeInv'
  <2>. DEFINE r == request[a]
              p == ensureBankOperationKey(r.operation, payments[r.paymentID], nextBankOperationKey)
  <2>1. /\ r \in Requests /\ pc[a] # "idle"
        /\ r.paymentID \in PaymentIDs /\ r.operation \in Operations
    BY <1>6, RequestFacts DEF ClaimPayment, TypeInv, Placed
  <2>2. idempotencyRecords' \in [Slots -> Record]
    <3>1. InProgressRecord(r, r.paymentID, age[a]) \in Record
      BY <2>1, AgeFits, RecordTypes, EmptyTypes
    <3>. QED
      BY <1>6, <3>1 DEF ClaimPayment, InsertClaim, TypeInv, TypeOK
  <2>3. nextBankOperationKey \in Nat /\ nextBankOperationKey' \in Nat \ {0}
    <3>1. nextBankOperationKey \in Nat \ {0}
      BY DEF TypeInv, TypeOK
    <3>2. nextBankOperationKey' \in {nextBankOperationKey, nextBankOperationKey + 1}
      BY <1>6 DEF ClaimPayment
    <3>. QED
      BY <3>1, <3>2, SMT
  <2>4. payments' \in [PaymentIDs -> Payment] /\ payments'[r.paymentID] \in Payment
    <3>1. p \in Payment
      BY <2>1, <2>3, EnsureKeyTypes DEF TypeInv, TypeOK
    <3>2. payments' = [payments EXCEPT ![r.paymentID] = p]
      BY <1>6 DEF ClaimPayment, InsertClaim
    <3>. QED
      BY <2>1, <3>1, <3>2 DEF TypeInv, TypeOK
  <2>5. CASE CallBank(a, r.paymentID, payments'[r.paymentID])
    BY <1>6, <2>1, <2>2, <2>3, <2>4, <2>5, TypeCallBank DEF ClaimPayment
  <2>6. CASE CommitLost(a)
    BY <1>6, <2>1, <2>2, <2>3, <2>4, <2>6, TypeReturn, EmptyTypes
       DEF ClaimPayment, CommitLost, ErrorKinds, TypeInv, TypeOK
  <2>. QED
    BY <1>6, <2>5, <2>6 DEF ClaimPayment
<1>7. ASSUME NEW a \in Attempts, RejectClaim(a) PROVE TypeInv'
  <2>1. request[a] \in Requests /\ pc[a] # "idle"
    BY <1>7 DEF RejectClaim, TypeInv, Placed
  <2>2. ErrorReply(AcquireError(request[a])) \in Reply
    BY <2>1, ErrorTypes, EmptyTypes
  <2>. QED
    BY <1>7, <2>1, <2>2, TypeReturn DEF RejectClaim, storeVars, TypeInv, TypeOK
<1>8. ASSUME NEW a \in Attempts, SlotTaken(a) PROVE TypeInv'
  BY <1>8 DEF TypeInv, TypeOK, Placed, SlotTaken, GoTo, storeVars, Steps
<1>9. ASSUME NEW a \in Attempts, Select(a) PROVE TypeInv'
  <2>. DEFINE r == request[a]
              answer == SelectReply(r, idempotencyRecords[Slot(r)])
  <2>1. r \in Requests /\ pc[a] # "idle" /\ idempotencyRecords[Slot(r)] \in Record
    BY <1>9, RequestFacts DEF Select, TypeInv, TypeOK, Placed
  <2>2. answer \in Reply /\ Fingerprint(r) \in Fingerprints
    BY <2>1, ReplyTypes, RequestFacts
  <2>3. answers' \in [Slots -> SUBSET (Fingerprints \X Reply)]
    BY <1>9, <2>1, <2>2, AnswerType, RequestFacts DEF Select, TypeInv, TypeOK
  <2>. QED
    BY <1>9, <2>1, <2>2, <2>3, TypeReturn DEF Select, storeVars, TypeInv, TypeOK
<1>10. ASSUME NEW a \in Attempts, BankAnswer(a) PROVE TypeInv'
  <2>1. pc[a] = "bank" /\ request[a] \in Requests /\ payment[a] \in Payment
    BY <1>10 DEF BankAnswer, TypeInv, TypeOK, Placed
  <2>2. UNCHANGED <<storeVars, request, age, paymentID, nextBankOperationKey, called, answers>>
    BY <1>10 DEF BankAnswer
  <2>3. ASSUME NEW p \in Payment, Completing(a, p) PROVE TypeInv'
    <3>1. pc' = [pc EXCEPT ![a] = "complete"] /\ pc' \in [Attempts -> Steps]
      BY <2>3 DEF Completing, GoTo, TypeInv, TypeOK, Steps
    <3>2. payment' \in [Attempts -> Payment] /\ reply' = reply
      BY <2>3 DEF Completing, TypeInv, TypeOK
    <3>3. Placed'
      BY <2>1, <2>2, <3>1 DEF TypeInv, TypeOK, Placed
    <3>. QED
      BY <2>2, <3>1, <3>2, <3>3 DEF TypeInv, TypeOK, storeVars
  <2>4. CASE AuthorizationAnswer(a)
    BY <2>1, <2>3, <2>4, MarkTypes DEF AuthorizationAnswer
  <2>5. CASE CaptureAnswer(a)
    BY <2>1, <2>3, <2>5, MarkTypes DEF CaptureAnswer
  <2>6. CASE VoidAnswer(a)
    BY <2>1, <2>3, <2>6, MarkTypes DEF VoidAnswer
  <2>7. CASE RefundAnswer(a)
    BY <2>1, <2>3, <2>7, MarkTypes DEF RefundAnswer
  <2>8. CASE BankError(a)
    <3>1. pc' = [pc EXCEPT ![a] = "release"] /\ pc' \in [Attempts -> Steps]
      BY <2>8 DEF BankError, GoTo, TypeInv, TypeOK, Steps
    <3>2. payment' = payment /\ reply' \in [Attempts -> Reply]
      BY <2>8, EmptyTypes DEF BankError, ErrorKinds, TypeInv, TypeOK
    <3>3. Placed'
      BY <2>1, <2>2, <3>1 DEF TypeInv, TypeOK, Placed
    <3>. QED
      BY <2>2, <3>1, <3>2, <3>3 DEF TypeInv, TypeOK, storeVars
  <2>. QED
    BY <1>10, <2>4, <2>5, <2>6, <2>7, <2>8 DEF BankAnswer
<1>11. ASSUME NEW a \in Attempts, Complete(a) PROVE TypeInv'
  <2>. DEFINE r == request[a]
              p == payment[a]
              id == paymentID[a]
              answer == replayPaymentCommand(newPaymentResult(id, p), FailureKind(p))
  <2>1. /\ r \in Requests /\ p \in Payment /\ id \in PaymentIDs /\ pc[a] # "idle"
        /\ Slot(r) \in Slots /\ Fingerprint(r) \in Fingerprints
    BY <1>11, RequestFacts DEF Complete, TypeInv, TypeOK, Placed
  <2>2. /\ payments' \in [PaymentIDs -> Payment]
        /\ idempotencyRecords' \in [Slots -> Record]
    BY <1>11, <2>1, AgeFits, RecordTypes
       DEF Complete, CompletePaymentCommand, TypeInv, TypeOK
  <2>3. answer \in Reply
    BY <2>1, ReplyTypes
  <2>4. nextBankOperationKey' \in Nat \ {0} /\ UNCHANGED <<request, age, paymentID, called>>
    BY <1>11 DEF Complete, TypeInv, TypeOK
  <2>5. CASE /\ Return(a, answer)
             /\ answers' = [answers EXCEPT ![Slot(r)] = @ \cup {<<Fingerprint(r), answer>>}]
    <3>1. answers' \in [Slots -> SUBSET (Fingerprints \X Reply)]
      BY <2>1, <2>3, <2>5, AnswerType
    <3>. QED
      BY <2>1, <2>2, <2>3, <2>4, <2>5, <3>1, TypeReturn
  <2>6. CASE Return(a, ErrorReply("internal")) /\ UNCHANGED answers
    BY <2>1, <2>2, <2>4, <2>6, TypeReturn, EmptyTypes DEF ErrorKinds, TypeInv, TypeOK
  <2>. QED
    BY <1>11, <2>5, <2>6 DEF Complete
<1>12. ASSUME NEW a \in Attempts, RejectComplete(a) PROVE TypeInv'
  <2>1. /\ request[a] \in Requests /\ pc[a] # "idle"
        /\ paymentID[a] \in PaymentIDs /\ payment[a] \in Payment
    BY <1>12 DEF RejectComplete, TypeInv, TypeOK, Placed
  <2>2. ErrorReply(CompleteError(request[a], paymentID[a], FailureKind(payment[a]))) \in Reply
    BY <2>1, ErrorTypes, EmptyTypes
  <2>. QED
    BY <1>12, <2>1, <2>2, TypeReturn DEF RejectComplete, storeVars, TypeInv, TypeOK
<1>13. ASSUME NEW a \in Attempts, Release(a) PROVE TypeInv'
  <2>1. idempotencyRecords' \in [Slots -> Record]
    BY <1>13, EmptyTypes DEF Release, ReleasePaymentCommand, TypeInv, TypeOK
  <2>2. reply[a] \in Reply /\ pc[a] # "idle"
    BY <1>13 DEF Release, TypeInv, TypeOK
  <2>. QED
    BY <1>13, <2>1, <2>2, TypeReturn DEF Release, ReleasePaymentCommand, TypeInv, TypeOK
<1>14. ASSUME NEW a \in Attempts, DatabaseError(a) PROVE TypeInv'
  <2>. DEFINE answer == IF pc[a] = "release" THEN reply[a] ELSE ErrorReply("internal")
  <2>1. answer \in Reply /\ pc[a] # "idle"
    BY <1>14, EmptyTypes DEF DatabaseError, ErrorKinds, TypeInv, TypeOK
  <2>2. Return(a, answer)
    BY <1>14 DEF DatabaseError
  <2>. QED
    BY <1>14, <2>1, <2>2, TypeReturn DEF DatabaseError, storeVars, TypeInv, TypeOK
<1>15. ASSUME NEW a \in Attempts, Forget(a) PROVE TypeInv'
  <2>1. /\ pc' = [pc EXCEPT ![a] = "idle"] /\ request' = [request EXCEPT ![a] = NoRequest]
        /\ paymentID' = [paymentID EXCEPT ![a] = ""]
        /\ age' = [age EXCEPT ![a] = 0]
        /\ UNCHANGED <<storeVars, nextBankOperationKey, called, answers>>
    BY <1>15 DEF Forget, GoTo
  <2>2. payment' \in [Attempts -> Payment] /\ reply' \in [Attempts -> Reply]
    BY <1>15, EmptyTypes DEF Forget, TypeInv, TypeOK
  <2>3. age' \in [Attempts -> 0..PaymentCommandTimeout]
    <3>1. 0 \in 0..PaymentCommandTimeout
      BY TimesAssumption, SMT
    <3>. QED
      BY <2>1, <3>1 DEF TypeInv, TypeOK
  <2>4. Placed'
    BY <2>1 DEF TypeInv, TypeOK, Placed
  <2>. QED
    BY <2>1, <2>2, <2>3, <2>4 DEF TypeInv, TypeOK, storeVars, Steps
<1>16. ASSUME Cleanup PROVE TypeInv'
  <2>1. idempotencyRecords' \in [Slots -> Record] /\ payments' = payments
    BY <1>16, EmptyTypes DEF Cleanup, CleanupCompletedIdempotencyRecords, TypeInv, TypeOK
  <2>2. answers' \in [Slots -> SUBSET (Fingerprints \X Reply)]
    BY <1>16 DEF Cleanup, TypeInv, TypeOK
  <2>. QED
    BY <1>16, <2>1, <2>2 DEF Cleanup, attemptVars, TypeInv, TypeOK, Placed
<1>17. ASSUME Tick PROVE TypeInv'
  <2>1. idempotencyRecords' \in [Slots -> Record] /\ payments' = payments
    BY <1>17, OlderTypes DEF Tick, StoreTick, TypeInv, TypeOK
  <2>2. \A n \in 0..PaymentCommandTimeout :
            Older(n, PaymentCommandTimeout) \in 0..PaymentCommandTimeout
    BY TimesAssumption, SMT DEF Older
  <2>3. age' \in [Attempts -> 0..PaymentCommandTimeout]
    BY <1>17, <2>2 DEF Tick, TypeInv, TypeOK
  <2>. QED
    BY <1>17, <2>1, <2>3 DEF Tick, TypeInv, TypeOK, Placed
<1>18. CASE UNCHANGED vars
  BY <1>18 DEF vars, TypeInv, TypeOK, Placed
<1>. QED
  BY <1>1, <1>2, <1>3, <1>4, <1>5, <1>6, <1>7, <1>8, <1>9, <1>10, <1>11, <1>12, <1>13,
     <1>14, <1>15, <1>16, <1>17, <1>18
     DEF Next, Attempt, Proceed, Respond, Crash

\* Every variable stays within its type in every behaviour of the service.
THEOREM TypeCorrect == Spec => []TypeOK
<1>1. TypeInv => TypeOK
  BY DEF TypeInv
<1>. QED
  BY <1>1, TypeInit, TypeStep, PTL DEF Spec

----------------------------------------------------------------------------
(* A claim has one live holder *)

\* A live holder's claim is in the table as the holder left it, and as old as
\* the holder: time alone makes it stuck, and only after the holder's deadline.
HolderHasClaim ==
    \A a \in Attempts :
        Holds(a) =>
            LET record == idempotencyRecords[Slot(request[a])] IN
            /\ record.status = "in_progress"
            /\ record.fingerprint = Fingerprint(request[a])
            /\ record.paymentID = paymentID[a]
            /\ record.claimedAge = age[a]

ClaimInv == HolderHasClaim /\ ExclusiveClaim

\* Attempt b is still the holder it was, of an untouched claim.
StillHolds(b) ==
    /\ Holds(b)
    /\ request'[b] = request[b] /\ paymentID'[b] = paymentID[b] /\ age'[b] = age[b]
    /\ idempotencyRecords'[Slot(request[b])] = idempotencyRecords[Slot(request[b])]

\* A step that leaves holders and their claims alone keeps the claim invariant.
LEMMA ClaimsKept ==
    ASSUME ClaimInv, \A b \in Attempts : Holds(b)' => StillHolds(b)
    PROVE  ClaimInv'
BY SMT DEF ClaimInv, HolderHasClaim, ExclusiveClaim, StillHolds

\* A step by which one attempt takes a claim nobody holds keeps the claim invariant.
LEMMA ClaimTaken ==
    ASSUME ClaimInv, NEW a \in Attempts,
           \A b \in Attempts \ {a} :
               Holds(b)' => StillHolds(b) /\ Slot(request[b]) # Slot(request[a]),
           request'[a] = request[a],
           LET record == idempotencyRecords'[Slot(request[a])] IN
               /\ record.status = "in_progress"
               /\ record.fingerprint = Fingerprint(request[a])
               /\ record.paymentID = paymentID'[a]
               /\ record.claimedAge = age'[a]
    PROVE  ClaimInv'
BY SMT DEF ClaimInv, HolderHasClaim, ExclusiveClaim, StillHolds

\* A live holder's claim is too young to be stuck for anyone.
LEMMA HolderNotStuck ==
    ASSUME TypeInv, ClaimInv, NEW a \in Attempts, NEW b \in Attempts, Holds(b),
           IsStuckClaim(request[a], age[a])
    PROVE  Slot(request[b]) # Slot(request[a])
<1>. SUFFICES ASSUME Slot(request[b]) = Slot(request[a]) PROVE FALSE
  OBVIOUS
<1>1. idempotencyRecords[Slot(request[b])].claimedAge = age[b]
  BY DEF ClaimInv, HolderHasClaim
<1>2. idempotencyRecords[Slot(request[b])].claimedAge >= age[a] + ClaimStuckAfter
  BY DEF IsStuckClaim
<1>3. age[b] < PaymentCommandTimeout
  BY DEF Holds, Live
<1>4. age[a] \in 0..PaymentCommandTimeout /\ age[b] \in 0..PaymentCommandTimeout
  BY AgeFits
<1>. QED
  BY <1>1, <1>2, <1>3, <1>4, TimesAssumption, SMT

\* A step of attempt a that writes one slot leaves the holders of other slots alone.
LEMMA OthersKept ==
    ASSUME TypeInv, NEW a \in Attempts, NEW s, NEW record, NEW step,
           pc' = [pc EXCEPT ![a] = step], UNCHANGED <<request, age>>,
           \A b \in Attempts \ {a} : paymentID'[b] = paymentID[b],
           idempotencyRecords' = [idempotencyRecords EXCEPT ![s] = record],
           \A b \in Attempts \ {a} : Holds(b) => Slot(request[b]) # s
    PROVE  \A b \in Attempts \ {a} :
               Holds(b)' => StillHolds(b) /\ Slot(request[b]) # s
<1>. SUFFICES ASSUME NEW b \in Attempts \ {a}, Holds(b)'
              PROVE  StillHolds(b) /\ Slot(request[b]) # s
  OBVIOUS
<1>1. pc'[b] = pc[b] /\ request'[b] = request[b] /\ age'[b] = age[b]
  BY DEF TypeInv, TypeOK
<1>2. Holds(b)
  BY <1>1 DEF Holds, Live
<1>3. Slot(request[b]) \in Slots
  BY <1>2, RequestFacts DEF Holds, TypeInv, Placed
<1>4. idempotencyRecords'[Slot(request[b])] = idempotencyRecords[Slot(request[b])]
  BY <1>2, <1>3 DEF TypeInv, TypeOK
<1>. QED
  BY <1>1, <1>2, <1>4 DEF StillHolds

\* A step that ends attempt a's command and writes at most its slot.
LEMMA ClaimLeft ==
    ASSUME TypeInv, ClaimInv, NEW a \in Attempts, NEW answer, NEW record,
           Return(a, answer), UNCHANGED <<request, age, paymentID>>,
           idempotencyRecords' = [idempotencyRecords EXCEPT ![Slot(request[a])] = record],
           \A b \in Attempts \ {a} : Holds(b) => Slot(request[b]) # Slot(request[a])
    PROVE  ClaimInv'
<1>1. pc' = [pc EXCEPT ![a] = "respond"]
  BY DEF Return, GoTo
<1>2. ~ Holds(a)'
  BY <1>1 DEF Holds, TypeInv, TypeOK
<1>3. \A b \in Attempts \ {a} : Holds(b)' => StillHolds(b)
  BY <1>1, OthersKept
<1>. QED
  BY <1>2, <1>3, ClaimsKept

\* Attempt a takes over or inserts the claim of a slot nobody holds.
LEMMA ClaimEntered ==
    ASSUME TypeInv, ClaimInv, NEW a \in Attempts, NEW id, NEW p, NEW record,
           CallBank(a, id, p), UNCHANGED <<request, age>>,
           idempotencyRecords' = [idempotencyRecords EXCEPT ![Slot(request[a])] = record],
           idempotencyRecords'[Slot(request[a])] = record,
           record.status = "in_progress", record.fingerprint = Fingerprint(request[a]),
           record.paymentID = id, record.claimedAge = age[a],
           \A b \in Attempts : Holds(b) => Slot(request[b]) # Slot(request[a])
    PROVE  ClaimInv'
<1>1. pc' = [pc EXCEPT ![a] = "bank"] /\ paymentID' = [paymentID EXCEPT ![a] = id]
  BY DEF CallBank, GoTo
<1>2. paymentID'[a] = id /\ \A b \in Attempts \ {a} : paymentID'[b] = paymentID[b]
  BY <1>1 DEF TypeInv, TypeOK
<1>3. \A b \in Attempts \ {a} :
          Holds(b)' => StillHolds(b) /\ Slot(request[b]) # Slot(request[a])
  BY <1>1, <1>2, OthersKept
<1>. QED
  BY <1>2, <1>3, ClaimTaken

\* As time passes a live holder and its claim age together.
LEMMA ClaimsAge ==
    ASSUME TypeInv, ClaimInv, Tick
    PROVE  ClaimInv'
<1>1. ASSUME NEW a \in Attempts, Holds(a)'
      PROVE  /\ Holds(a) /\ Slot(request[a]) \in Slots
             /\ LET record == idempotencyRecords'[Slot(request[a])] IN
                /\ record.status = "in_progress"
                /\ record.fingerprint = Fingerprint(request[a])
                /\ record.paymentID = paymentID[a]
                /\ record.claimedAge = age'[a]
  <2>. DEFINE record == idempotencyRecords[Slot(request[a])]
  <2>1. pc[a] \in {"bank", "complete", "release"} /\ age'[a] < PaymentCommandTimeout
    BY <1>1 DEF Tick, Holds, Live
  <2>2. age'[a] = Older(age[a], PaymentCommandTimeout)
    BY <2>1 DEF Tick
  <2>3. age[a] \in 0..PaymentCommandTimeout
    BY AgeFits
  <2>4. age[a] < PaymentCommandTimeout /\ age'[a] = age[a] + 1
    BY <2>1, <2>2, <2>3, TimesAssumption DEF Older
  <2>5. Holds(a)
    BY <2>1, <2>4 DEF Holds, Live
  <2>6. Slot(request[a]) \in Slots /\ record \in Record
    BY <2>1, RequestFacts DEF TypeInv, TypeOK, Placed
  <2>7. /\ record.status = "in_progress" /\ record.fingerprint = Fingerprint(request[a])
        /\ record.paymentID = paymentID[a] /\ record.claimedAge = age[a]
    BY <2>5 DEF ClaimInv, HolderHasClaim
  <2>8. Older(age[a], MaxClaimedAge) = age[a] + 1
    BY <2>3, <2>4, TimesAssumption, SMT DEF Older, MaxClaimedAge
  <2>9. idempotencyRecords'[Slot(request[a])] = [record EXCEPT !.claimedAge = age'[a]]
    BY <2>4, <2>6, <2>7, <2>8 DEF Tick, StoreTick, OlderRecord
  <2>10. \A n : LET older == [record EXCEPT !.claimedAge = n] IN
                 /\ older.status = record.status
                 /\ older.fingerprint = record.fingerprint
                 /\ older.paymentID = record.paymentID
                 /\ older.claimedAge = n
    BY <2>6 DEF Record
  <2>. QED
    BY <2>5, <2>6, <2>7, <2>9, <2>10, SMT
<1>2. UNCHANGED <<request, paymentID>>
  BY DEF Tick
<1>. QED
  BY <1>1, <1>2 DEF ClaimInv, HolderHasClaim, ExclusiveClaim

\* No attempt holds a claim before the first command.
LEMMA ClaimInit == Init => ClaimInv
BY DEF Init, ClaimInv, HolderHasClaim, ExclusiveClaim, Holds

\* Every step of the service keeps each live holder the one owner of its claim.
LEMMA ClaimStep == TypeInv /\ ClaimInv /\ [Next]_vars => ClaimInv'
<1>. SUFFICES ASSUME TypeInv, ClaimInv, [Next]_vars PROVE ClaimInv'
  OBVIOUS
<1>1. ASSUME NEW a \in Attempts, NEW r \in Requests, Begin(a, r) PROVE ClaimInv'
  BY <1>1, ClaimsKept DEF Holds, Live, StillHolds, Begin, GoTo, storeVars, TypeInv, TypeOK
<1>2. ASSUME NEW a \in Attempts, Recover(a) PROVE ClaimInv'
  <2>. DEFINE r == request[a]
              id == idempotencyRecords[Slot(r)].paymentID
              record == [idempotencyRecords[Slot(r)] EXCEPT !.claimedAge = age[a]]
  <2>1. /\ Slot(r) \in Slots
        /\ idempotencyRecords[Slot(r)] \in Record
    BY <1>2, RequestFacts DEF Recover, TypeInv, TypeOK, Placed
  <2>2. /\ idempotencyRecords' = [idempotencyRecords EXCEPT ![Slot(r)] = record]
        /\ UNCHANGED <<request, age>>
        /\ IsStuckClaim(r, age[a])
    BY <1>2 DEF Recover, RecoverClaim
  <2>3. \A b \in Attempts : Holds(b) => Slot(request[b]) # Slot(r)
    BY <2>2, HolderNotStuck
  <2>4. CASE CallBank(a, id, payments[id])
    <3>1. /\ record.status = "in_progress" /\ record.fingerprint = Fingerprint(r)
          /\ record.paymentID = id /\ record.claimedAge = age[a]
      BY <2>1, <2>2 DEF IsStuckClaim, Record
    <3>2. idempotencyRecords'[Slot(r)] = record
      BY <2>1, <2>2 DEF TypeInv, TypeOK
    <3>. HIDE DEF record
    <3>. QED
      BY <2>2, <2>3, <2>4, <3>1, <3>2, ClaimEntered
  <2>5. CASE CommitLost(a)
    <3>. HIDE DEF record
    <3>. QED
      BY <2>2, <2>3, <2>5, ClaimLeft DEF CommitLost
  <2>. QED
    BY <1>2, <2>4, <2>5 DEF Recover
<1>3. ASSUME NEW a \in Attempts, RejectRecovery(a) PROVE ClaimInv'
  BY <1>3, ClaimsKept
     DEF Holds, Live, StillHolds, RejectRecovery, Return, GoTo, storeVars, TypeInv, TypeOK
<1>4. ASSUME NEW a \in Attempts, NothingToRecover(a) PROVE ClaimInv'
  BY <1>4, ClaimsKept
     DEF Holds, Live, StillHolds, NothingToRecover, GoTo, storeVars, TypeInv, TypeOK
<1>5. ASSUME NEW a \in Attempts, NEW id \in PaymentIDs, StartAuthorization(a, id)
      PROVE ClaimInv'
  <2>. DEFINE r == request[a]
              record == InProgressRecord(r, id, age[a])
  <2>1. /\ Slot(r) \in Slots
        /\ idempotencyRecords[Slot(r)].status = "absent"
    BY <1>5, RequestFacts DEF StartAuthorization, TypeInv, Placed
  <2>2. /\ idempotencyRecords' = [idempotencyRecords EXCEPT ![Slot(r)] = record]
        /\ UNCHANGED <<request, age>>
    BY <1>5 DEF StartAuthorization, InsertAuthorization
  <2>3. \A b \in Attempts : Holds(b) => Slot(request[b]) # Slot(r)
    BY <2>1 DEF ClaimInv, HolderHasClaim
  <2>4. /\ record.status = "in_progress" /\ record.fingerprint = Fingerprint(r)
        /\ record.paymentID = id /\ record.claimedAge = age[a]
    BY DEF InProgressRecord, NoRecord
  <2>. HIDE DEF record
  <2>5. CASE CallBank(a, id, payments'[id])
    BY <2>1, <2>2, <2>3, <2>4, <2>5, ClaimEntered DEF TypeInv, TypeOK
  <2>6. CASE CommitLost(a)
    BY <2>2, <2>3, <2>6, ClaimLeft DEF CommitLost
  <2>. QED
    BY <1>5, <2>5, <2>6 DEF StartAuthorization
<1>6. ASSUME NEW a \in Attempts, ClaimPayment(a) PROVE ClaimInv'
  <2>. DEFINE r == request[a]
              record == InProgressRecord(r, r.paymentID, age[a])
  <2>1. /\ Slot(r) \in Slots
        /\ idempotencyRecords[Slot(r)].status = "absent"
    BY <1>6, RequestFacts DEF ClaimPayment, TypeInv, Placed
  <2>2. /\ idempotencyRecords' = [idempotencyRecords EXCEPT ![Slot(r)] = record]
        /\ UNCHANGED <<request, age>>
    BY <1>6 DEF ClaimPayment, InsertClaim
  <2>3. \A b \in Attempts : Holds(b) => Slot(request[b]) # Slot(r)
    BY <2>1 DEF ClaimInv, HolderHasClaim
  <2>4. /\ record.status = "in_progress" /\ record.fingerprint = Fingerprint(r)
        /\ record.paymentID = r.paymentID /\ record.claimedAge = age[a]
    BY DEF InProgressRecord, NoRecord
  <2>. HIDE DEF record
  <2>5. CASE CallBank(a, r.paymentID, payments'[r.paymentID])
    BY <2>1, <2>2, <2>3, <2>4, <2>5, ClaimEntered DEF TypeInv, TypeOK
  <2>6. CASE CommitLost(a)
    BY <2>2, <2>3, <2>6, ClaimLeft DEF CommitLost
  <2>. QED
    BY <1>6, <2>5, <2>6 DEF ClaimPayment
<1>7. ASSUME NEW a \in Attempts, RejectClaim(a) PROVE ClaimInv'
  BY <1>7, ClaimsKept
     DEF Holds, Live, StillHolds, RejectClaim, Return, GoTo, storeVars, TypeInv, TypeOK
<1>8. ASSUME NEW a \in Attempts, SlotTaken(a) PROVE ClaimInv'
  BY <1>8, ClaimsKept
     DEF Holds, Live, StillHolds, SlotTaken, GoTo, storeVars, TypeInv, TypeOK
<1>9. ASSUME NEW a \in Attempts, Select(a) PROVE ClaimInv'
  BY <1>9, ClaimsKept
     DEF Holds, Live, StillHolds, Select, Return, GoTo, storeVars, TypeInv, TypeOK
<1>10. ASSUME NEW a \in Attempts, BankAnswer(a) PROVE ClaimInv'
  <2>1. pc[a] = "bank" /\ UNCHANGED <<storeVars, request, age, paymentID>>
    BY <1>10 DEF BankAnswer
  <2>2. pc' = [pc EXCEPT ![a] = "complete"] \/ pc' = [pc EXCEPT ![a] = "release"]
    BY <1>10 DEF BankAnswer, AuthorizationAnswer, CaptureAnswer, VoidAnswer, RefundAnswer,
                 BankError, Completing, GoTo
  <2>. QED
    BY <2>1, <2>2, ClaimsKept DEF Holds, Live, StillHolds, storeVars, TypeInv, TypeOK
<1>11. ASSUME NEW a \in Attempts, Complete(a) \/ Release(a) PROVE ClaimInv'
  <2>. DEFINE r == request[a]
  <2>1. \A b \in Attempts \ {a} : Holds(b) => Slot(request[b]) # Slot(r)
    <3>1. Holds(a)
      BY <1>11 DEF Complete, Release, Holds
    <3>. QED
      BY <3>1 DEF ClaimInv, ExclusiveClaim
  <2>2. \E record : idempotencyRecords' = [idempotencyRecords EXCEPT ![Slot(r)] = record]
    BY <1>11 DEF Complete, Release, CompletePaymentCommand, ReleasePaymentCommand
  <2>3. \E answer : Return(a, answer) /\ UNCHANGED <<request, age, paymentID>>
    BY <1>11 DEF Complete, Release
  <2>. QED
    BY <2>1, <2>2, <2>3, ClaimLeft
<1>12. ASSUME NEW a \in Attempts, RejectComplete(a) PROVE ClaimInv'
  BY <1>12, ClaimsKept
     DEF Holds, Live, StillHolds, RejectComplete, Return, GoTo, storeVars, TypeInv, TypeOK
<1>13. ASSUME NEW a \in Attempts, DatabaseError(a) PROVE ClaimInv'
  BY <1>13, ClaimsKept
     DEF Holds, Live, StillHolds, DatabaseError, Return, GoTo, storeVars, TypeInv, TypeOK
<1>14. ASSUME NEW a \in Attempts, Forget(a) PROVE ClaimInv'
  BY <1>14, ClaimsKept
     DEF Holds, Live, StillHolds, Forget, GoTo, storeVars, TypeInv, TypeOK
<1>15. ASSUME Cleanup PROVE ClaimInv'
  <2>1. \A b \in Attempts : Holds(b) => Slot(request[b]) \in Slots
    BY RequestFacts DEF Holds, TypeInv, Placed
  <2>2. \A b \in Attempts : Holds(b) => ~ IsExpiredReplay(idempotencyRecords[Slot(request[b])])
    BY DEF IsExpiredReplay, ClaimInv, HolderHasClaim
  <2>. QED
    BY <1>15, <2>1, <2>2, ClaimsKept
       DEF Holds, Live, StillHolds, Cleanup, CleanupCompletedIdempotencyRecords, attemptVars
<1>16. ASSUME Tick PROVE ClaimInv'
  BY <1>16, ClaimsAge
<1>17. CASE UNCHANGED vars
  BY <1>17, ClaimsKept DEF Holds, Live, StillHolds, vars
<1>. QED
  BY <1>1, <1>2, <1>3, <1>4, <1>5, <1>6, <1>7, <1>8, <1>9, <1>10, <1>11, <1>12, <1>13,
     <1>14, <1>15, <1>16, <1>17
     DEF Next, Attempt, Proceed, Respond, Crash

\* However retries, recoveries, crashes, missed deadlines and ambiguous commits
\* interleave, a claim has at most one holder whose context is still live.
THEOREM ClaimExclusive == Spec => []ExclusiveClaim
<1>1. ClaimInv => ExclusiveClaim
  BY DEF ClaimInv
<1>. QED
  BY <1>1, TypeInit, TypeStep, ClaimInit, ClaimStep, PTL DEF Spec

----------------------------------------------------------------------------
(* A replay equals the original answer *)

\* Slot s still stores the outcome it stored, or has none to keep.
OutcomeKept(s) ==
    idempotencyRecords[s].status = "completed" =>
        /\ idempotencyRecords'[s].status = "completed"
        /\ idempotencyRecords'[s].fingerprint = idempotencyRecords[s].fingerprint
        /\ idempotencyRecords'[s].result = idempotencyRecords[s].result
        /\ idempotencyRecords'[s].failureKind = idempotencyRecords[s].failureKind

\* A step that leaves answered slots and the answers alone keeps replays consistent.
LEMMA ReplayKept ==
    ASSUME ReplayConsistent,
           \A s \in Slots : answers'[s] = {} \/ (answers'[s] = answers[s] /\ OutcomeKept(s))
    PROVE  ReplayConsistent'
BY DEF ReplayConsistent, OutcomeKept

\* A write to a slot that holds no outcome keeps every outcome.
LEMMA OpenSlotWritten ==
    ASSUME TypeInv, NEW r \in Requests, NEW record,
           idempotencyRecords[Slot(r)].status # "completed",
           idempotencyRecords' = [idempotencyRecords EXCEPT ![Slot(r)] = record]
    PROVE  \A s \in Slots : OutcomeKept(s)
BY DEF OutcomeKept, TypeInv, TypeOK

\* Nobody has been answered before the first command.
LEMMA ReplayInit == Init => ReplayConsistent
BY DEF Init, ReplayConsistent

\* Every step of the service keeps the outcomes given equal to the stored ones.
LEMMA ReplayStep == TypeInv /\ ReplayConsistent /\ [Next]_vars => ReplayConsistent'
<1>. SUFFICES ASSUME TypeInv, ReplayConsistent, [Next]_vars PROVE ReplayConsistent'
  OBVIOUS
<1>1. CASE UNCHANGED <<idempotencyRecords, answers>>
  BY <1>1 DEF ReplayConsistent
<1>2. ASSUME NEW a \in Attempts, Recover(a) PROVE ReplayConsistent'
  <2>1. request[a] \in Requests /\ UNCHANGED answers
    BY <1>2 DEF Recover, TypeInv, Placed
  <2>2. /\ idempotencyRecords[Slot(request[a])].status # "completed"
        /\ \E record : idempotencyRecords' =
                           [idempotencyRecords EXCEPT ![Slot(request[a])] = record]
    BY <1>2 DEF Recover, RecoverClaim, IsStuckClaim
  <2>. QED
    BY <2>1, <2>2, OpenSlotWritten, ReplayKept
<1>3. ASSUME NEW a \in Attempts, NEW id \in PaymentIDs, StartAuthorization(a, id)
      PROVE ReplayConsistent'
  <2>1. request[a] \in Requests /\ UNCHANGED answers
    BY <1>3 DEF StartAuthorization, TypeInv, Placed
  <2>2. /\ idempotencyRecords[Slot(request[a])].status # "completed"
        /\ \E record : idempotencyRecords' =
                           [idempotencyRecords EXCEPT ![Slot(request[a])] = record]
    BY <1>3 DEF StartAuthorization, InsertAuthorization
  <2>. QED
    BY <2>1, <2>2, OpenSlotWritten, ReplayKept
<1>4. ASSUME NEW a \in Attempts, ClaimPayment(a) PROVE ReplayConsistent'
  <2>1. request[a] \in Requests /\ UNCHANGED answers
    BY <1>4 DEF ClaimPayment, TypeInv, Placed
  <2>2. /\ idempotencyRecords[Slot(request[a])].status # "completed"
        /\ \E record : idempotencyRecords' =
                           [idempotencyRecords EXCEPT ![Slot(request[a])] = record]
    BY <1>4 DEF ClaimPayment, InsertClaim
  <2>. QED
    BY <2>1, <2>2, OpenSlotWritten, ReplayKept
<1>5. ASSUME NEW a \in Attempts, Select(a) PROVE ReplayConsistent'
  <2>. DEFINE r == request[a]
              record == idempotencyRecords[Slot(r)]
              answer == SelectReply(r, record)
  <2>1. r \in Requests /\ Slot(r) \in Slots /\ UNCHANGED idempotencyRecords
    BY <1>5, RequestFacts DEF Select, TypeInv, Placed, storeVars
  <2>2. CASE answers' = answers
    BY <1>1, <2>1, <2>2
  <2>3. CASE /\ IsOutcome(answer)
             /\ answers' = [answers EXCEPT ![Slot(r)] = @ \cup {<<Fingerprint(r), answer>>}]
    <3>1. /\ record.status \notin {"absent", "in_progress"}
          /\ record.fingerprint = Fingerprint(r)
          /\ answer = replayPaymentCommand(record.result, record.failureKind)
      BY <2>3 DEF SelectReply, IsOutcome, ErrorReply
    <3>2. record.status = "completed"
      BY <2>1, <3>1 DEF TypeInv, TypeOK, Record
    <3>3. \A s \in Slots \ {Slot(r)} : answers'[s] = answers[s]
      BY <2>3 DEF TypeInv, TypeOK
    <3>4. answers'[Slot(r)] = answers[Slot(r)] \cup {<<Fingerprint(r), answer>>}
      BY <2>1, <2>3 DEF TypeInv, TypeOK
    <3>. HIDE DEF answer
    <3>. QED
      BY <2>1, <3>1, <3>2, <3>3, <3>4 DEF ReplayConsistent
  <2>. QED
    BY <1>5, <2>2, <2>3 DEF Select
<1>6. ASSUME NEW a \in Attempts, Complete(a) PROVE ReplayConsistent'
  <2>. DEFINE r == request[a]
              result == newPaymentResult(paymentID[a], payment[a])
              kind == FailureKind(payment[a])
              record == [idempotencyRecords[Slot(r)] EXCEPT
                            !.status = "completed", !.failureKind = kind, !.result = result]
  <2>1. /\ r \in Requests /\ Slot(r) \in Slots
        /\ idempotencyRecords[Slot(r)] \in Record
    BY <1>6, RequestFacts DEF Complete, TypeInv, TypeOK, Placed
  <2>2. /\ idempotencyRecords[Slot(r)].status = "in_progress"
        /\ idempotencyRecords[Slot(r)].fingerprint = Fingerprint(r)
    BY <1>6 DEF Complete, CompleteError
  <2>3. idempotencyRecords' = [idempotencyRecords EXCEPT ![Slot(r)] = record]
    BY <1>6 DEF Complete, CompletePaymentCommand
  <2>4. /\ record.status = "completed" /\ record.fingerprint = Fingerprint(r)
        /\ record.result = result /\ record.failureKind = kind
    BY <2>1, <2>2 DEF Record
  <2>5. answers[Slot(r)] = {}
    BY <2>1, <2>2 DEF ReplayConsistent
  <2>. HIDE DEF record, result, kind
  <2>6. CASE UNCHANGED answers
    BY <2>1, <2>2, <2>3, <2>6, OpenSlotWritten, ReplayKept
  <2>7. CASE answers' = [answers EXCEPT ![Slot(r)] =
                            @ \cup {<<Fingerprint(r), replayPaymentCommand(result, kind)>>}]
    <3>1. \A s \in Slots \ {Slot(r)} :
              answers'[s] = answers[s] /\ idempotencyRecords'[s] = idempotencyRecords[s]
      BY <2>3, <2>7 DEF TypeInv, TypeOK
    <3>2. /\ answers'[Slot(r)] = {<<Fingerprint(r), replayPaymentCommand(result, kind)>>}
          /\ idempotencyRecords'[Slot(r)] = record
      BY <2>1, <2>3, <2>5, <2>7 DEF TypeInv, TypeOK
    <3>. SUFFICES ASSUME NEW s \in Slots, NEW x \in answers'[s]
                  PROVE  /\ idempotencyRecords'[s].status = "completed"
                         /\ x = <<idempotencyRecords'[s].fingerprint,
                                  replayPaymentCommand(idempotencyRecords'[s].result,
                                                       idempotencyRecords'[s].failureKind)>>
      BY DEF ReplayConsistent
    <3>3. CASE s = Slot(r)
      BY <2>4, <3>2, <3>3
    <3>4. CASE s # Slot(r)
      BY <3>1, <3>4 DEF ReplayConsistent
    <3>. QED
      BY <3>3, <3>4
  <2>. QED
    BY <1>6, <2>6, <2>7 DEF Complete, result, kind
<1>7. ASSUME NEW a \in Attempts, Release(a) PROVE ReplayConsistent'
  <2>1. UNCHANGED answers /\ \A s \in Slots : OutcomeKept(s)
    BY <1>7 DEF Release, ReleasePaymentCommand, OutcomeKept, TypeInv, TypeOK
  <2>. QED
    BY <2>1, ReplayKept
<1>8. ASSUME Cleanup PROVE ReplayConsistent'
  <2>1. ASSUME NEW s \in Slots
        PROVE  answers'[s] = {} \/ (answers'[s] = answers[s] /\ OutcomeKept(s))
    BY <1>8 DEF Cleanup, CleanupCompletedIdempotencyRecords, IsExpiredReplay, OutcomeKept
  <2>. QED
    BY <2>1, ReplayKept
<1>9. ASSUME Tick PROVE ReplayConsistent'
  <2>1. ASSUME NEW s \in Slots PROVE OutcomeKept(s)
    <3>1. idempotencyRecords[s] \in Record /\ idempotencyRecords'[s] = OlderRecord(idempotencyRecords[s])
      BY <1>9 DEF Tick, StoreTick, TypeInv, TypeOK
    <3>. QED
      BY <3>1 DEF OutcomeKept, OlderRecord, Record
  <2>. QED
    BY <1>9, <2>1, ReplayKept DEF Tick
<1>10. ASSUME NEW a \in Attempts,
              \/ \E r \in Requests : Begin(a, r)
              \/ RejectRecovery(a) \/ NothingToRecover(a) \/ RejectClaim(a) \/ SlotTaken(a)
              \/ BankAnswer(a) \/ RejectComplete(a) \/ DatabaseError(a) \/ Forget(a)
       PROVE  UNCHANGED <<idempotencyRecords, answers>>
  BY <1>10 DEF Begin, RejectRecovery, NothingToRecover, RejectClaim, SlotTaken, BankAnswer,
               RejectComplete, DatabaseError, Forget, storeVars
<1>11. CASE UNCHANGED vars
  BY <1>1, <1>11 DEF vars
<1>. QED
  BY <1>1, <1>2, <1>3, <1>4, <1>5, <1>6, <1>7, <1>8, <1>9, <1>10, <1>11
     DEF Next, Attempt, Proceed, Respond, Crash

\* Every caller given an outcome under an operation and key, by the attempt
\* that completed it or by a replay, was given the stored one for the stored
\* request, until the replay window ends.
THEOREM ReplaysConsistent == Spec => []ReplayConsistent
BY TypeInit, TypeStep, ReplayInit, ReplayStep, PTL DEF Spec

----------------------------------------------------------------------------
(* One bank operation key per operation of a payment *)

\* What the row p of a payment says about the keys c its bank calls used: while
\* the row admits an operation, every call of it used the key in the row.
RowKeys(p, c) ==
    /\ \A b \in BankOperations : 0 \notin c[b]
    /\ p.status = "absent" => c["authorize"] = {}
    /\ p.status # "absent" => p.authorizationKey # 0 /\ c["authorize"] \subseteq {p.authorizationKey}
    /\ p.status \in {"absent", "pending"} => c["capture"] = {} /\ c["void"] = {}
    /\ p.status \in {"absent", "pending", "authorized"} => c["refund"] = {}
    /\ p.status = "authorized" => c["capture"] \subseteq {p.captureKey}
    /\ p.status = "authorized" => c["void"] \subseteq {p.voidKey}
    /\ p.status = "captured" => c["refund"] \subseteq {p.refundKey}

\* The statuses a command's completion may write.
Outcomes(operation) ==
    CASE operation = "capture_payment" -> {"captured", "expired"}
      [] operation = "void_payment" -> {"voided", "expired"}
      [] operation = "refund_payment" -> {"refunded"}
      [] OTHER -> {"pending", "authorized", "declined"}

\* The copy an attempt works on has the row's authorization key, and the
\* status its operation leads to once the bank has answered.
CopyKeys(a) ==
    /\ pc[a] \in {"bank", "complete"} =>
          /\ payments[paymentID[a]].status # "absent"
          /\ payment[a].authorizationKey = payments[paymentID[a]].authorizationKey
    /\ pc[a] = "complete" => payment[a].status \in Outcomes(request[a].operation)

KeyInv ==
    /\ \A id \in PaymentIDs : RowKeys(payments[id], called[id])
    /\ \A a \in Attempts : CopyKeys(a)
    /\ OneKeyPerBankOperation

----------------------------------------------------------------------------

\* Before any command, no key is stored, copied or used.
LEMMA KeyInit == Init => KeyInv
<1>. SUFFICES ASSUME Init PROVE KeyInv
  OBVIOUS
<1>1. \A id \in PaymentIDs : RowKeys(payments[id], called[id])
  BY DEF Init, StoreInit, RowKeys, NoPayment, BankOperations
<1>2. \A a \in Attempts : CopyKeys(a)
  BY DEF Init, CopyKeys
<1>3. OneKeyPerBankOperation
  BY DEF Init, OneKeyPerBankOperation
<1>. QED
  BY <1>1, <1>2, <1>3 DEF KeyInv

\* A bank call with the key of a row that admits the operation.
LEMMA CallKeepsRowKeys ==
    ASSUME NEW p \in Payment, NEW c \in [BankOperations -> SUBSET Nat],
           NEW operation \in Operations, RowKeys(p, c),
           p.status = ExpectedStatus(operation), BankOperationKey(operation, p) # 0
    PROVE  LET b == BankOperation(operation)
               k == BankOperationKey(operation, p)
           IN  /\ c[b] \subseteq {k}
               /\ RowKeys(p, [c EXCEPT ![b] = @ \cup {k}])
<1>1. CASE operation \in {"authorize_payment", "retry_authorization"}
  BY <1>1 DEF RowKeys, BankOperation, BankOperationKey, ExpectedStatus, BankOperations
<1>2. CASE operation = "capture_payment"
  BY <1>2 DEF RowKeys, BankOperation, BankOperationKey, ExpectedStatus, BankOperations
<1>3. CASE operation = "void_payment"
  BY <1>3 DEF RowKeys, BankOperation, BankOperationKey, ExpectedStatus, BankOperations
<1>4. CASE operation = "refund_payment"
  BY <1>4 DEF RowKeys, BankOperation, BankOperationKey, ExpectedStatus, BankOperations
<1>. QED
  BY <1>1, <1>2, <1>3, <1>4 DEF Operations

\* Storing a first bank operation key in a row that admits the operation.
LEMMA EnsureKeepsRowKeys ==
    ASSUME NEW p \in Payment, NEW c \in [BankOperations -> SUBSET Nat],
           NEW operation \in Operations, NEW key \in Nat \ {0}, RowKeys(p, c),
           p.status = ExpectedStatus(operation)
    PROVE  LET q == ensureBankOperationKey(operation, p, key)
           IN  /\ RowKeys(q, c)
               /\ q.status = p.status /\ q.authorizationKey = p.authorizationKey
               /\ BankOperationKey(operation, q) # 0
<1>1. CASE operation \in {"authorize_payment", "retry_authorization"}
  BY <1>1 DEF ensureBankOperationKey, RowKeys, BankOperationKey, ExpectedStatus
<1>2. CASE operation = "capture_payment"
  <2>. DEFINE q == ensureBankOperationKey(operation, p, key)
  <2>1. p.status = "authorized" /\ BankOperationKey(operation, p) = p.captureKey
    BY <1>2 DEF ExpectedStatus, BankOperationKey
  <2>2. CASE p.captureKey # 0
    BY <1>2, <2>1, <2>2 DEF ensureBankOperationKey
  <2>3. CASE p.captureKey = 0
    <3>1. c["capture"] = {}
      BY <2>1, <2>3 DEF RowKeys, BankOperations
    <3>2. q = [p EXCEPT !.captureKey = key]
      BY <1>2, <2>1, <2>3 DEF ensureBankOperationKey, SetCaptureBankOperationKey
    <3>3. /\ q.status = p.status /\ q.authorizationKey = p.authorizationKey
          /\ q.captureKey = key /\ q.voidKey = p.voidKey /\ q.refundKey = p.refundKey
      BY <3>2 DEF Payment
    <3>4. BankOperationKey(operation, q) = key /\ key # 0
      BY <1>2, <3>3 DEF BankOperationKey
    <3>5. RowKeys(q, c)
      BY <2>1, <3>1, <3>3 DEF RowKeys
    <3>. QED
      BY <3>3, <3>4, <3>5
  <2>. QED
    BY <2>2, <2>3
<1>3. CASE operation = "void_payment"
  <2>. DEFINE q == ensureBankOperationKey(operation, p, key)
  <2>1. p.status = "authorized" /\ BankOperationKey(operation, p) = p.voidKey
    BY <1>3 DEF ExpectedStatus, BankOperationKey
  <2>2. CASE p.voidKey # 0
    BY <1>3, <2>1, <2>2 DEF ensureBankOperationKey
  <2>3. CASE p.voidKey = 0
    <3>1. c["void"] = {}
      BY <2>1, <2>3 DEF RowKeys, BankOperations
    <3>2. q = [p EXCEPT !.voidKey = key]
      BY <1>3, <2>1, <2>3 DEF ensureBankOperationKey, SetVoidBankOperationKey
    <3>3. /\ q.status = p.status /\ q.authorizationKey = p.authorizationKey
          /\ q.voidKey = key /\ q.captureKey = p.captureKey /\ q.refundKey = p.refundKey
      BY <3>2 DEF Payment
    <3>4. BankOperationKey(operation, q) = key /\ key # 0
      BY <1>3, <3>3 DEF BankOperationKey
    <3>5. RowKeys(q, c)
      BY <2>1, <3>1, <3>3 DEF RowKeys
    <3>. QED
      BY <3>3, <3>4, <3>5
  <2>. QED
    BY <2>2, <2>3
<1>4. CASE operation = "refund_payment"
  <2>. DEFINE q == ensureBankOperationKey(operation, p, key)
  <2>1. p.status = "captured" /\ BankOperationKey(operation, p) = p.refundKey
    BY <1>4 DEF ExpectedStatus, BankOperationKey
  <2>2. CASE p.refundKey # 0
    BY <1>4, <2>1, <2>2 DEF ensureBankOperationKey
  <2>3. CASE p.refundKey = 0
    <3>1. c["refund"] = {}
      BY <2>1, <2>3 DEF RowKeys, BankOperations
    <3>2. q = [p EXCEPT !.refundKey = key]
      BY <1>4, <2>1, <2>3 DEF ensureBankOperationKey, SetRefundBankOperationKey
    <3>3. /\ q.status = p.status /\ q.authorizationKey = p.authorizationKey
          /\ q.refundKey = key /\ q.captureKey = p.captureKey /\ q.voidKey = p.voidKey
      BY <3>2 DEF Payment
    <3>4. BankOperationKey(operation, q) = key /\ key # 0
      BY <1>4, <3>3 DEF BankOperationKey
    <3>5. RowKeys(q, c)
      BY <2>1, <3>1, <3>3 DEF RowKeys
    <3>. QED
      BY <3>3, <3>4, <3>5
  <2>. QED
    BY <2>2, <2>3
<1>. QED
  BY <1>1, <1>2, <1>3, <1>4 DEF Operations

\* Completing a command writes a copy with one of the operation's outcomes.
LEMMA CompleteKeepsRowKeys ==
    ASSUME NEW p \in Payment, NEW q \in Payment, NEW c \in [BankOperations -> SUBSET Nat],
           NEW operation \in Operations, RowKeys(p, c),
           p.status = ExpectedStatus(operation), q.status \in Outcomes(operation),
           q.authorizationKey = p.authorizationKey
    PROVE  RowKeys(q, c) /\ q.status # "absent"
<1>1. CASE operation \in {"authorize_payment", "retry_authorization"}
  BY <1>1 DEF RowKeys, ExpectedStatus, Outcomes
<1>2. CASE operation \in {"capture_payment", "void_payment"}
  BY <1>2 DEF RowKeys, ExpectedStatus, Outcomes
<1>3. CASE operation = "refund_payment"
  BY <1>3 DEF RowKeys, ExpectedStatus, Outcomes
<1>. QED
  BY <1>1, <1>2, <1>3 DEF Operations

\* Attempt a calls the bank after its transaction left p in the row.
LEMMA KeyCalled ==
    ASSUME TypeInv, KeyInv, NEW a \in Attempts, request[a] \in Requests,
           NEW id \in PaymentIDs, NEW p \in Payment,
           CallBank(a, id, p), UNCHANGED request,
           payments' = [payments EXCEPT ![id] = p], RowKeys(p, called[id]),
           p.status = ExpectedStatus(request[a].operation),
           BankOperationKey(request[a].operation, p) # 0,
           payments[id].status # "absent" => p.authorizationKey = payments[id].authorizationKey
    PROVE  KeyInv'
<1>. DEFINE operation == request[a].operation
            b == BankOperation(operation)
            k == BankOperationKey(operation, p)
            c == called[id]
<1>1. operation \in Operations /\ b \in BankOperations /\ c \in [BankOperations -> SUBSET Nat]
  BY RequestFacts DEF BankOperation, BankOperations, TypeInv, TypeOK
<1>2. c[b] \subseteq {k} /\ RowKeys(p, [c EXCEPT ![b] = @ \cup {k}])
  BY <1>1, CallKeepsRowKeys
<1>3. called' = [called EXCEPT ![id] = [c EXCEPT ![b] = @ \cup {k}]]
  BY DEF CallBank
<1>4. called'[id] = [c EXCEPT ![b] = @ \cup {k}] /\ payments'[id] = p
  BY <1>3 DEF TypeInv, TypeOK
<1>5. \A i \in PaymentIDs \ {id} : called'[i] = called[i] /\ payments'[i] = payments[i]
  BY <1>3 DEF TypeInv, TypeOK
<1>6. \A i \in PaymentIDs : RowKeys(payments'[i], called'[i])
  BY <1>2, <1>4, <1>5 DEF KeyInv
<1>7. OneKeyPerBankOperation'
  <2>. SUFFICES ASSUME NEW i \in PaymentIDs, NEW d \in BankOperations,
                       NEW m \in called'[i][d], NEW n \in called'[i][d]
                PROVE  m = n
    BY DEF OneKeyPerBankOperation
  <2>1. CASE i = id /\ d = b
    BY <1>1, <1>2, <1>4, <2>1, SMT
  <2>2. CASE i # id \/ d # b
    <3>1. called'[i][d] = called[i][d]
      BY <1>1, <1>4, <1>5, <2>2
    <3>. QED
      BY <3>1 DEF KeyInv, OneKeyPerBankOperation
  <2>. QED
    BY <2>1, <2>2
<1>8. \A i \in Attempts : CopyKeys(i)'
  <2>1. p.status # "absent"
    BY <1>1 DEF ExpectedStatus
  <2>2. /\ pc'[a] = "bank" /\ paymentID'[a] = id /\ payment'[a] = p
        /\ \A i \in Attempts \ {a} : /\ pc'[i] = pc[i] /\ paymentID'[i] = paymentID[i]
                                     /\ payment'[i] = payment[i] /\ request'[i] = request[i]
    BY DEF CallBank, GoTo, TypeInv, TypeOK
  <2>3. CopyKeys(a)'
    BY <1>4, <2>1, <2>2 DEF CopyKeys
  <2>4. ASSUME NEW i \in Attempts \ {a} PROVE CopyKeys(i)'
    <3>1. CopyKeys(i) /\ (pc[i] \in {"bank", "complete"} => paymentID[i] \in PaymentIDs)
      BY DEF KeyInv, TypeInv, Placed
    <3>. QED
      BY <1>4, <1>5, <2>1, <2>2, <3>1, SMT DEF CopyKeys
  <2>. QED
    BY <2>3, <2>4
<1>. QED
  BY <1>6, <1>7, <1>8 DEF KeyInv

\* Attempt a returns after its transaction left p in the row.
LEMMA KeyWritten ==
    ASSUME TypeInv, KeyInv, NEW a \in Attempts, NEW id \in PaymentIDs, NEW p \in Payment,
           NEW answer, Return(a, answer), UNCHANGED <<request, paymentID, called>>,
           payments' = [payments EXCEPT ![id] = p], RowKeys(p, called[id]),
           p.status # "absent",
           payments[id].status # "absent" => p.authorizationKey = payments[id].authorizationKey
    PROVE  KeyInv'
<1>1. payments'[id] = p /\ \A i \in PaymentIDs \ {id} : payments'[i] = payments[i]
  BY DEF TypeInv, TypeOK
<1>2. \A i \in PaymentIDs : RowKeys(payments'[i], called'[i])
  BY <1>1 DEF KeyInv
<1>3. OneKeyPerBankOperation'
  BY DEF KeyInv, OneKeyPerBankOperation
<1>4. ASSUME NEW i \in Attempts PROVE CopyKeys(i)'
  <2>1. pc' = [pc EXCEPT ![a] = "respond"] /\ payment' = [payment EXCEPT ![a] = NoPayment]
    BY DEF Return, GoTo
  <2>2. CopyKeys(i) /\ (pc[i] \in {"bank", "complete"} => paymentID[i] \in PaymentIDs)
    BY DEF KeyInv, TypeInv, Placed
  <2>. QED
    BY <1>1, <2>1, <2>2 DEF CopyKeys, TypeInv, TypeOK
<1>. QED
  BY <1>2, <1>3, <1>4 DEF KeyInv

\* A step that writes no payment and calls no bank.
LEMMA KeyKept ==
    ASSUME KeyInv, UNCHANGED <<payments, called>>, \A a \in Attempts : CopyKeys(a)'
    PROVE  KeyInv'
BY DEF KeyInv, OneKeyPerBankOperation

\* Every step of the service keeps the rows, the copies and the calls on one key.
LEMMA KeyStep == TypeInv /\ KeyInv /\ [Next]_vars => KeyInv'
<1>. SUFFICES ASSUME TypeInv, KeyInv, [Next]_vars PROVE KeyInv'
  OBVIOUS
<1>1. ASSUME NEW a \in Attempts, Recover(a) PROVE KeyInv'
  <2>. DEFINE r == request[a]
              record == idempotencyRecords[Slot(r)]
              id == record.paymentID
              p == payments[id]
  <2>1. r \in Requests /\ r.operation \in Operations /\ record \in Record
    BY <1>1, RequestFacts DEF Recover, TypeInv, TypeOK, Placed
  <2>2. id \in PaymentIDs /\ RecoveryError(r, record) = ""
    BY <1>1, <2>1, ErrorTypes DEF Recover
  <2>3. p \in Payment /\ RowKeys(p, called[id])
    BY <2>2 DEF KeyInv, TypeInv, TypeOK
  <2>4. p.status # "absent" /\ p.status = ExpectedStatus(r.operation)
    BY <2>2 DEF RecoveryError
  <2>5. BankOperationKey(r.operation, p) # 0
    BY <2>1, <2>2, <2>3, <2>4 DEF RecoveryError, RowKeys, BankOperationKey, Operations
  <2>6. payments' = [payments EXCEPT ![id] = p] /\ UNCHANGED request
    BY <1>1 DEF Recover, RecoverClaim, TypeInv, TypeOK
  <2>. HIDE DEF record
  <2>7. CASE CallBank(a, id, p)
    BY <2>1, <2>2, <2>3, <2>4, <2>5, <2>6, <2>7, KeyCalled
  <2>8. CASE CommitLost(a)
    BY <2>2, <2>3, <2>4, <2>6, <2>8, KeyWritten DEF CommitLost
  <2>. QED
    BY <1>1, <2>7, <2>8 DEF Recover, record
<1>2. ASSUME NEW a \in Attempts, NEW id \in PaymentIDs, StartAuthorization(a, id)
      PROVE KeyInv'
  <2>. DEFINE r == request[a]
              p == NewPendingPayment(nextBankOperationKey, r.card)
  <2>1. r \in Requests /\ r.operation = "authorize_payment"
    BY <1>2 DEF StartAuthorization, TypeInv, Placed
  <2>2. payments' = [payments EXCEPT ![id] = p] /\ UNCHANGED request
    BY <1>2 DEF StartAuthorization, InsertAuthorization
  <2>3. payments'[id] = p
    BY <2>2 DEF TypeInv, TypeOK
  <2>4. nextBankOperationKey # 0 /\ nextBankOperationKey \in Nat
    BY DEF TypeInv, TypeOK
  <2>5. p \in Payment /\ p.status = "pending" /\ p.authorizationKey = nextBankOperationKey
    BY <2>1, <2>4, RequestFacts
       DEF NewPendingPayment, NoPayment, Payment, Key, BankID, PaymentStatus
  <2>6. payments[id].status = "absent" /\ RowKeys(payments[id], called[id])
    BY <1>2 DEF StartAuthorization, KeyInv
  <2>. HIDE DEF p
  <2>7. RowKeys(p, called[id])
    BY <2>4, <2>5, <2>6 DEF RowKeys
  <2>8. CASE CallBank(a, id, payments'[id])
    BY <2>1, <2>2, <2>3, <2>4, <2>5, <2>6, <2>7, <2>8, KeyCalled
       DEF ExpectedStatus, BankOperationKey
  <2>9. CASE CommitLost(a)
    BY <2>2, <2>5, <2>6, <2>7, <2>9, KeyWritten DEF CommitLost
  <2>. QED
    BY <1>2, <2>8, <2>9 DEF StartAuthorization
<1>3. ASSUME NEW a \in Attempts, ClaimPayment(a) PROVE KeyInv'
  <2>. DEFINE r == request[a]
              id == r.paymentID
              p == ensureBankOperationKey(r.operation, payments[id], nextBankOperationKey)
  <2>1. r \in Requests /\ r.operation \in Operations /\ id \in PaymentIDs
    BY <1>3, RequestFacts DEF ClaimPayment, TypeInv, Placed
  <2>2. payments' = [payments EXCEPT ![id] = p] /\ UNCHANGED request
    BY <1>3 DEF ClaimPayment, InsertClaim
  <2>3. payments'[id] = p
    BY <2>1, <2>2 DEF TypeInv, TypeOK
  <2>4. /\ payments[id] \in Payment /\ RowKeys(payments[id], called[id])
        /\ called[id] \in [BankOperations -> SUBSET Nat]
        /\ nextBankOperationKey \in Nat \ {0}
    BY <2>1 DEF KeyInv, TypeInv, TypeOK
  <2>5. payments[id].status # "absent" /\ payments[id].status = ExpectedStatus(r.operation)
    BY <1>3 DEF ClaimPayment, AcquireError
  <2>6. p \in Payment
    BY <2>1, <2>4, EnsureKeyTypes
  <2>7. /\ RowKeys(p, called[id]) /\ p.status = payments[id].status
        /\ p.authorizationKey = payments[id].authorizationKey
        /\ BankOperationKey(r.operation, p) # 0
    BY <2>1, <2>4, <2>5, EnsureKeepsRowKeys, SMT
  <2>. HIDE DEF p
  <2>8. CASE CallBank(a, id, payments'[id])
    BY <2>1, <2>2, <2>3, <2>5, <2>6, <2>7, <2>8, KeyCalled
  <2>9. CASE CommitLost(a)
    BY <2>1, <2>2, <2>5, <2>6, <2>7, <2>9, KeyWritten DEF CommitLost
  <2>. QED
    BY <1>3, <2>8, <2>9 DEF ClaimPayment
<1>4. ASSUME NEW a \in Attempts, BankAnswer(a) PROVE KeyInv'
  <2>1. pc[a] = "bank" /\ UNCHANGED <<payments, request, paymentID, called>>
    BY <1>4 DEF BankAnswer, storeVars
  <2>2. CopyKeys(a) /\ payment[a] \in Payment /\ request[a] \in Requests
    BY <2>1 DEF KeyInv, TypeInv, TypeOK, Placed
  <2>3. ASSUME NEW p, Completing(a, p), p.authorizationKey = payment[a].authorizationKey,
               p.status \in Outcomes(request[a].operation)
        PROVE  KeyInv'
    <3>1. pc' = [pc EXCEPT ![a] = "complete"] /\ payment' = [payment EXCEPT ![a] = p]
      BY <2>3 DEF Completing, GoTo
    <3>2. \A i \in Attempts : CopyKeys(i)'
      BY <2>1, <2>2, <2>3, <3>1 DEF CopyKeys, KeyInv, TypeInv, TypeOK
    <3>. QED
      BY <2>1, <3>2, KeyKept
  <2>4. CASE AuthorizationAnswer(a)
    BY <2>2, <2>3, <2>4
       DEF AuthorizationAnswer, MarkAuthorized, MarkDeclined, Outcomes, Payment
  <2>5. CASE CaptureAnswer(a)
    BY <2>2, <2>3, <2>5 DEF CaptureAnswer, MarkCaptured, MarkExpired, Outcomes, Payment
  <2>6. CASE VoidAnswer(a)
    BY <2>2, <2>3, <2>6 DEF VoidAnswer, MarkVoided, MarkExpired, Outcomes, Payment
  <2>7. CASE RefundAnswer(a)
    BY <2>2, <2>3, <2>7 DEF RefundAnswer, MarkRefunded, Outcomes, Payment
  <2>8. CASE BankError(a)
    <3>1. \A i \in Attempts : CopyKeys(i)'
      BY <2>1, <2>8 DEF BankError, GoTo, CopyKeys, KeyInv, TypeInv, TypeOK
    <3>. QED
      BY <2>1, <3>1, KeyKept
  <2>. QED
    BY <1>4, <2>4, <2>5, <2>6, <2>7, <2>8 DEF BankAnswer
<1>5. ASSUME NEW a \in Attempts, Complete(a) PROVE KeyInv'
  <2>. DEFINE r == request[a]
              id == paymentID[a]
              p == payment[a]
  <2>1. /\ r \in Requests /\ r.operation \in Operations /\ id \in PaymentIDs
        /\ p \in Payment /\ payments[id] \in Payment
        /\ called[id] \in [BankOperations -> SUBSET Nat]
    BY <1>5, RequestFacts DEF Complete, TypeInv, TypeOK, Placed
  <2>2. /\ p.authorizationKey = payments[id].authorizationKey
        /\ p.status \in Outcomes(r.operation)
        /\ RowKeys(payments[id], called[id])
    BY <1>5, <2>1 DEF Complete, CopyKeys, KeyInv
  <2>3. payments[id].status = ExpectedStatus(r.operation)
    BY <1>5 DEF Complete, CompleteError
  <2>4. RowKeys(p, called[id]) /\ p.status # "absent"
    BY <2>1, <2>2, <2>3, CompleteKeepsRowKeys
  <2>5. /\ payments' = [payments EXCEPT ![id] = p] /\ UNCHANGED <<request, paymentID, called>>
        /\ \E answer : Return(a, answer)
    BY <1>5 DEF Complete, CompletePaymentCommand
  <2>. QED
    BY <2>1, <2>2, <2>4, <2>5, KeyWritten
<1>6. ASSUME NEW a \in Attempts,
             \/ \E r \in Requests : Begin(a, r)
             \/ NothingToRecover(a) \/ SlotTaken(a)
      PROVE  KeyInv'
  <2>1. /\ UNCHANGED <<payments, called, paymentID, payment>>
        /\ \A i \in Attempts \ {a} : request'[i] = request[i]
        /\ \E step \in {"recover", "insert", "select"} : pc' = [pc EXCEPT ![a] = step]
    BY <1>6 DEF Begin, NothingToRecover, SlotTaken, GoTo, storeVars, TypeInv, TypeOK
  <2>2. \A i \in Attempts : CopyKeys(i)'
    BY <2>1 DEF CopyKeys, KeyInv, TypeInv, TypeOK
  <2>. QED
    BY <2>1, <2>2, KeyKept
<1>7. ASSUME NEW a \in Attempts,
             \/ RejectRecovery(a) \/ RejectClaim(a) \/ Select(a)
             \/ RejectComplete(a) \/ Release(a) \/ DatabaseError(a)
      PROVE  KeyInv'
  <2>1. /\ UNCHANGED <<payments, called, request, paymentID>>
        /\ \E answer : Return(a, answer)
    BY <1>7 DEF RejectRecovery, RejectClaim, Select, RejectComplete, Release,
                ReleasePaymentCommand, DatabaseError, storeVars
  <2>2. \A i \in Attempts : CopyKeys(i)'
    BY <2>1 DEF Return, GoTo, CopyKeys, KeyInv, TypeInv, TypeOK
  <2>. QED
    BY <2>1, <2>2, KeyKept
<1>8. ASSUME NEW a \in Attempts, Forget(a) PROVE KeyInv'
  <2>1. \A i \in Attempts : CopyKeys(i)'
    BY <1>8 DEF Forget, GoTo, storeVars, CopyKeys, KeyInv, TypeInv, TypeOK
  <2>. QED
    BY <1>8, <2>1, KeyKept DEF Forget, storeVars
<1>9. CASE Cleanup \/ Tick \/ UNCHANGED vars
  <2>1. UNCHANGED <<payments, called, pc, request, paymentID, payment>>
    BY <1>9 DEF Cleanup, CleanupCompletedIdempotencyRecords, Tick, StoreTick, attemptVars, vars
  <2>2. \A i \in Attempts : CopyKeys(i)'
    BY <2>1 DEF CopyKeys, KeyInv
  <2>. QED
    BY <2>1, <2>2, KeyKept
<1>. QED
  BY <1>1, <1>2, <1>3, <1>4, <1>5, <1>6, <1>7, <1>8, <1>9
     DEF Next, Attempt, Proceed, Respond, Crash

\* Over any number of attempts, idempotency keys, recoveries and crashes, the
\* bank calls of one operation of one payment all carry one bank operation key.
THEOREM OneBankOperationKey == Spec => []OneKeyPerBankOperation
<1>1. KeyInv => OneKeyPerBankOperation
  BY DEF KeyInv
<1>. QED
  BY <1>1, TypeInit, TypeStep, KeyInit, KeyStep, PTL DEF Spec

----------------------------------------------------------------------------
(* What a stored payment, a claim and a copy look like *)

\* The row passes the CHECK constraint and loads back.
IsLoadable(p) == LoadPayment(p) /\ StatusPrivateFieldsCheck(p)

\* Nothing is known of a payment that is not stored; a stored one is loadable.
RowsInOrder ==
    \A id \in PaymentIDs :
        IF payments[id].status = "absent" THEN payments[id] = NoPayment
                                          ELSE IsLoadable(payments[id])

\* The copy p has the bank identifiers its operation builds on from the row.
Continues(operation, row, p) ==
    /\ operation \in {"capture_payment", "void_payment", "refund_payment"} =>
          p.authorizationID = row.authorizationID
    /\ operation = "refund_payment" => p.captureID = row.captureID

\* The copy an attempt works on could be written back: it loads, it is the
\* payment the operation was claimed on until the bank answers and one of the
\* operation's outcomes after, and the row is where the operation found it or
\* past it.
CopyInv(a) ==
    LET operation == request[a].operation
        row == payments[paymentID[a]]
        p == payment[a]
    IN
    pc[a] \in {"bank", "complete"} =>
        /\ IsLoadable(p) /\ p.card = row.card
        /\ row.status \in Reaches(ExpectedStatus(operation))
        /\ row.status = ExpectedStatus(operation) => Continues(operation, row, p)
        /\ pc[a] = "bank" => /\ p.status = ExpectedStatus(operation)
                             /\ BankOperationKey(operation, p) # 0
        /\ pc[a] = "complete" => p.status \in Outcomes(operation)

\* The claim of r on payment id: the payment is stored, is where r expects it
\* or past it, and has r's bank operation key while r can still be carried out.
Committed(r, id) ==
    /\ id \in PaymentIDs
    /\ r.paymentID \in {"", id}
    /\ payments[id].status \in Reaches(ExpectedStatus(r.operation))
    /\ r.operation = "retry_authorization" => r.card = payments[id].card
    /\ payments[id].status = ExpectedStatus(r.operation) =>
          BankOperationKey(r.operation, payments[id]) # 0

ClaimsCommitted ==
    \A r \in Requests :
        LET record == idempotencyRecords[Slot(r)] IN
        record.status = "in_progress" /\ record.fingerprint = Fingerprint(r) =>
            Committed(r, record.paymentID)

\* SnapshotWasReached for one record; the snapshot is of a stored payment.
Reached(record) ==
    /\ record.result.paymentID = record.paymentID
    /\ record.paymentID \in PaymentIDs
    /\ record.result.status \in PaymentStatus
    /\ payments[record.paymentID].status \in Reaches(record.result.status)

SnapshotsReached ==
    \A s \in Slots :
        idempotencyRecords[s].status = "completed" => Reached(idempotencyRecords[s])

StoredInv ==
    /\ RowsInOrder
    /\ \A a \in Attempts : CopyInv(a)
    /\ ClaimsCommitted
    /\ SnapshotsReached

----------------------------------------------------------------------------
(* Rows and how they move *)

\* Reaches is a partial order on the statuses.
LEMMA ReachesOrder ==
    ASSUME NEW s \in PaymentStatus, NEW t \in Reaches(s), NEW u \in Reaches(t)
    PROVE  /\ t \in PaymentStatus /\ s \in Reaches(s)
           /\ u \in Reaches(s)
           /\ u = s => t = s
BY DEF Reaches, PaymentStatus

\* What a step may make of row p: it moves on along the lifecycle, keeps its
\* card, and while its status stays it keeps its bank identifiers and does not
\* lose a bank operation key.  Nobody refers to a payment that is not stored.
Advances(p, q) ==
    p.status # "absent" =>
        /\ q.status \in Reaches(p.status)
        /\ q.card = p.card
        /\ q.status = p.status =>
              /\ q.authorizationID = p.authorizationID
              /\ q.captureID = p.captureID
              /\ \A operation \in Operations :
                    BankOperationKey(operation, p) # 0 => BankOperationKey(operation, q) # 0

\* A row that stays as it is.
LEMMA AdvancesSame ==
    ASSUME NEW p \in Payment
    PROVE  Advances(p, p)
BY DEF Advances, Reaches, Payment

\* Storing a bank operation key: the row loads as before, gains the key of the
\* operation and moves nowhere.
LEMMA EnsureLoadable ==
    ASSUME NEW p \in Payment, NEW operation \in Operations, NEW key \in Nat \ {0},
           IsLoadable(p), p.status = ExpectedStatus(operation)
    PROVE  LET q == ensureBankOperationKey(operation, p, key)
           IN  /\ IsLoadable(q) /\ Advances(p, q)
               /\ q.status = p.status /\ BankOperationKey(operation, q) # 0
<1>1. CASE operation \in {"authorize_payment", "retry_authorization"}
  <2>1. BankOperationKey(operation, p) # 0
    BY <1>1 DEF BankOperationKey, IsLoadable, LoadPayment
  <2>. QED
    BY <2>1, AdvancesSame DEF ensureBankOperationKey
<1>2. CASE operation \in {"capture_payment", "void_payment", "refund_payment"}
  <2>. DEFINE q == ensureBankOperationKey(operation, p, key)
  <2>1. CASE BankOperationKey(operation, p) # 0
    BY <2>1, AdvancesSame DEF ensureBankOperationKey
  <2>2. CASE BankOperationKey(operation, p) = 0
    <3>1. CASE operation = "capture_payment"
      <4>1. q = [p EXCEPT !.captureKey = key]
        BY <2>2, <3>1 DEF ensureBankOperationKey, SetCaptureBankOperationKey
      <4>. HIDE DEF q
      <4>. QED
        BY <3>1, <4>1 DEF IsLoadable, LoadPayment, StatusPrivateFieldsCheck, Advances,
              Reaches, BankOperationKey, ExpectedStatus, Payment, q
    <3>2. CASE operation = "void_payment"
      <4>1. q = [p EXCEPT !.voidKey = key]
        BY <2>2, <3>2 DEF ensureBankOperationKey, SetVoidBankOperationKey
      <4>. HIDE DEF q
      <4>. QED
        BY <3>2, <4>1 DEF IsLoadable, LoadPayment, StatusPrivateFieldsCheck, Advances,
              Reaches, BankOperationKey, ExpectedStatus, Payment, q
    <3>3. CASE operation = "refund_payment"
      <4>1. q = [p EXCEPT !.refundKey = key]
        BY <2>2, <3>3 DEF ensureBankOperationKey, SetRefundBankOperationKey
      <4>. HIDE DEF q
      <4>. QED
        BY <3>3, <4>1 DEF IsLoadable, LoadPayment, StatusPrivateFieldsCheck, Advances,
              Reaches, BankOperationKey, ExpectedStatus, Payment, q
    <3>. QED
      BY <1>2, <3>1, <3>2, <3>3
  <2>. QED
    BY <2>1, <2>2
<1>. QED
  BY <1>1, <1>2 DEF Operations

\* Writing back a copy with one of its operation's outcomes moves the row on.
LEMMA OutcomeAdvances ==
    ASSUME NEW p \in Payment, NEW q \in Payment, NEW operation \in Operations,
           IsLoadable(p), IsLoadable(q), q.card = p.card,
           p.status = ExpectedStatus(operation), q.status \in Outcomes(operation)
    PROVE  Advances(p, q)
<1>1. q.status \in Reaches(p.status)
  BY DEF Reaches, ExpectedStatus, Outcomes, PaymentStatus, Operations
<1>2. q.status = p.status => p.status = "pending"
  BY DEF ExpectedStatus, Outcomes, Operations
<1>3. ASSUME p.status = "pending", q.status = "pending"
      PROVE  /\ q.authorizationID = p.authorizationID
             /\ q.captureID = p.captureID
             /\ p.captureKey = 0 /\ p.voidKey = 0 /\ p.refundKey = 0
             /\ q.authorizationKey # 0
  <2>1. p.authorizationID = 0 /\ q.authorizationID = 0
    BY <1>3 DEF IsLoadable, LoadPayment
  <2>2. p.captureID = 0 /\ q.captureID = 0
    BY <1>3 DEF IsLoadable, LoadPayment
  <2>3. p.captureKey = 0 /\ p.voidKey = 0 /\ p.refundKey = 0 /\ q.authorizationKey # 0
    BY <1>3 DEF IsLoadable, LoadPayment
  <2>. QED
    BY <2>1, <2>2, <2>3
<1>. QED
  BY <1>1, <1>2, <1>3 DEF Advances, BankOperationKey, Operations

\* The bank's answer turns a copy that can be sent into one that can be stored.
LEMMA MarkLoadable ==
    ASSUME NEW p \in Payment, NEW operation \in Operations, IsLoadable(p),
           p.status = ExpectedStatus(operation), BankOperationKey(operation, p) # 0
    PROVE  /\ operation \in {"authorize_payment", "retry_authorization"} =>
                 /\ \A id \in BankIDs : IsLoadable(MarkAuthorized(p, id))
                 /\ \A reason \in BankDeclineReasons : IsLoadable(MarkDeclined(p, reason))
           /\ operation = "capture_payment" =>
                 \A id \in BankIDs : IsLoadable(MarkCaptured(p, id))
           /\ operation = "void_payment" =>
                 \A id \in BankIDs : IsLoadable(MarkVoided(p, id))
           /\ operation \in {"capture_payment", "void_payment"} => IsLoadable(MarkExpired(p))
           /\ operation = "refund_payment" =>
                 \A id \in BankIDs : IsLoadable(MarkRefunded(p, id))
<1>. USE DEF Payment, IsLoadable, LoadPayment, StatusPrivateFieldsCheck, PaymentStatus,
             ExpectedStatus, BankOperationKey
<1>0. 0 \notin BankIDs
  BY BankIDsAssumption
<1>1. ASSUME operation \in {"authorize_payment", "retry_authorization"}, NEW id \in BankIDs
      PROVE  IsLoadable(MarkAuthorized(p, id))
  BY <1>0, <1>1 DEF MarkAuthorized
<1>2. ASSUME operation \in {"authorize_payment", "retry_authorization"},
             NEW reason \in BankDeclineReasons
      PROVE  IsLoadable(MarkDeclined(p, reason))
  BY <1>2 DEF MarkDeclined, BankDeclineReasons
<1>3. ASSUME operation = "capture_payment", NEW id \in BankIDs
      PROVE  IsLoadable(MarkCaptured(p, id))
  BY <1>0, <1>3 DEF MarkCaptured
<1>4. ASSUME operation = "void_payment", NEW id \in BankIDs
      PROVE  IsLoadable(MarkVoided(p, id))
  BY <1>0, <1>4 DEF MarkVoided
<1>5. ASSUME operation \in {"capture_payment", "void_payment"}
      PROVE  IsLoadable(MarkExpired(p))
  BY <1>5 DEF MarkExpired
<1>6. ASSUME operation = "refund_payment", NEW id \in BankIDs
      PROVE  IsLoadable(MarkRefunded(p, id))
  BY <1>0, <1>6 DEF MarkRefunded
<1>. QED
  BY <1>1, <1>2, <1>3, <1>4, <1>5, <1>6

----------------------------------------------------------------------------
(* Claims, snapshots and copies while rows move on *)

RowsAdvance == \A id \in PaymentIDs : Advances(payments[id], payments'[id])

\* A claim stays committed to its payment.
LEMMA CommittedKept ==
    ASSUME RowsAdvance, NEW r \in Requests, NEW id, Committed(r, id)
    PROVE  Committed(r, id)'
<1>. DEFINE s == ExpectedStatus(r.operation)
            p == payments[id]
            q == payments'[id]
<1>1. id \in PaymentIDs /\ Advances(p, q) /\ r.operation \in Operations
  BY RequestFacts DEF Committed, RowsAdvance
<1>2. s \in PaymentStatus /\ p.status \in Reaches(s)
  BY <1>1 DEF Committed, ExpectedStatus, PaymentStatus, Operations
<1>3. p.status # "absent"
  BY <1>2 DEF Reaches, PaymentStatus
<1>. HIDE DEF s
<1>4. q.status \in Reaches(s) /\ (q.status = s => p.status = s)
  BY <1>1, <1>2, <1>3, ReachesOrder, SMT DEF Advances
<1>5. r.operation = "retry_authorization" => r.card = q.card
  BY <1>1, <1>3 DEF Advances, Committed
<1>6. q.status = s => BankOperationKey(r.operation, q) # 0
  BY <1>1, <1>3, <1>4 DEF Advances, Committed, s
<1>. QED
  BY <1>1, <1>4, <1>5, <1>6 DEF Committed, s

\* A snapshot was reached for good.
LEMMA ReachedKept ==
    ASSUME RowsAdvance, NEW record, Reached(record)
    PROVE  Reached(record)'
<1>1. /\ record.paymentID \in PaymentIDs /\ record.result.status \in PaymentStatus
      /\ payments[record.paymentID].status \in Reaches(record.result.status)
      /\ Advances(payments[record.paymentID], payments'[record.paymentID])
  BY DEF Reached, RowsAdvance
<1>2. payments[record.paymentID].status # "absent"
  BY <1>1 DEF Reaches, PaymentStatus
<1>3. payments'[record.paymentID].status \in Reaches(record.result.status)
  BY <1>1, <1>2, ReachesOrder, SMT DEF Advances
<1>. QED
  BY <1>3 DEF Reached

\* An attempt that does not move keeps a copy it could write back.
LEMMA CopyKept ==
    ASSUME TypeInv, RowsAdvance, NEW a \in Attempts, CopyInv(a),
           pc'[a] = pc[a], request'[a] = request[a], paymentID'[a] = paymentID[a],
           payment'[a] = payment[a]
    PROVE  CopyInv(a)'
<1>. SUFFICES ASSUME pc[a] \in {"bank", "complete"} PROVE CopyInv(a)'
  BY DEF CopyInv
<1>. DEFINE operation == request[a].operation
            s == ExpectedStatus(operation)
            p == payments[paymentID[a]]
            q == payments'[paymentID[a]]
<1>1. paymentID[a] \in PaymentIDs /\ request[a] \in Requests /\ operation \in Operations
  BY RequestFacts DEF TypeInv, Placed
<1>2. Advances(p, q) /\ s \in PaymentStatus /\ p.status \in Reaches(s)
  BY <1>1 DEF RowsAdvance, CopyInv, ExpectedStatus, PaymentStatus, Operations
<1>3. p.status # "absent"
  BY <1>2 DEF Reaches, PaymentStatus
<1>. HIDE DEF s
<1>4. q.status \in Reaches(s) /\ (q.status = s => p.status = s)
  BY <1>2, <1>3, ReachesOrder, SMT DEF Advances
<1>5. IsLoadable(payment[a]) /\ payment[a].card = q.card
  BY <1>2, <1>3 DEF CopyInv, Advances
<1>6. q.status = s => Continues(operation, q, payment[a])
  BY <1>2, <1>3, <1>4 DEF Advances, Continues, CopyInv, s
<1>7. /\ pc[a] = "bank" => /\ payment[a].status = s
                           /\ BankOperationKey(operation, payment[a]) # 0
      /\ pc[a] = "complete" => payment[a].status \in Outcomes(operation)
  BY DEF CopyInv, s
<1>. QED
  BY <1>4, <1>5, <1>6, <1>7 DEF CopyInv, s

\* A transaction writes q over the row of id.
LEMMA RowWritten ==
    ASSUME TypeInv, StoredInv, NEW id \in PaymentIDs, NEW q \in Payment,
           payments' = [payments EXCEPT ![id] = q],
           IsLoadable(q), Advances(payments[id], q)
    PROVE  RowsAdvance /\ RowsInOrder'
<1>1. payments'[id] = q /\ \A i \in PaymentIDs \ {id} : payments'[i] = payments[i]
  BY DEF TypeInv, TypeOK
<1>2. \A i \in PaymentIDs : payments[i] \in Payment
  BY DEF TypeInv, TypeOK
<1>3. RowsAdvance
  BY <1>1, <1>2, AdvancesSame DEF RowsAdvance
<1>4. RowsInOrder'
  <2>1. q.status # "absent"
    BY DEF IsLoadable, StatusPrivateFieldsCheck, PaymentStatus
  <2>. QED
    BY <1>1, <2>1 DEF StoredInv, RowsInOrder
<1>. QED
  BY <1>3, <1>4

\* A transaction writes no row.
LEMMA RowsUnwritten ==
    ASSUME TypeInv, StoredInv, payments' = payments
    PROVE  RowsAdvance /\ RowsInOrder'
<1>1. \A i \in PaymentIDs : payments[i] \in Payment
  BY DEF TypeInv, TypeOK
<1>. QED
  BY <1>1, AdvancesSame DEF RowsAdvance, StoredInv, RowsInOrder

\* What a transaction may leave in slot s: what was there but for its ages, no
\* record, a claim of the request of one attempt on a committed payment, or a
\* snapshot that was reached.
Settles(s) ==
    LET new == idempotencyRecords'[s]
        old == idempotencyRecords[s]
    IN
    \/ /\ new.status = old.status /\ new.fingerprint = old.fingerprint
       /\ new.paymentID = old.paymentID /\ new.result = old.result
    \/ new.status = "absent"
    \/ /\ new.status = "in_progress"
       /\ \E id \in PaymentIDs :
             /\ new.paymentID = id
             /\ \A r \in Requests : new.fingerprint = Fingerprint(r) => Committed(r, id)'
    \/ /\ new.status = "completed"
       /\ \E record \in Record : new = record /\ Reached(record)'

\* Records that settle so keep claims committed and snapshots reached.
LEMMA RecordsKept ==
    ASSUME TypeInv, StoredInv, RowsAdvance, \A s \in Slots : Settles(s)
    PROVE  ClaimsCommitted' /\ SnapshotsReached'
<1>1. ASSUME NEW r \in Requests, idempotencyRecords'[Slot(r)].status = "in_progress",
             idempotencyRecords'[Slot(r)].fingerprint = Fingerprint(r),
             NEW id, id = idempotencyRecords'[Slot(r)].paymentID
      PROVE  Committed(r, id)'
  <2>. DEFINE s == Slot(r)
  <2>1. s \in Slots /\ Settles(s)
    BY RequestFacts
  <2>2. CASE /\ idempotencyRecords[s].status = "in_progress"
             /\ idempotencyRecords[s].fingerprint = Fingerprint(r)
             /\ idempotencyRecords'[s].paymentID = idempotencyRecords[s].paymentID
    <3>1. Committed(r, id)
      BY <1>1, <2>2 DEF StoredInv, ClaimsCommitted
    <3>. QED
      BY <3>1, CommittedKept
  <2>3. CASE \E i \in PaymentIDs :
                 /\ idempotencyRecords'[s].paymentID = i
                 /\ \A q \in Requests : idempotencyRecords'[s].fingerprint = Fingerprint(q) =>
                        Committed(q, i)'
    BY <1>1, <2>3
  <2>. QED
    BY <1>1, <2>1, <2>2, <2>3 DEF Settles
<1>2. ASSUME NEW s \in Slots, NEW record, record = idempotencyRecords'[s],
             record.status = "completed"
      PROVE  Reached(record)'
  <2>1. Settles(s)
    OBVIOUS
  <2>2. CASE /\ idempotencyRecords[s].status = "completed"
             /\ record.paymentID = idempotencyRecords[s].paymentID
             /\ record.result = idempotencyRecords[s].result
    <3>1. Reached(record)
      BY <2>2 DEF StoredInv, SnapshotsReached, Reached
    <3>. QED
      BY <3>1, ReachedKept
  <2>. QED
    BY <1>2, <2>1, <2>2 DEF Settles
<1>3. ClaimsCommitted'
  BY <1>1 DEF ClaimsCommitted, Committed
<1>4. SnapshotsReached'
  BY <1>2 DEF SnapshotsReached, Reached
<1>. QED
  BY <1>3, <1>4

\* Records that are left alone settle.
LEMMA RecordsUnwritten ==
    ASSUME idempotencyRecords' = idempotencyRecords
    PROVE  \A s \in Slots : Settles(s)
BY DEF Settles

\* So do records that are left alone or deleted.
LEMMA RecordsDeleted ==
    ASSUME \A s \in Slots : \/ idempotencyRecords'[s] = idempotencyRecords[s]
                            \/ idempotencyRecords'[s] = NoRecord
    PROVE  \A s \in Slots : Settles(s)
<1>. SUFFICES ASSUME NEW s \in Slots PROVE Settles(s)
  OBVIOUS
<1>1. CASE idempotencyRecords'[s] = idempotencyRecords[s]
  BY <1>1 DEF Settles
<1>2. CASE idempotencyRecords'[s] = NoRecord
  <2>1. NoRecord.status = "absent"
    BY DEF NoRecord
  <2>. QED
    BY <1>2, <2>1 DEF Settles
<1>. QED
  BY <1>1, <1>2

\* The step of an attempt that inserts or takes over the claim of its slot.
LEMMA ClaimSettles ==
    ASSUME TypeInv, NEW r \in Requests, NEW id \in PaymentIDs, NEW record,
           idempotencyRecords' = [idempotencyRecords EXCEPT ![Slot(r)] = record],
           record.status = "in_progress", record.fingerprint = Fingerprint(r),
           record.paymentID = id, Committed(r, id)'
    PROVE  \A s \in Slots : Settles(s)
<1>1. idempotencyRecords'[Slot(r)] = record
  BY RequestFacts DEF TypeInv, TypeOK
<1>2. \A s \in Slots \ {Slot(r)} : Settles(s)
  BY DEF TypeInv, TypeOK, Settles
<1>3. ASSUME NEW q \in Requests, Fingerprint(q) = Fingerprint(r)
      PROVE  Committed(q, id)'
  <2>1. q.operation = r.operation /\ q.paymentID = r.paymentID /\ q.card = r.card
    BY <1>3 DEF Fingerprint
  <2>. QED
    BY <2>1 DEF Committed
<1>4. Settles(Slot(r))
  BY <1>1, <1>3 DEF Settles
<1>. QED
  BY <1>2, <1>4

\* Attempt a calls the bank after its transaction left p in the row.
LEMMA StoredCalled ==
    ASSUME TypeInv, StoredInv, NEW a \in Attempts, request[a] \in Requests,
           NEW id \in PaymentIDs, NEW p \in Payment,
           CallBank(a, id, p), UNCHANGED request,
           payments' = [payments EXCEPT ![id] = p],
           IsLoadable(p), Advances(payments[id], p),
           p.status = ExpectedStatus(request[a].operation),
           BankOperationKey(request[a].operation, p) # 0,
           \A s \in Slots : Settles(s)
    PROVE  StoredInv'
<1>1. RowsAdvance /\ RowsInOrder'
  BY RowWritten
<1>2. ClaimsCommitted' /\ SnapshotsReached'
  BY <1>1, RecordsKept
<1>3. /\ pc'[a] = "bank" /\ paymentID'[a] = id /\ payment'[a] = p /\ payments'[id] = p
      /\ \A b \in Attempts \ {a} : /\ pc'[b] = pc[b] /\ paymentID'[b] = paymentID[b]
                                   /\ payment'[b] = payment[b]
  BY DEF CallBank, GoTo, TypeInv, TypeOK
<1>4. ASSUME NEW b \in Attempts \ {a} PROVE CopyInv(b)'
  BY <1>1, <1>3, CopyKept DEF StoredInv
<1>5. CopyInv(a)'
  <2>1. p.status \in Reaches(ExpectedStatus(request[a].operation))
    BY DEF Reaches, ExpectedStatus, PaymentStatus
  <2>. QED
    BY <1>3, <2>1 DEF CopyInv, Continues
<1>. QED
  BY <1>1, <1>2, <1>4, <1>5 DEF StoredInv

\* Attempt a moves to a step at which it has no copy to write back.
LEMMA StoredLeft ==
    ASSUME TypeInv, StoredInv, NEW a \in Attempts, NEW step,
           step \notin {"bank", "complete"}, pc' = [pc EXCEPT ![a] = step],
           \A b \in Attempts \ {a} : /\ request'[b] = request[b]
                                     /\ paymentID'[b] = paymentID[b]
                                     /\ payment'[b] = payment[b],
           RowsAdvance, RowsInOrder', \A s \in Slots : Settles(s)
    PROVE  StoredInv'
<1>1. ClaimsCommitted' /\ SnapshotsReached'
  BY RecordsKept
<1>2. pc'[a] = step /\ \A b \in Attempts \ {a} : pc'[b] = pc[b]
  BY DEF TypeInv, TypeOK
<1>3. CopyInv(a)'
  BY <1>2 DEF CopyInv
<1>4. ASSUME NEW b \in Attempts \ {a} PROVE CopyInv(b)'
  BY <1>2, CopyKept DEF StoredInv
<1>. QED
  BY <1>1, <1>3, <1>4 DEF StoredInv

\* Attempt a returns.
LEMMA StoredReturned ==
    ASSUME TypeInv, StoredInv, NEW a \in Attempts, NEW answer, Return(a, answer),
           UNCHANGED <<request, paymentID>>,
           RowsAdvance, RowsInOrder', \A s \in Slots : Settles(s)
    PROVE  StoredInv'
<1>1. pc' = [pc EXCEPT ![a] = "respond"]
  BY DEF Return, GoTo
<1>2. \A b \in Attempts \ {a} : payment'[b] = payment[b]
  BY DEF Return, TypeInv, TypeOK
<1>. QED
  BY <1>1, <1>2, StoredLeft

\* The empty tables hold nothing that could be wrong.
LEMMA StoredInit == Init => StoredInv
<1>. SUFFICES ASSUME Init PROVE StoredInv
  OBVIOUS
<1>1. \A id \in PaymentIDs : payments[id] = NoPayment /\ NoPayment.status = "absent"
  BY DEF Init, StoreInit, NoPayment
<1>2. \A s \in Slots : idempotencyRecords[s].status = "absent"
  BY DEF Init, StoreInit, NoRecord
<1>3. \A a \in Attempts : CopyInv(a)
  BY DEF Init, CopyInv
<1>4. RowsInOrder /\ SnapshotsReached
  BY <1>1, <1>2 DEF RowsInOrder, SnapshotsReached
<1>5. ClaimsCommitted
  BY <1>2, RequestFacts DEF ClaimsCommitted
<1>. QED
  BY <1>3, <1>4, <1>5 DEF StoredInv

\* Recovering a claim: the row loads and admits the operation.
LEMMA StoredRecover ==
    ASSUME TypeInv, StoredInv, NEW a \in Attempts, Recover(a)
    PROVE  StoredInv'
<1>. DEFINE r == request[a]
            old == idempotencyRecords[Slot(r)]
            record == [old EXCEPT !.claimedAge = age[a]]
            p == payments[old.paymentID]
<1>1. r \in Requests /\ r.operation \in Operations /\ old \in Record
  BY RequestFacts DEF Recover, TypeInv, TypeOK, Placed
<1>2. old.status = "in_progress" /\ old.fingerprint = Fingerprint(r)
  BY DEF Recover, IsStuckClaim
<1>3. RecoveryError(r, old) = "" /\ old.paymentID \in PaymentIDs
  BY <1>1, ErrorTypes DEF Recover
<1>4. PICK id \in PaymentIDs : id = old.paymentID
  BY <1>3
<1>5. p \in Payment /\ p.status # "absent" /\ p.status = ExpectedStatus(r.operation)
  BY <1>3 DEF RecoveryError, TypeInv, TypeOK
<1>6. IsLoadable(p) /\ Advances(p, p)
  BY <1>3, <1>5, AdvancesSame DEF StoredInv, RowsInOrder
<1>7. Committed(r, id)
  BY <1>1, <1>2, <1>4 DEF StoredInv, ClaimsCommitted
<1>8. BankOperationKey(r.operation, p) # 0
  BY <1>4, <1>5, <1>7 DEF Committed
<1>9. /\ idempotencyRecords' = [idempotencyRecords EXCEPT ![Slot(r)] = record]
      /\ payments' = payments /\ request' = request
      /\ payments' = [payments EXCEPT ![id] = p]
  BY <1>4 DEF Recover, RecoverClaim, TypeInv, TypeOK
<1>10. RowsAdvance /\ RowsInOrder'
  BY <1>9, RowsUnwritten
<1>11. Committed(r, id)'
  <2>1. PICK q \in Requests : q = r
    BY <1>1
  <2>2. Committed(q, id)'
    BY <1>7, <1>10, <2>1, CommittedKept
  <2>. QED
    BY <1>9, <2>1, <2>2
<1>12. /\ record.status = "in_progress" /\ record.fingerprint = Fingerprint(r)
       /\ record.paymentID = id
  BY <1>1, <1>2, <1>4 DEF Record
<1>13. \A s \in Slots : Settles(s)
  <2>1. PICK q \in Requests : q = r
    BY <1>1
  <2>2. Committed(q, id)'
    BY <1>9, <1>11, <2>1
  <2>. HIDE DEF record
  <2>. QED
    BY <1>9, <1>12, <2>1, <2>2, ClaimSettles
<1>14. CASE CallBank(a, id, p)
  <2>. HIDE DEF p
  <2>. QED
    BY <1>1, <1>4, <1>5, <1>6, <1>8, <1>9, <1>13, <1>14, StoredCalled DEF p
<1>15. CASE CommitLost(a)
  BY <1>9, <1>10, <1>13, <1>15, StoredReturned DEF CommitLost
<1>. QED
  BY <1>4, <1>14, <1>15 DEF Recover

\* Inserting an authorization stores a pending payment with its key and card.
LEMMA StoredAuthorization ==
    ASSUME TypeInv, StoredInv, NEW a \in Attempts, NEW id \in PaymentIDs,
           StartAuthorization(a, id)
    PROVE  StoredInv'
<1>. DEFINE r == request[a]
            record == InProgressRecord(r, id, age[a])
            p == NewPendingPayment(nextBankOperationKey, r.card)
<1>1. PICK q \in Requests : q = r
  BY DEF StartAuthorization, TypeInv, Placed
<1>2. q.operation = "authorize_payment" /\ q.paymentID = "" /\ q.card # "" /\ q.card \in Cards
  BY <1>1, RequestsAssumption DEF StartAuthorization, RequestShape
<1>3. nextBankOperationKey \in Nat /\ nextBankOperationKey # 0
  BY DEF TypeInv, TypeOK
<1>4. /\ p \in Payment /\ p.status = "pending" /\ p.authorizationKey = nextBankOperationKey
      /\ p.card = q.card
  BY <1>1, <1>2, <1>3 DEF NewPendingPayment, NoPayment, Payment, Key, BankID, PaymentStatus
<1>5. IsLoadable(p)
  BY <1>1, <1>2, <1>3
     DEF NewPendingPayment, NoPayment, IsLoadable, LoadPayment, StatusPrivateFieldsCheck,
         PaymentStatus
<1>6. payments[id].status = "absent"
  BY DEF StartAuthorization
<1>7. Advances(payments[id], p)
  BY <1>6 DEF Advances
<1>8. /\ idempotencyRecords' = [idempotencyRecords EXCEPT ![Slot(r)] = record]
      /\ payments' = [payments EXCEPT ![id] = p] /\ request' = request
  BY DEF StartAuthorization, InsertAuthorization
<1>9. payments'[id] = p
  BY <1>8 DEF TypeInv, TypeOK
<1>10. /\ record.status = "in_progress" /\ record.fingerprint = Fingerprint(r)
       /\ record.paymentID = id
  BY DEF InProgressRecord, NoRecord
<1>. HIDE DEF p, record
<1>11. Committed(q, id)'
  BY <1>2, <1>3, <1>4, <1>9 DEF Committed, Reaches, ExpectedStatus, BankOperationKey, PaymentStatus
<1>12. \A s \in Slots : Settles(s)
  BY <1>1, <1>8, <1>10, <1>11, ClaimSettles
<1>13. CASE CallBank(a, id, payments'[id])
  <2>1. p.status = ExpectedStatus(r.operation) /\ BankOperationKey(r.operation, p) # 0
    BY <1>1, <1>2, <1>3, <1>4 DEF ExpectedStatus, BankOperationKey
  <2>. QED
    BY <1>1, <1>4, <1>5, <1>7, <1>8, <1>9, <1>12, <1>13, <2>1, StoredCalled
<1>14. CASE CommitLost(a)
  <2>1. RowsAdvance /\ RowsInOrder'
    BY <1>4, <1>5, <1>7, <1>8, RowWritten
  <2>. QED
    BY <1>8, <1>12, <1>14, <2>1, StoredReturned DEF CommitLost
<1>. QED
  BY <1>13, <1>14 DEF StartAuthorization

\* Inserting a claim on a stored payment stores the operation's key with it.
LEMMA StoredClaim ==
    ASSUME TypeInv, StoredInv, NEW a \in Attempts, ClaimPayment(a)
    PROVE  StoredInv'
<1>. DEFINE r == request[a]
            record == InProgressRecord(r, r.paymentID, age[a])
            p == ensureBankOperationKey(r.operation, payments[r.paymentID],
                                        nextBankOperationKey)
<1>1. PICK q \in Requests : q = r
  BY DEF ClaimPayment, TypeInv, Placed
<1>2. q.operation \in Operations /\ q.paymentID \in PaymentIDs
  BY <1>1, RequestFacts DEF ClaimPayment
<1>3. PICK id \in PaymentIDs : id = q.paymentID
  BY <1>2
<1>4. nextBankOperationKey \in Nat \ {0} /\ payments[id] \in Payment
  BY DEF TypeInv, TypeOK
<1>5. /\ payments[id].status # "absent"
      /\ payments[id].status = ExpectedStatus(q.operation)
      /\ q.operation = "retry_authorization" => q.card = payments[id].card
  BY <1>1, <1>3 DEF ClaimPayment, AcquireError
<1>6. IsLoadable(payments[id])
  BY <1>5 DEF StoredInv, RowsInOrder
<1>7. /\ IsLoadable(p) /\ Advances(payments[id], p)
      /\ p.status = payments[id].status /\ BankOperationKey(q.operation, p) # 0
  BY <1>1, <1>2, <1>3, <1>4, <1>5, <1>6, EnsureLoadable
<1>8. p \in Payment
  BY <1>1, <1>2, <1>3, <1>4, EnsureKeyTypes
<1>9. /\ idempotencyRecords' = [idempotencyRecords EXCEPT ![Slot(r)] = record]
      /\ payments' = [payments EXCEPT ![id] = p] /\ request' = request
  BY <1>1, <1>3 DEF ClaimPayment, InsertClaim
<1>10. payments'[id] = p
  BY <1>9 DEF TypeInv, TypeOK
<1>11. /\ record.status = "in_progress" /\ record.fingerprint = Fingerprint(r)
       /\ record.paymentID = id
  BY <1>1, <1>3 DEF InProgressRecord, NoRecord
<1>. HIDE DEF p, record
<1>12. p.card = payments[id].card /\ p.status \in Reaches(ExpectedStatus(q.operation))
  BY <1>5, <1>7 DEF Advances, Reaches, ExpectedStatus, PaymentStatus
<1>13. Committed(q, id)'
  BY <1>3, <1>5, <1>7, <1>10, <1>12 DEF Committed
<1>14. \A s \in Slots : Settles(s)
  BY <1>1, <1>9, <1>11, <1>13, ClaimSettles
<1>15. CASE CallBank(a, id, payments'[id])
  BY <1>1, <1>5, <1>7, <1>8, <1>9, <1>10, <1>14, <1>15, StoredCalled
<1>16. CASE CommitLost(a)
  <2>1. RowsAdvance /\ RowsInOrder'
    BY <1>7, <1>8, <1>9, RowWritten
  <2>. QED
    BY <1>9, <1>14, <1>16, <2>1, StoredReturned DEF CommitLost
<1>. QED
  BY <1>1, <1>3, <1>15, <1>16 DEF ClaimPayment

\* The bank's answer turns the attempt's copy into an outcome it can store.
LEMMA StoredAnswer ==
    ASSUME TypeInv, StoredInv, NEW a \in Attempts, BankAnswer(a)
    PROVE  StoredInv'
<1>. DEFINE operation == request[a].operation
            p == payment[a]
<1>1. /\ pc[a] = "bank" /\ request[a] \in Requests /\ paymentID[a] \in PaymentIDs
      /\ p \in Payment /\ operation \in Operations
  BY RequestFacts DEF BankAnswer, TypeInv, TypeOK, Placed
<1>2. UNCHANGED <<payments, idempotencyRecords, request, paymentID>>
  BY DEF BankAnswer, storeVars
<1>3. CopyInv(a)
  BY DEF StoredInv
<1>4. /\ IsLoadable(p) /\ p.status = ExpectedStatus(operation)
      /\ BankOperationKey(operation, p) # 0
  BY <1>1, <1>3 DEF CopyInv
<1>5. RowsAdvance /\ RowsInOrder'
  BY <1>2, RowsUnwritten
<1>6. \A s \in Slots : Settles(s)
  BY <1>2, RecordsUnwritten
<1>7. ASSUME NEW q, Completing(a, q), IsLoadable(q), q.card = p.card,
             q.status \in Outcomes(operation), Continues(operation, p, q)
      PROVE  StoredInv'
  <2>1. /\ pc'[a] = "complete" /\ payment'[a] = q
        /\ \A b \in Attempts \ {a} : pc'[b] = pc[b] /\ payment'[b] = payment[b]
    BY <1>7 DEF Completing, GoTo, TypeInv, TypeOK
  <2>2. CopyInv(a)'
    BY <1>1, <1>2, <1>3, <1>7, <2>1 DEF CopyInv, Continues
  <2>3. \A b \in Attempts \ {a} : CopyInv(b)'
    BY <1>2, <1>5, <2>1, CopyKept DEF StoredInv
  <2>4. ClaimsCommitted' /\ SnapshotsReached'
    BY <1>5, <1>6, RecordsKept
  <2>. QED
    BY <1>5, <2>2, <2>3, <2>4 DEF StoredInv
<1>8. CASE AuthorizationAnswer(a)
  <2>1. operation \in {"authorize_payment", "retry_authorization"} /\ p.status = "pending"
    BY <1>8 DEF AuthorizationAnswer
  <2>2. ASSUME NEW id \in BankIDs, Completing(a, MarkAuthorized(p, id)) PROVE StoredInv'
    <3>1. IsLoadable(MarkAuthorized(p, id))
      BY <1>1, <1>4, <2>1, MarkLoadable
    <3>2. /\ MarkAuthorized(p, id).card = p.card
          /\ MarkAuthorized(p, id).status \in Outcomes(operation)
          /\ Continues(operation, p, MarkAuthorized(p, id))
      BY <1>1, <2>1 DEF MarkAuthorized, Outcomes, Continues, Payment
    <3>. QED
      BY <1>7, <2>2, <3>1, <3>2
  <2>3. ASSUME NEW reason \in BankDeclineReasons, Completing(a, MarkDeclined(p, reason))
        PROVE  StoredInv'
    <3>1. IsLoadable(MarkDeclined(p, reason))
      BY <1>1, <1>4, <2>1, MarkLoadable
    <3>2. /\ MarkDeclined(p, reason).card = p.card
          /\ MarkDeclined(p, reason).status \in Outcomes(operation)
          /\ Continues(operation, p, MarkDeclined(p, reason))
      BY <1>1, <2>1 DEF MarkDeclined, Outcomes, Continues, Payment
    <3>. QED
      BY <1>7, <2>3, <3>1, <3>2
  <2>4. ASSUME Completing(a, p) PROVE StoredInv'
    BY <1>4, <1>7, <2>1, <2>4 DEF Outcomes, Continues
  <2>. QED
    BY <1>8, <2>2, <2>3, <2>4 DEF AuthorizationAnswer
<1>9. ASSUME operation \in {"capture_payment", "void_payment"}, Completing(a, MarkExpired(p))
      PROVE  StoredInv'
  <2>1. IsLoadable(MarkExpired(p))
    BY <1>1, <1>4, <1>9, MarkLoadable
  <2>2. /\ MarkExpired(p).card = p.card /\ MarkExpired(p).status \in Outcomes(operation)
        /\ Continues(operation, p, MarkExpired(p))
    BY <1>1, <1>9 DEF MarkExpired, Outcomes, Continues, Payment
  <2>. QED
    BY <1>7, <1>9, <2>1, <2>2
<1>10. CASE CaptureAnswer(a)
  <2>1. ASSUME NEW id \in BankIDs, Completing(a, MarkCaptured(p, id)) PROVE StoredInv'
    <3>1. operation = "capture_payment"
      BY <1>10 DEF CaptureAnswer
    <3>2. IsLoadable(MarkCaptured(p, id))
      BY <1>1, <1>4, <3>1, MarkLoadable
    <3>3. /\ MarkCaptured(p, id).card = p.card
          /\ MarkCaptured(p, id).status \in Outcomes(operation)
          /\ Continues(operation, p, MarkCaptured(p, id))
      BY <1>1, <3>1 DEF MarkCaptured, Outcomes, Continues, Payment
    <3>. QED
      BY <1>7, <2>1, <3>2, <3>3
  <2>. QED
    BY <1>9, <1>10, <2>1 DEF CaptureAnswer
<1>11. CASE VoidAnswer(a)
  <2>1. ASSUME NEW id \in BankIDs, Completing(a, MarkVoided(p, id)) PROVE StoredInv'
    <3>1. operation = "void_payment"
      BY <1>11 DEF VoidAnswer
    <3>2. IsLoadable(MarkVoided(p, id))
      BY <1>1, <1>4, <3>1, MarkLoadable
    <3>3. /\ MarkVoided(p, id).card = p.card
          /\ MarkVoided(p, id).status \in Outcomes(operation)
          /\ Continues(operation, p, MarkVoided(p, id))
      BY <1>1, <3>1 DEF MarkVoided, Outcomes, Continues, Payment
    <3>. QED
      BY <1>7, <2>1, <3>2, <3>3
  <2>. QED
    BY <1>9, <1>11, <2>1 DEF VoidAnswer
<1>12. CASE RefundAnswer(a)
  <2>1. ASSUME NEW id \in BankIDs, Completing(a, MarkRefunded(p, id)) PROVE StoredInv'
    <3>1. operation = "refund_payment"
      BY <1>12 DEF RefundAnswer
    <3>2. IsLoadable(MarkRefunded(p, id))
      BY <1>1, <1>4, <3>1, MarkLoadable
    <3>3. /\ MarkRefunded(p, id).card = p.card
          /\ MarkRefunded(p, id).status \in Outcomes(operation)
          /\ Continues(operation, p, MarkRefunded(p, id))
      BY <1>1, <3>1 DEF MarkRefunded, Outcomes, Continues, Payment
    <3>. QED
      BY <1>7, <2>1, <3>2, <3>3
  <2>. QED
    BY <1>12, <2>1 DEF RefundAnswer
<1>13. CASE BankError(a)
  <2>1. pc' = [pc EXCEPT ![a] = "release"] /\ payment' = payment
    BY <1>13 DEF BankError, GoTo
  <2>. QED
    BY <1>2, <1>5, <1>6, <2>1, StoredLeft
<1>. QED
  BY <1>8, <1>10, <1>11, <1>12, <1>13 DEF BankAnswer

\* Completing writes the copy over a row in the expected status and stores the
\* snapshot in the record of the claim, which names the same payment.
LEMMA StoredComplete ==
    ASSUME TypeInv, ClaimInv, StoredInv, NEW a \in Attempts, Complete(a)
    PROVE  StoredInv'
<1>. DEFINE r == request[a]
            old == idempotencyRecords[Slot(r)]
            record == [old EXCEPT !.status = "completed",
                                  !.failureKind = FailureKind(payment[a]),
                                  !.result = newPaymentResult(paymentID[a], payment[a])]
<1>1. /\ pc[a] = "complete" /\ r \in Requests /\ r.operation \in Operations
      /\ Slot(r) \in Slots /\ old \in Record
  BY RequestFacts DEF Complete, TypeInv, TypeOK, Placed
<1>2. PICK id \in PaymentIDs : id = paymentID[a]
  BY <1>1 DEF TypeInv, Placed
<1>3. PICK q \in Payment : q = payment[a]
  BY DEF TypeInv, TypeOK
<1>4. old.paymentID = id
  BY <1>1, <1>2 DEF Complete, Holds, ClaimInv, HolderHasClaim
<1>5. /\ payments[id] \in Payment /\ payments[id].status # "absent"
      /\ payments[id].status = ExpectedStatus(r.operation)
  BY <1>2 DEF Complete, CompleteError, TypeInv, TypeOK
<1>6. IsLoadable(payments[id])
  BY <1>5 DEF StoredInv, RowsInOrder
<1>7. IsLoadable(q) /\ q.card = payments[id].card /\ q.status \in Outcomes(r.operation)
  BY <1>1, <1>2, <1>3 DEF StoredInv, CopyInv
<1>8. Advances(payments[id], q)
  BY <1>1, <1>5, <1>6, <1>7, OutcomeAdvances
<1>9. /\ payments' = [payments EXCEPT ![id] = q]
      /\ idempotencyRecords' = [idempotencyRecords EXCEPT ![Slot(r)] = record]
      /\ UNCHANGED <<request, paymentID>> /\ \E answer : Return(a, answer)
  BY <1>2, <1>3 DEF Complete, CompletePaymentCommand
<1>10. RowsAdvance /\ RowsInOrder'
  BY <1>7, <1>8, <1>9, RowWritten
<1>11. /\ record.status = "completed" /\ record.paymentID = id
       /\ record.result = [paymentID |-> id, status |-> q.status,
                           declineReason |-> q.declineReason]
  BY <1>1, <1>2, <1>3, <1>4 DEF newPaymentResult, Record
<1>12. record \in Record
  BY <1>1, <1>2, <1>3, AgeFits, RecordTypes
<1>. HIDE DEF record
<1>13. \A s \in Slots : Settles(s)
  <2>1. PICK new \in Record : new = record
    BY <1>12
  <2>2. payments'[id] = q /\ q.status \in PaymentStatus /\ q.status \in Reaches(q.status)
    BY <1>7, <1>9 DEF IsLoadable, StatusPrivateFieldsCheck, Reaches, PaymentStatus, TypeInv, TypeOK
  <2>3. Reached(new)'
    BY <1>11, <2>1, <2>2, SMT DEF Reached
  <2>4. idempotencyRecords'[Slot(r)] = new
    BY <1>1, <1>9, <2>1 DEF TypeInv, TypeOK
  <2>5. Settles(Slot(r))
    BY <1>11, <2>1, <2>3, <2>4 DEF Settles
  <2>6. \A s \in Slots \ {Slot(r)} : Settles(s)
    BY <1>9 DEF TypeInv, TypeOK, Settles
  <2>. QED
    BY <2>5, <2>6
<1>. QED
  BY <1>9, <1>10, <1>13, StoredReturned

\* Every step of the service keeps the tables in order.
LEMMA StoredStep == TypeInv /\ ClaimInv /\ StoredInv /\ [Next]_vars => StoredInv'
<1>. SUFFICES ASSUME TypeInv, ClaimInv, StoredInv, [Next]_vars PROVE StoredInv'
  OBVIOUS
<1>1. ASSUME NEW a \in Attempts,
             \/ \E r \in Requests : Begin(a, r)
             \/ NothingToRecover(a) \/ SlotTaken(a)
      PROVE  StoredInv'
  <2>1. /\ UNCHANGED <<payments, idempotencyRecords, paymentID, payment>>
        /\ \A b \in Attempts \ {a} : request'[b] = request[b]
        /\ \E step \in {"recover", "insert", "select"} : pc' = [pc EXCEPT ![a] = step]
    BY <1>1 DEF Begin, NothingToRecover, SlotTaken, GoTo, storeVars, TypeInv, TypeOK
  <2>2. RowsAdvance /\ RowsInOrder' /\ \A s \in Slots : Settles(s)
    BY <2>1, RowsUnwritten, RecordsUnwritten
  <2>. QED
    BY <2>1, <2>2, StoredLeft
<1>2. ASSUME NEW a \in Attempts,
             \/ RejectRecovery(a) \/ RejectClaim(a) \/ Select(a)
             \/ RejectComplete(a) \/ DatabaseError(a)
      PROVE  StoredInv'
  <2>1. /\ UNCHANGED <<payments, idempotencyRecords, request, paymentID>>
        /\ \E answer : Return(a, answer)
    BY <1>2 DEF RejectRecovery, RejectClaim, Select, RejectComplete, DatabaseError, storeVars
  <2>2. RowsAdvance /\ RowsInOrder' /\ \A s \in Slots : Settles(s)
    BY <2>1, RowsUnwritten, RecordsUnwritten
  <2>. QED
    BY <2>1, <2>2, StoredReturned
<1>3. ASSUME NEW a \in Attempts, Release(a) PROVE StoredInv'
  <2>1. UNCHANGED <<payments, request, paymentID>> /\ \E answer : Return(a, answer)
    BY <1>3 DEF Release, ReleasePaymentCommand
  <2>2. RowsAdvance /\ RowsInOrder'
    BY <2>1, RowsUnwritten
  <2>3. \A s \in Slots : \/ idempotencyRecords'[s] = idempotencyRecords[s]
                         \/ idempotencyRecords'[s] = NoRecord
    BY <1>3 DEF Release, ReleasePaymentCommand, TypeInv, TypeOK
  <2>4. \A s \in Slots : Settles(s)
    BY <2>3, RecordsDeleted
  <2>. QED
    BY <2>1, <2>2, <2>4, StoredReturned
<1>4. ASSUME NEW a \in Attempts, Forget(a) PROVE StoredInv'
  <2>1. /\ UNCHANGED <<payments, idempotencyRecords>> /\ pc' = [pc EXCEPT ![a] = "idle"]
        /\ \A b \in Attempts \ {a} : /\ request'[b] = request[b]
                                     /\ paymentID'[b] = paymentID[b]
                                     /\ payment'[b] = payment[b]
    BY <1>4 DEF Forget, GoTo, storeVars, TypeInv, TypeOK
  <2>2. RowsAdvance /\ RowsInOrder' /\ \A s \in Slots : Settles(s)
    BY <2>1, RowsUnwritten, RecordsUnwritten
  <2>. QED
    BY <2>1, <2>2, StoredLeft
<1>5. CASE Cleanup \/ Tick \/ UNCHANGED vars
  <2>1. UNCHANGED <<payments, pc, request, paymentID, payment>>
    BY <1>5 DEF Cleanup, CleanupCompletedIdempotencyRecords, Tick, StoreTick, attemptVars, vars
  <2>2. RowsAdvance /\ RowsInOrder'
    BY <2>1, RowsUnwritten
  <2>3. \A s \in Slots : Settles(s)
    <3>1. CASE Cleanup
      <4>1. \A s \in Slots : \/ idempotencyRecords'[s] = idempotencyRecords[s]
                             \/ idempotencyRecords'[s] = NoRecord
        BY <3>1 DEF Cleanup, CleanupCompletedIdempotencyRecords
      <4>. QED
        BY <4>1, RecordsDeleted
    <3>2. CASE Tick
      <4>1. ASSUME NEW s \in Slots PROVE Settles(s)
        <5>1. /\ idempotencyRecords[s] \in Record
              /\ idempotencyRecords'[s] = OlderRecord(idempotencyRecords[s])
          BY <3>2 DEF Tick, StoreTick, TypeInv, TypeOK
        <5>2. \A record \in Record : /\ OlderRecord(record).status = record.status
                                     /\ OlderRecord(record).fingerprint = record.fingerprint
                                     /\ OlderRecord(record).paymentID = record.paymentID
                                     /\ OlderRecord(record).result = record.result
          BY DEF OlderRecord, Record
        <5>. QED
          BY <5>1, <5>2 DEF Settles
      <4>. QED
        BY <4>1
    <3>3. CASE UNCHANGED vars
      BY <3>3, RecordsUnwritten DEF vars
    <3>. QED
      BY <1>5, <3>1, <3>2, <3>3
  <2>4. \A a \in Attempts : CopyInv(a)'
    BY <2>1, <2>2, CopyKept DEF StoredInv
  <2>5. ClaimsCommitted' /\ SnapshotsReached'
    BY <2>2, <2>3, RecordsKept
  <2>. QED
    BY <2>2, <2>4, <2>5 DEF StoredInv
<1>. QED
  BY <1>1, <1>2, <1>3, <1>4, <1>5, StoredRecover, StoredAuthorization, StoredClaim,
     StoredAnswer, StoredComplete
     DEF Next, Attempt, Proceed, Respond, Crash

\* The tables are in order in every state of the service.
THEOREM StoredInvariant == Spec => []StoredInv
BY TypeInit, TypeStep, ClaimInit, ClaimStep, StoredInit, StoredStep, PTL DEF Spec

\* Every stored payment passes the CHECK constraint and loads back, whatever
\* stale copies CompletePaymentCommand wrote over the rows.
THEOREM PaymentsLoadable == Spec => []StoredPaymentsLoadable
<1>1. StoredInv => StoredPaymentsLoadable
  BY DEF StoredInv, RowsInOrder, IsLoadable, StoredPaymentsLoadable
<1>. QED
  BY <1>1, StoredInvariant, PTL

\* The snapshot of every completed record is a state its payment was in, and
\* the payment is still there or past it.
THEOREM SnapshotsWereReached == Spec => []SnapshotWasReached
<1>1. StoredInv => SnapshotWasReached
  BY DEF StoredInv, SnapshotsReached, Reached, SnapshotWasReached
<1>. QED
  BY <1>1, StoredInvariant, PTL

\* Whatever left a claim open, findRecoveredPayment and the checks after it let
\* a later attempt take it over, unless another command moved its payment on.
THEOREM ClaimsRecoverable == Spec => []OpenClaimsRecoverable
<1>1. StoredInv => OpenClaimsRecoverable
  <2>. SUFFICES ASSUME StoredInv, NEW r \in Requests,
                       idempotencyRecords[Slot(r)].status = "in_progress",
                       idempotencyRecords[Slot(r)].fingerprint = Fingerprint(r)
                PROVE  RecoveryError(r, idempotencyRecords[Slot(r)])
                           \in {"", "payment_status_conflict"}
    BY DEF OpenClaimsRecoverable
  <2>1. PICK record : record = idempotencyRecords[Slot(r)]
    OBVIOUS
  <2>2. Committed(r, record.paymentID)
    BY <2>1 DEF StoredInv, ClaimsCommitted
  <2>3. payments[record.paymentID].status # "absent"
    BY <2>2 DEF Committed, Reaches, ExpectedStatus, PaymentStatus
  <2>4. RecoveryError(r, record) \in {"", "payment_status_conflict"}
    BY <2>2, <2>3 DEF Committed, RecoveryError
  <2>. QED
    BY <2>1, <2>4
<1>. QED
  BY <1>1, StoredInvariant, PTL

----------------------------------------------------------------------------
(* The payments table implements the lifecycle *)

\* The row p as the lifecycle sees it.
Entry(p) ==
    [status |-> p.status,
     bank |-> [f \in {"authorization", "capture", "void", "refund"} |->
                  CASE f = "authorization" -> p.authorizationID
                    [] f = "capture" -> p.captureID
                    [] f = "void" -> p.voidID
                    [] OTHER -> p.refundID]]

\* Rows that agree on their bank identifiers differ in the status only.
LEMMA EntryMoves ==
    ASSUME NEW p, NEW q, q.authorizationID = p.authorizationID, q.captureID = p.captureID,
           q.voidID = p.voidID, q.refundID = p.refundID
    PROVE  [Entry(p) EXCEPT !.status = q.status] = Entry(q)
<1>1. Entry(q).bank = Entry(p).bank
  BY DEF Entry
<1>2. PICK bank : bank = Entry(p).bank
  OBVIOUS
<1>3. Entry(p) = [status |-> p.status, bank |-> bank] /\ Entry(q) = [status |-> q.status, bank |-> bank]
  BY <1>1, <1>2 DEF Entry
<1>. QED
  BY <1>3, SMT

\* The lifecycle entry after its status and one bank identifier changed.
Moved(entry, status, field, n) == [entry EXCEPT !.status = status, !.bank[field] = n]

\* Rows that agree on all bank identifiers but the one of field differ in the
\* status and in that one.
LEMMA EntryMovesWith ==
    ASSUME NEW p, NEW q, NEW field \in {"authorization", "capture", "void", "refund"},
           field # "authorization" => q.authorizationID = p.authorizationID,
           field # "capture" => q.captureID = p.captureID,
           field # "void" => q.voidID = p.voidID,
           field # "refund" => q.refundID = p.refundID
    PROVE  Moved(Entry(p), q.status, field, Entry(q).bank[field]) = Entry(q)
<1>. DEFINE fields == {"authorization", "capture", "void", "refund"}
            old == Entry(p).bank
            new == Entry(q).bank
<1>1. /\ old = [f \in fields |-> old[f]] /\ new = [f \in fields |-> new[f]]
      /\ \A f \in fields \ {field} : new[f] = old[f]
  BY DEF Entry
<1>2. Entry(p) = [status |-> p.status, bank |-> old] /\ Entry(q) = [status |-> q.status, bank |-> new]
  BY DEF Entry
<1>. HIDE DEF old, new
<1>3. [old EXCEPT ![field] = new[field]] = new
  BY <1>1
<1>4. [Entry(p) EXCEPT !.status = q.status, !.bank[field] = new[field]]
          = [status |-> q.status, bank |-> [old EXCEPT ![field] = new[field]]]
  <2>1. PICK entry : entry = [status |-> p.status, bank |-> old]
    OBVIOUS
  <2>2. PICK n : n = new[field]
    OBVIOUS
  <2>3. PICK moved : moved = [entry EXCEPT !.status = q.status]
    OBVIOUS
  <2>4. moved = [status |-> q.status, bank |-> old]
    BY <2>1, <2>3
  <2>5. [moved EXCEPT !.bank[field] = n]
            = [status |-> q.status, bank |-> [old EXCEPT ![field] = n]]
    BY <2>4, SMT
  <2>6. [entry EXCEPT !.status = q.status, !.bank[field] = n] = [moved EXCEPT !.bank[field] = n]
    BY <2>3
  <2>. QED
    BY <1>2, <2>1, <2>2, <2>5, <2>6
<1>. QED
  BY <1>2, <1>3, <1>4 DEF new, Moved

\* The lifecycle sees the table row by row.
LEMMA LedgerWritten ==
    ASSUME TypeInv, NEW id \in PaymentIDs, NEW q \in Payment,
           payments' = [payments EXCEPT ![id] = q]
    PROVE  /\ Ledger[id] = Entry(payments[id])
           /\ Ledger' = [Ledger EXCEPT ![id] = Entry(q)]
<1>1. Ledger = [i \in PaymentIDs |-> Entry(payments[i])]
  BY DEF Ledger, Entry
<1>2. Ledger' = [i \in PaymentIDs |-> Entry(payments'[i])]
  BY DEF Ledger, Entry
<1>3. payments'[id] = q /\ \A i \in PaymentIDs \ {id} : payments'[i] = payments[i]
  BY DEF TypeInv, TypeOK
<1>. QED
  BY <1>1, <1>2, <1>3, SMT

\* A row that changes nothing the lifecycle sees leaves the lifecycle alone.
LEMMA LedgerKept ==
    ASSUME TypeInv, NEW id \in PaymentIDs, NEW q \in Payment,
           payments' = [payments EXCEPT ![id] = q], q.status = payments[id].status,
           q.authorizationID = payments[id].authorizationID,
           q.captureID = payments[id].captureID,
           q.voidID = payments[id].voidID, q.refundID = payments[id].refundID
    PROVE  Ledger' = Ledger
<1>1. Entry(q) = Entry(payments[id])
  BY DEF Entry
<1>2. Ledger = [i \in PaymentIDs |-> Entry(payments[i])]
  BY DEF Ledger, Entry
<1>. QED
  BY <1>1, <1>2, LedgerWritten

\* A row that changes its status only makes a Move of the lifecycle.
LEMMA LedgerMoves ==
    ASSUME TypeInv, NEW id \in PaymentIDs, NEW q \in Payment,
           payments' = [payments EXCEPT ![id] = q],
           q.authorizationID = payments[id].authorizationID,
           q.captureID = payments[id].captureID,
           q.voidID = payments[id].voidID, q.refundID = payments[id].refundID
    PROVE  Lifecycle!Move(id, payments[id].status, q.status)
<1>1. [Entry(payments[id]) EXCEPT !.status = q.status] = Entry(q)
  BY EntryMoves
<1>2. Ledger[id] = Entry(payments[id]) /\ Ledger' = [Ledger EXCEPT ![id] = Entry(q)]
  BY LedgerWritten
<1>3. Ledger[id].status = payments[id].status
  BY <1>2, SMT DEF Entry
<1>4. Ledger' = [Ledger EXCEPT ![id].status = q.status]
  BY <1>1, <1>2
<1>. QED
  BY <1>3, <1>4 DEF Lifecycle!Move

\* A row that gains one bank identifier with its status makes a MoveWith.
LEMMA LedgerMovesWith ==
    ASSUME TypeInv, NEW id \in PaymentIDs, NEW q \in Payment,
           payments' = [payments EXCEPT ![id] = q],
           NEW field \in {"authorization", "capture", "void", "refund"},
           field # "authorization" => q.authorizationID = payments[id].authorizationID,
           field # "capture" => q.captureID = payments[id].captureID,
           field # "void" => q.voidID = payments[id].voidID,
           field # "refund" => q.refundID = payments[id].refundID,
           Entry(payments[id]).bank[field] = 0, Entry(q).bank[field] \in BankIDs
    PROVE  Lifecycle!MoveWith(id, payments[id].status, q.status, field)
<1>1. PICK n \in BankIDs : n = Entry(q).bank[field]
  OBVIOUS
<1>2. Moved(Entry(payments[id]), q.status, field, n) = Entry(q)
  <2>1. PICK p : p = payments[id]
    OBVIOUS
  <2>2. /\ field # "authorization" => q.authorizationID = p.authorizationID
        /\ field # "capture" => q.captureID = p.captureID
        /\ field # "void" => q.voidID = p.voidID
        /\ field # "refund" => q.refundID = p.refundID
    BY <2>1
  <2>3. Moved(Entry(p), q.status, field, Entry(q).bank[field]) = Entry(q)
    BY <2>2, EntryMovesWith
  <2>. QED
    BY <1>1, <2>1, <2>3
<1>3. Ledger[id] = Entry(payments[id]) /\ Ledger' = [Ledger EXCEPT ![id] = Entry(q)]
  BY LedgerWritten
<1>4. Ledger[id].status = payments[id].status /\ Ledger[id].bank[field] = 0
  BY <1>3, SMT DEF Entry
<1>5. Ledger' = [Ledger EXCEPT ![id] = [@ EXCEPT !.status = q.status, !.bank[field] = n]]
  BY <1>2, <1>3 DEF Moved
<1>. QED
  BY <1>4, <1>5 DEF Lifecycle!MoveWith

\* An empty table is an empty ledger.
LEMMA LifecycleInit == Init => Lifecycle!Init
<1>. SUFFICES ASSUME Init PROVE Lifecycle!Init
  OBVIOUS
<1>1. Entry(NoPayment) = Lifecycle!Unborn
  BY DEF Entry, NoPayment, Lifecycle!Unborn, Lifecycle!Fields
<1>2. Ledger = [id \in PaymentIDs |-> Entry(NoPayment)]
  BY DEF Init, StoreInit, Ledger, Entry
<1>. QED
  BY <1>1, <1>2 DEF Lifecycle!Init

\* Completing a command takes the payment one step along the lifecycle, or
\* leaves a pending payment as it was.
LEMMA LifecycleComplete ==
    ASSUME TypeInv, StoredInv, NEW a \in Attempts, Complete(a)
    PROVE  Lifecycle!Next \/ Ledger' = Ledger
<1>. DEFINE operation == request[a].operation
<1>1. /\ pc[a] = "complete" /\ request[a] \in Requests /\ operation \in Operations
  BY RequestFacts DEF Complete, TypeInv, TypeOK, Placed
<1>2. PICK id \in PaymentIDs : id = paymentID[a]
  BY <1>1 DEF TypeInv, Placed
<1>3. PICK q \in Payment : q = payment[a]
  BY DEF TypeInv, TypeOK
<1>4. PICK p \in Payment : p = payments[id]
  BY DEF TypeInv, TypeOK
<1>5. p.status # "absent" /\ p.status = ExpectedStatus(operation)
  BY <1>2, <1>4 DEF Complete, CompleteError
<1>6. IsLoadable(p)
  BY <1>4, <1>5 DEF StoredInv, RowsInOrder
<1>7. IsLoadable(q) /\ q.status \in Outcomes(operation) /\ Continues(operation, p, q)
  BY <1>1, <1>2, <1>3, <1>4, <1>5 DEF StoredInv, CopyInv
<1>8. payments' = [payments EXCEPT ![id] = q]
  BY <1>2, <1>3 DEF Complete, CompletePaymentCommand
<1>9. \A n \in BankID : n # 0 => n \in BankIDs
  BY DEF BankID
<1>10. /\ q.authorizationID \in BankID /\ q.captureID \in BankID
       /\ q.voidID \in BankID /\ q.refundID \in BankID
  BY DEF Payment
<1>11. \A x : /\ Entry(x).bank["authorization"] = x.authorizationID
              /\ Entry(x).bank["capture"] = x.captureID
              /\ Entry(x).bank["void"] = x.voidID
              /\ Entry(x).bank["refund"] = x.refundID
  BY DEF Entry
<1>12. CASE operation \in {"authorize_payment", "retry_authorization"}
  <2>1. /\ p.status = "pending" /\ q.status \in {"pending", "authorized", "declined"}
        /\ p.authorizationID = 0
    BY <1>5, <1>6, <1>7, <1>12 DEF ExpectedStatus, Outcomes, IsLoadable, LoadPayment
  <2>2. /\ p.captureID = 0 /\ p.voidID = 0 /\ p.refundID = 0
        /\ q.captureID = 0 /\ q.voidID = 0 /\ q.refundID = 0
    BY <1>6, <1>7, <2>1 DEF IsLoadable, LoadPayment
  <2>3. CASE q.status \in {"pending", "declined"}
    <3>1. q.authorizationID = 0
      BY <1>7, <2>3 DEF IsLoadable, LoadPayment
    <3>2. Lifecycle!Move(id, p.status, q.status)
      BY <1>4, <1>8, <2>1, <2>2, <3>1, LedgerMoves
    <3>3. q.status = "pending" => Ledger' = Ledger
      BY <1>4, <1>8, <2>1, <2>2, <3>1, LedgerKept
    <3>4. q.status = "declined" => Lifecycle!Decline(id)
      BY <2>1, <3>2 DEF Lifecycle!Decline
    <3>. QED
      BY <2>3, <3>3, <3>4 DEF Lifecycle!Next
  <2>4. CASE q.status = "authorized"
    <3>1. q.authorizationID \in BankIDs
      BY <1>7, <1>9, <1>10, <2>4 DEF IsLoadable, StatusPrivateFieldsCheck
    <3>2. Lifecycle!MoveWith(id, p.status, q.status, "authorization")
      BY <1>4, <1>8, <1>11, <2>1, <2>2, <3>1, LedgerMovesWith
    <3>3. Lifecycle!Authorize(id)
      BY <2>1, <2>4, <3>2 DEF Lifecycle!Authorize
    <3>. QED
      BY <3>3 DEF Lifecycle!Next
  <2>. QED
    BY <2>1, <2>3, <2>4
<1>13. CASE operation \in {"capture_payment", "void_payment"}
  <2>1. /\ p.status = "authorized" /\ q.status \in {"captured", "voided", "expired"}
        /\ q.authorizationID = p.authorizationID
    BY <1>5, <1>7, <1>13 DEF ExpectedStatus, Outcomes, Continues
  <2>2. /\ p.captureID = 0 /\ p.voidID = 0 /\ p.refundID = 0 /\ q.refundID = 0
    BY <1>6, <1>7, <2>1 DEF IsLoadable, LoadPayment
  <2>3. CASE q.status = "captured"
    <3>1. q.captureID # 0 /\ q.voidID = 0
      BY <1>7, <2>3 DEF IsLoadable, LoadPayment
    <3>2. Lifecycle!MoveWith(id, p.status, q.status, "capture")
      BY <1>4, <1>8, <1>9, <1>10, <1>11, <2>1, <2>2, <3>1, LedgerMovesWith
    <3>3. Lifecycle!Capture(id)
      BY <2>1, <2>3, <3>2 DEF Lifecycle!Capture
    <3>. QED
      BY <3>3 DEF Lifecycle!Next
  <2>4. CASE q.status = "voided"
    <3>1. q.voidID # 0 /\ q.captureID = 0
      BY <1>7, <2>4 DEF IsLoadable, LoadPayment
    <3>2. Lifecycle!MoveWith(id, p.status, q.status, "void")
      BY <1>4, <1>8, <1>9, <1>10, <1>11, <2>1, <2>2, <3>1, LedgerMovesWith
    <3>3. Lifecycle!Void(id)
      BY <2>1, <2>4, <3>2 DEF Lifecycle!Void
    <3>. QED
      BY <3>3 DEF Lifecycle!Next
  <2>5. CASE q.status = "expired"
    <3>1. q.voidID = 0 /\ q.captureID = 0
      BY <1>7, <2>5 DEF IsLoadable, LoadPayment
    <3>2. Lifecycle!Move(id, p.status, q.status)
      BY <1>4, <1>8, <2>1, <2>2, <3>1, LedgerMoves
    <3>3. Lifecycle!Expire(id)
      BY <2>1, <2>5, <3>2 DEF Lifecycle!Expire
    <3>. QED
      BY <3>3 DEF Lifecycle!Next
  <2>. QED
    BY <2>1, <2>3, <2>4, <2>5
<1>14. CASE operation = "refund_payment"
  <2>1. /\ p.status = "captured" /\ q.status = "refunded"
        /\ q.authorizationID = p.authorizationID /\ q.captureID = p.captureID
    BY <1>5, <1>7, <1>14 DEF ExpectedStatus, Outcomes, Continues
  <2>2. p.voidID = 0 /\ q.voidID = 0 /\ p.refundID = 0 /\ q.refundID # 0
    BY <1>6, <1>7, <2>1 DEF IsLoadable, LoadPayment
  <2>3. Lifecycle!MoveWith(id, p.status, q.status, "refund")
    BY <1>4, <1>8, <1>9, <1>10, <1>11, <2>1, <2>2, LedgerMovesWith
  <2>4. Lifecycle!Refund(id)
    BY <2>1, <2>3 DEF Lifecycle!Refund
  <2>. QED
    BY <2>4 DEF Lifecycle!Next
<1>. QED
  BY <1>1, <1>12, <1>13, <1>14 DEF Operations

\* Every step of the service is a step of the lifecycle or leaves it alone.
LEMMA LifecycleStep ==
    TypeInv /\ StoredInv /\ [Next]_vars => [Lifecycle!Next]_Ledger
<1>. SUFFICES ASSUME TypeInv, StoredInv, [Next]_vars
              PROVE  Lifecycle!Next \/ Ledger' = Ledger
  OBVIOUS
<1>1. CASE payments' = payments
  BY <1>1 DEF Ledger
<1>2. ASSUME NEW a \in Attempts, NEW id \in PaymentIDs, StartAuthorization(a, id)
      PROVE  Lifecycle!Next
  <2>1. PICK p \in Payment : p = NewPendingPayment(nextBankOperationKey, request[a].card)
    <3>1. request[a] \in Requests /\ nextBankOperationKey \in Nat
      BY <1>2 DEF StartAuthorization, TypeInv, TypeOK, Placed
    <3>. QED
      BY <3>1, RequestFacts DEF NewPendingPayment, NoPayment, Payment, Key, BankID, PaymentStatus
  <2>2. /\ p.status = "pending" /\ p.authorizationID = 0 /\ p.captureID = 0
        /\ p.voidID = 0 /\ p.refundID = 0
    BY <2>1 DEF NewPendingPayment, NoPayment
  <2>3. payments' = [payments EXCEPT ![id] = p] /\ payments[id].status = "absent"
    BY <1>2, <2>1 DEF StartAuthorization, InsertAuthorization
  <2>4. /\ payments[id].authorizationID = 0 /\ payments[id].captureID = 0
        /\ payments[id].voidID = 0 /\ payments[id].refundID = 0
    <3>1. payments[id] = NoPayment
      BY <2>3 DEF StoredInv, RowsInOrder
    <3>2. /\ NoPayment.authorizationID = 0 /\ NoPayment.captureID = 0
          /\ NoPayment.voidID = 0 /\ NoPayment.refundID = 0
      BY DEF NoPayment
    <3>. QED
      BY <3>1, <3>2
  <2>5. Lifecycle!Move(id, payments[id].status, p.status)
    BY <2>2, <2>3, <2>4, LedgerMoves
  <2>6. Lifecycle!Start(id)
    BY <2>2, <2>3, <2>5 DEF Lifecycle!Start
  <2>. QED
    BY <2>6 DEF Lifecycle!Next
<1>3. ASSUME NEW a \in Attempts, ClaimPayment(a) PROVE Ledger' = Ledger
  <2>. DEFINE r == request[a]
              q == ensureBankOperationKey(r.operation, payments[r.paymentID],
                                          nextBankOperationKey)
  <2>1. r \in Requests /\ r.operation \in Operations /\ r.paymentID \in PaymentIDs
    BY <1>3, RequestFacts DEF ClaimPayment, TypeInv, Placed
  <2>2. PICK id \in PaymentIDs : id = r.paymentID
    BY <2>1
  <2>3. payments[id] \in Payment /\ nextBankOperationKey \in Nat
    BY DEF TypeInv, TypeOK
  <2>4. q \in Payment
    BY <2>1, <2>2, <2>3, EnsureKeyTypes
  <2>5. /\ q.status = payments[id].status
        /\ q.authorizationID = payments[id].authorizationID
        /\ q.captureID = payments[id].captureID
        /\ q.voidID = payments[id].voidID /\ q.refundID = payments[id].refundID
    BY <2>1, <2>2, <2>3
       DEF ensureBankOperationKey, SetCaptureBankOperationKey, SetVoidBankOperationKey,
           SetRefundBankOperationKey, Payment
  <2>6. payments' = [payments EXCEPT ![id] = q]
    BY <1>3, <2>2 DEF ClaimPayment, InsertClaim
  <2>. HIDE DEF q
  <2>. QED
    BY <2>4, <2>5, <2>6, LedgerKept
<1>4. ASSUME NEW a \in Attempts,
             \/ \E r \in Requests : Begin(a, r)
             \/ Recover(a) \/ RejectRecovery(a) \/ NothingToRecover(a) \/ RejectClaim(a)
             \/ SlotTaken(a) \/ Select(a) \/ BankAnswer(a) \/ RejectComplete(a)
             \/ Release(a) \/ DatabaseError(a) \/ Forget(a)
      PROVE  payments' = payments
  BY <1>4 DEF Begin, Recover, RecoverClaim, RejectRecovery, NothingToRecover, RejectClaim,
              SlotTaken, Select, BankAnswer, RejectComplete, Release, ReleasePaymentCommand,
              DatabaseError, Forget, storeVars
<1>5. CASE Cleanup \/ Tick \/ UNCHANGED vars
  BY <1>1, <1>5 DEF Cleanup, CleanupCompletedIdempotencyRecords, Tick, StoreTick, vars
<1>. QED
  BY <1>1, <1>2, <1>3, <1>4, <1>5, LifecycleComplete
     DEF Next, Attempt, Proceed, Respond, Crash

\* The service implements PaymentLifecycle: no interleaving of commands,
\* recoveries and crashes moves a stored payment off the graph or drops or
\* replaces one of its bank identifiers.
THEOREM ServiceImplementsLifecycle == Spec => ImplementsLifecycle
BY StoredInvariant, TypeInit, TypeStep, LifecycleInit, LifecycleStep, PTL
   DEF Spec, ImplementsLifecycle, Lifecycle!Spec
=============================================================================
