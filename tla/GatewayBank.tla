---------------------------- MODULE GatewayBank ----------------------------
(***************************************************************************)
(* The payment service composed with the bank, seen as a BankLedger: what  *)
(* the bank really did against what the gateway says of the payment.  A    *)
(* request of the service, once sent, may be carried out at any later time *)
(* and more than once (the adapter tries twice, an attempt that gave up or *)
(* crashed leaves its call behind), and its answer may be lost.            *)
(***************************************************************************)
EXTENDS PaymentService, Sequences, FiniteSets

CONSTANTS MaxHolds,   \* bound: authorizations the bank carries out
          BankLapses  \* subset of {"cache", "expiry"}: the bank may fail to
                      \* remember a response, a hold may expire

ASSUME BankLapsesAssumption == BankLapses \subseteq {"cache", "expiry"}

VARIABLES ledger, cached, refused

bankVars == <<ledger, cached, refused>>
gatewayBankVars == <<vars, bankVars>>

Paths == [authorize |-> "authorizations", capture |-> "captures",
          void |-> "voids", refund |-> "refunds"]
BankKeys == 1..Cardinality(PaymentIDs) * Cardinality(BankOperations)

Bank == INSTANCE BankLedger WITH
    Keyed <- {<<key, Paths[b]>> : key \in BankKeys, b \in BankOperations}

GatewayBankInit == Init /\ Bank!Init

----------------------------------------------------------------------------
(* What the service asks of the bank *)

\* The bank identifier that goes with an operation on a payment.
Reference(operation, p) ==
    CASE operation = "authorize" -> 0
      [] operation = "refund" -> p.captureID
      [] OTHER -> p.authorizationID

BankCall(id, b, key) == [slot |-> <<key, Paths[b]>>, reference |-> Reference(b, payments[id])]

\* Everything sent so far.
Sent == UNION {{BankCall(id, b, key) : key \in called[id][b]} :
                  id \in PaymentIDs, b \in BankOperations}

CallOf(a) ==
    LET operation == request[a].operation IN
    BankCall(paymentID[a], BankOperation(operation), BankOperationKey(operation, payment[a]))

HoldsUnder(slot) == {i \in DOMAIN ledger : ledger[i].slot = slot}
MayPerform(call) ==
    call.slot[2] = "authorizations" => Cardinality(HoldsUnder(call.slot)) < MaxHolds

\* The bank carries out a request and remembers its response, which is id.
CarryOut(call, id) ==
    /\ MayPerform(call)
    /\ Bank!Perform(call.slot, call.reference)
    /\ id = Len(ledger')
    /\ cached' = IF \E i \in cached : ledger[i].slot = call.slot
                 THEN cached ELSE cached \cup {id}
    /\ UNCHANGED refused

\* The answer is success: the request is carried out now, or was and is remembered.
Succeeds(call, id) ==
    \/ CarryOut(call, id)
    \/ /\ id \in cached /\ ledger[id].slot = call.slot
       /\ UNCHANGED bankVars

Marked(operation, p, id) ==
    CASE operation = "capture" -> MarkCaptured(p, id)
      [] operation = "void" -> MarkVoided(p, id)
      [] operation = "refund" -> MarkRefunded(p, id)
      [] OTHER -> MarkAuthorized(p, id)

----------------------------------------------------------------------------
(* Steps of both *)

SuccessAnswer(a) ==
    /\ BankAnswer(a)
    /\ \E id \in BankIDs :
          /\ Succeeds(CallOf(a), id)
          /\ Completing(a, Marked(BankOperation(request[a].operation), payment[a], id))

\* Only a capture looks at the expiry of the hold.
ExpiredAnswer(a) ==
    /\ "expiry" \in BankLapses
    /\ request[a].operation = "capture_payment"
    /\ BankAnswer(a)
    /\ Completing(a, MarkExpired(payment[a]))
    /\ Bank!RefuseExpired(payment[a].authorizationID)
    /\ UNCHANGED <<ledger, cached>>

\* A decline, a refusal, or no answer that can be used.
OtherAnswer(a) ==
    /\ BankAnswer(a)
    /\ pc'[a] = "release" \/ payment'[a].status \in {"pending", "declined"}
    /\ UNCHANGED bankVars

AnswerFromBank(a) == SuccessAnswer(a) \/ ExpiredAnswer(a) \/ OtherAnswer(a)

\* A request nobody waits for any more is carried out.
LateCall ==
    /\ \E call \in Sent, id \in BankIDs : CarryOut(call, id)
    /\ UNCHANGED vars

\* A response is cleaned up, or could not be stored in the first place.
ForgetResponse ==
    /\ "cache" \in BankLapses
    /\ \E id \in cached : cached' = cached \ {id}
    /\ UNCHANGED <<vars, ledger, refused>>

\* A step of the service in which nothing is heard from the bank.
Service(Step) ==
    /\ Step
    /\ \A a \in Attempts : pc[a] = "bank" => pc'[a] \in {"bank", "idle"}
    /\ UNCHANGED bankVars

GatewayBankNext ==
    \/ Service(Next)
    \/ \E a \in Attempts : AnswerFromBank(a)
    \/ LateCall
    \/ ForgetResponse

GatewayBankSpec == GatewayBankInit /\ [][GatewayBankNext]_gatewayBankVars

\* An attempt at r is through before its deadline, and not for a database error.
InTime(r) ==
    \E a \in Attempts :
        request[a] = r /\ pc[a] = "respond" /\ Live(a) /\ reply[a].error # "internal"

\* An authorization is not repeated as a new payment: there is an identifier
\* for it, or its record is still there.
Servable(r) ==
    r.operation = "authorize_payment" =>
        \/ \E id \in PaymentIDs : payments[id].status = "absent"
        \/ idempotencyRecords[Slot(r)].status # "absent"

\* Callers keep sending every request and are answered in time now and then;
\* and neither a recovery, nor the bank's verdict, nor the transaction that
\* completes with it misses the deadline of the attempt or fails every time.
GatewayBankFairness ==
    /\ WF_gatewayBankVars(Service(Tick))
    /\ \A r \in Requests :
          /\ []<>(Servable(r) => InTime(r))
          /\ \A a \in Attempts :
                /\ SF_gatewayBankVars(request[a] = r /\ Service(Recover(a) /\ pc'[a] = "bank"))
                /\ SF_gatewayBankVars(request[a] = r /\ Live(a) /\ (SuccessAnswer(a) \/ ExpiredAnswer(a)))
                /\ SF_gatewayBankVars(request[a] = r /\ Service(Complete(a)))

FairGatewayBankSpec == GatewayBankSpec /\ GatewayBankFairness

----------------------------------------------------------------------------
(* Properties *)

\* The entry id is what the bank made of operation b on the payment under key.
IsEntry(id, key, b, reference) ==
    /\ id \in DOMAIN ledger
    /\ ledger[id].slot = <<key, Paths[b]>>
    /\ ledger[id].reference = reference

\* Every bank identifier the gateway records is an entry the bank made under
\* the payment's own key, about the payment's own authorization or capture.
MoneyAgrees ==
    \A p \in {payments[id] : id \in PaymentIDs} :
        /\ p.authorizationID # 0 => IsEntry(p.authorizationID, p.authorizationKey, "authorize", 0)
        /\ p.captureID # 0 => IsEntry(p.captureID, p.captureKey, "capture", p.authorizationID)
        /\ p.voidID # 0 => IsEntry(p.voidID, p.voidKey, "void", p.authorizationID)
        /\ p.refundID # 0 => IsEntry(p.refundID, p.refundKey, "refund", p.captureID)

\* The captures the bank made of the holds of p, those the gateway never heard
\* of included.
TakenFor(p) ==
    {i \in DOMAIN ledger :
        /\ ledger[i].type = "CAPTURE"
        /\ ledger[ledger[i].reference].slot = <<p.authorizationKey, Paths["authorize"]>>}

\* Behind a payment the gateway calls pending, declined, voided or expired the
\* bank has not taken money and does not later, whatever requests are still on
\* their way to it.
NothingTaken ==
    \A p \in {payments[id] : id \in PaymentIDs} :
        p.status \in {"pending", "declined", "voided", "expired"} => TakenFor(p) = {}

\* A capture the bank made is finally known to the gateway, through crashes,
\* missed deadlines and lost answers, while callers keep asking and the bank
\* remembers its responses.
CaptureLearned ==
    \A id \in PaymentIDs :
        TakenFor(payments[id]) # {} ~> payments[id].status \in {"captured", "refunded"}
=============================================================================
