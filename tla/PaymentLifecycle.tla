-------------------------- MODULE PaymentLifecycle --------------------------
(***************************************************************************)
(* What the gateway promises about a payment, whatever callers send and    *)
(* whatever fails: it moves along the documented statuses, one step at a   *)
(* time, and a bank identifier once recorded is never lost or replaced.    *)
(* The graph is the one the status guards of the domain methods allow.     *)
(***************************************************************************)
EXTENDS Naturals

CONSTANTS PaymentIDs, BankIDs

VARIABLE ledger  \* the status and the bank identifiers of every payment

Fields == {"authorization", "capture", "void", "refund"}

Unborn == [status |-> "absent", bank |-> [f \in Fields |-> 0]]

Init == ledger = [id \in PaymentIDs |-> Unborn]

\* The payment leaves one status for another and keeps its bank identifiers.
Move(id, from, to) ==
    /\ ledger[id].status = from
    /\ ledger' = [ledger EXCEPT ![id].status = to]

\* The same, recording the bank's identifier of the operation that moved it.
MoveWith(id, from, to, field) ==
    /\ ledger[id].status = from
    /\ ledger[id].bank[field] = 0
    /\ \E n \in BankIDs :
          ledger' = [ledger EXCEPT ![id] = [@ EXCEPT !.status = to, !.bank[field] = n]]

Start(id) == Move(id, "absent", "pending")
Authorize(id) == MoveWith(id, "pending", "authorized", "authorization")
Decline(id) == Move(id, "pending", "declined")
Expire(id) == Move(id, "authorized", "expired")
Capture(id) == MoveWith(id, "authorized", "captured", "capture")
Void(id) == MoveWith(id, "authorized", "voided", "void")
Refund(id) == MoveWith(id, "captured", "refunded", "refund")

Next == \E id \in PaymentIDs :
            \/ Start(id) \/ Authorize(id) \/ Decline(id) \/ Expire(id)
            \/ Capture(id) \/ Void(id) \/ Refund(id)

Spec == Init /\ [][Next]_ledger
=============================================================================
