----------------------------- MODULE BankLedger -----------------------------
(***************************************************************************)
(* What the mock bank promises its callers: a ledger to which each accepted*)
(* request adds one entry in one step, and the responses it remembers.     *)
(* MockBank implements it with row locks, a unique index and transactions; *)
(* GatewayBank puts it behind the payment service.                         *)
(***************************************************************************)
EXTENDS Naturals, Sequences

CONSTANT Keyed   \* keys requests may bring, each with the path it is used on

VARIABLES ledger,   \* the entries, each with the key and path it was made under
          cached,   \* entries whose response is remembered
          refused   \* holds whose capture was refused because they expired

ledgerVars == <<ledger, cached, refused>>

Init == ledger = <<>> /\ cached = {} /\ refused = {}

IsActiveHold(id) ==
    id \in DOMAIN ledger /\ ledger[id].type = "AUTH_HOLD" /\ ledger[id].status = "ACTIVE"

Add(entries, type, slot, reference, status) ==
    ledger' = Append(entries, [type |-> type, reference |-> reference,
                               status |-> status, slot |-> slot])

Hold(slot) ==
    /\ slot[2] = "authorizations"
    /\ Add(ledger, "AUTH_HOLD", slot, 0, "ACTIVE")

\* Mutant of Settle: a hold refused as expired can still be captured.
SettleIgnoringExpiry(slot, reference) ==
    /\ IsActiveHold(reference)
    /\ LET settled == [ledger EXCEPT ![reference].status = "COMPLETED"] IN
       \/ slot[2] = "voids" /\ Add(settled, "VOID", slot, reference, "COMPLETED")
       \/ slot[2] = "captures" /\ Add(settled, "CAPTURE", slot, reference, "COMPLETED")

\* A hold is settled once, and not captured once it was refused as expired.
Settle(slot, reference) ==
    /\ IsActiveHold(reference)
    /\ LET settled == [ledger EXCEPT ![reference].status = "COMPLETED"] IN
       \/ slot[2] = "voids" /\ Add(settled, "VOID", slot, reference, "COMPLETED")
       \/ /\ slot[2] = "captures" /\ reference \notin refused
          /\ Add(settled, "CAPTURE", slot, reference, "COMPLETED")

\* A capture is refunded once.
Refund(slot, reference) ==
    /\ slot[2] = "refunds"
    /\ reference \in DOMAIN ledger /\ ledger[reference].type = "CAPTURE"
    /\ \A i \in DOMAIN ledger : ledger[i].type = "REFUND" => ledger[i].reference # reference
    /\ Add(ledger, "REFUND", slot, reference, "COMPLETED")

Perform(slot, reference) ==
    Hold(slot) \/ Settle(slot, reference) \/ Refund(slot, reference)

RefuseExpired(reference) ==
    /\ IsActiveHold(reference)
    /\ refused' = refused \cup {reference}

\* A response is remembered unless one of the same key and path is.
Remember(id) ==
    /\ id \in DOMAIN ledger
    /\ \A i \in cached : ledger[i].slot # ledger[id].slot
    /\ cached' = cached \cup {id}

Next ==
    \/ \E slot \in Keyed : \E reference \in {0} \cup DOMAIN ledger :
          Perform(slot, reference) /\ UNCHANGED <<cached, refused>>
    \/ \E id \in DOMAIN ledger : RefuseExpired(id) /\ UNCHANGED <<ledger, cached>>
    \/ \E id \in DOMAIN ledger : Remember(id) /\ UNCHANGED <<ledger, refused>>
    \/ cached' \in SUBSET cached /\ UNCHANGED <<ledger, refused>>

Spec == Init /\ [][Next]_ledgerVars
=============================================================================
