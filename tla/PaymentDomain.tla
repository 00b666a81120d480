--------------------------- MODULE PaymentDomain ---------------------------
(***************************************************************************)
(* The Payment aggregate of gateway/internal/domain/payment.go: what a     *)
(* payment row holds, the methods that change it, and the two conditions   *)
(* a stored row must meet (LoadPayment in Go, the CHECK constraint in      *)
(* SQL).  Everything here is a constant-level operator.  The status a      *)
(* transition starts from is a guard of the action that applies it.        *)
(*                                                                         *)
(* Bank operation keys and bank identifiers are natural numbers and 0 is   *)
(* the empty string / NULL.  Customer, order, amount and timestamps never  *)
(* decide a transition and are left out.  authorization_expires_at is set, *)
(* cleared and tested together with bank_authorization_id everywhere, so   *)
(* authorizationID stands for both.                                        *)
(***************************************************************************)
EXTENDS Naturals

CONSTANTS PaymentIDs,   \* identifiers payments may be given
          Cards,        \* card fingerprints
          BankIDs       \* identifiers the bank may return

ASSUME PaymentIDsAssumption == "" \notin PaymentIDs
ASSUME CardsAssumption == "" \notin Cards
ASSUME BankIDsAssumption == BankIDs \subseteq Nat \ {0}

PaymentStatus == {"pending", "authorized", "expired", "declined",
                  "captured", "voided", "refunded"}

DeclineReason == {"insufficient_funds", "invalid_card", "expired_card", "unknown"}

Key == Nat
BankID == BankIDs \cup {0}

\* A row of the payments table; status "absent" stands for no row.
Payment == [status          : PaymentStatus \cup {"absent"},
            card            : Cards \cup {""},
            authorizationKey : Key,
            authorizationID : BankID,
            captureKey      : Key,
            captureID       : BankID,
            refundKey       : Key,
            refundID        : BankID,
            voidKey         : Key,
            voidID          : BankID,
            declineReason   : DeclineReason \cup {""}]

NoPayment == [status |-> "absent", card |-> "",
              authorizationKey |-> 0, authorizationID |-> 0,
              captureKey |-> 0, captureID |-> 0,
              refundKey |-> 0, refundID |-> 0,
              voidKey |-> 0, voidID |-> 0, declineReason |-> ""]

----------------------------------------------------------------------------
(* Construction and transitions *)

NewPendingPayment(key, card) ==
    [NoPayment EXCEPT !.status = "pending", !.authorizationKey = key, !.card = card]

MarkAuthorized(p, id) ==
    [p EXCEPT !.status = "authorized", !.authorizationID = id, !.declineReason = ""]

MarkDeclined(p, reason) ==
    [p EXCEPT !.status = "declined", !.authorizationID = 0, !.declineReason = reason]

\* Mutant of MarkExpired: the failure kind is taken for the status.
MarkExpiredAsFailureKind(p) ==
    [p EXCEPT !.status = "authorization_expired", !.captureKey = 0, !.voidKey = 0]

MarkExpired(p) ==
    [p EXCEPT !.status = "expired", !.captureKey = 0, !.voidKey = 0]

\* Mutant of MarkCaptured: the void key of a void that lost the race stays.
MarkCapturedKeepingVoidKey(p, id) ==
    [p EXCEPT !.status = "captured", !.captureID = id]

MarkCaptured(p, id) ==
    [p EXCEPT !.status = "captured", !.captureID = id, !.voidKey = 0]

MarkVoided(p, id) ==
    [p EXCEPT !.status = "voided", !.voidID = id, !.captureKey = 0,
              !.declineReason = ""]

MarkRefunded(p, id) ==
    [p EXCEPT !.status = "refunded", !.refundID = id]

SetCaptureBankOperationKey(p, key) == [p EXCEPT !.captureKey = key]
SetVoidBankOperationKey(p, key) == [p EXCEPT !.voidKey = key]
SetRefundBankOperationKey(p, key) == [p EXCEPT !.refundKey = key]

----------------------------------------------------------------------------
(* What a row must look like *)

\* LoadPayment accepts the row: scanning it back yields a payment, not an error.
LoadPayment(p) ==
    /\ p.authorizationKey # 0
    /\ p.card # ""
    /\ p.status # "declined" => p.declineReason = ""
    /\ p.status \in {"pending", "declined"} => p.authorizationID = 0
    /\ p.status \in {"captured", "refunded"} <=> p.captureID # 0
    /\ p.status \in {"captured", "refunded"} => p.captureKey # 0
    /\ p.status \in {"pending", "expired", "declined", "voided"} => p.captureKey = 0
    /\ p.status = "refunded" <=> p.refundID # 0
    /\ p.status = "refunded" => p.refundKey # 0
    /\ p.status \notin {"captured", "refunded"} => p.refundKey = 0
    /\ p.status = "voided" <=> p.voidID # 0
    /\ p.status = "voided" => p.voidKey # 0
    /\ p.status \notin {"authorized", "voided"} => p.voidKey = 0

\* payments_status_private_fields_check: PostgreSQL accepts the row.  It asks
\* for an authorization where LoadPayment does not, and for a decline reason.
StatusPrivateFieldsCheck(p) ==
    /\ p.status \in PaymentStatus
    /\ p.status \notin {"pending", "declined"} <=> p.authorizationID # 0
    /\ p.status = "declined" <=> p.declineReason # ""
    /\ p.status \in {"captured", "refunded"} <=> p.captureID # 0
    /\ p.status \in {"captured", "refunded"} => p.captureKey # 0
    /\ p.status \notin {"authorized", "captured", "refunded"} => p.captureKey = 0
    /\ p.status = "refunded" <=> p.refundID # 0
    /\ p.status = "refunded" => p.refundKey # 0
    /\ p.status \notin {"captured", "refunded"} => p.refundKey = 0
    /\ p.status = "voided" <=> p.voidID # 0
    /\ p.status = "voided" => p.voidKey # 0
    /\ p.status \notin {"authorized", "voided"} => p.voidKey = 0
=============================================================================
