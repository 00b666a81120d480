-------------------------- MODULE MCPaymentService --------------------------
(***************************************************************************)
(* Small instances of PaymentService for TLC: sets of requests chosen so   *)
(* that the commands of a run meet on one slot or on one payment.          *)
(***************************************************************************)
EXTENDS PaymentService, TLC

CONSTANTS o1, o2  \* orders

Authorization(key, order, card) ==
    [operation |-> "authorize_payment", key |-> key, paymentID |-> "",
     order |-> order, card |-> card]

AuthorizationRetry(key, id, card) ==
    [operation |-> "retry_authorization", key |-> key, paymentID |-> id,
     order |-> "", card |-> card]

Command(operation, key, id) ==
    [operation |-> operation, key |-> key, paymentID |-> id, order |-> "", card |-> ""]

\* Two orders under one key; one payment whose capture races its void; a refund
\* comes after or between.
SettleRequests ==
    {Authorization("k1", o1, "c1"),
     Authorization("k1", o2, "c1"),
     Command("capture_payment", "k1", "p1"),
     Command("void_payment", "k1", "p1"),
     Command("refund_payment", "k1", "p1")}

\* Two orders under one key, and retries with the right and a wrong card.
RetryRequests ==
    {Authorization("k1", o1, "c1"),
     Authorization("k1", o2, "c1"),
     AuthorizationRetry("k1", "p1", "c1"),
     AuthorizationRetry("k1", "p1", "c2")}

\* The orders differ in nothing but their name.
SettleSymmetry == Permutations(Attempts) \cup Permutations({o1, o2})
=============================================================================
