--------------------------- MODULE MCGatewayBank ---------------------------
(***************************************************************************)
(* Small instances of GatewayBank for TLC.                                 *)
(***************************************************************************)
EXTENDS GatewayBank, TLC

Authorization == [operation |-> "authorize_payment", key |-> "k1", paymentID |-> "",
                  order |-> "o1", card |-> "c1"]

Command(operation) ==
    [operation |-> operation, key |-> "k1", paymentID |-> "p1", order |-> "", card |-> ""]

\* One payment whose capture races its void.
SettleRequests == {Authorization, Command("capture_payment"), Command("void_payment")}

\* One payment that may need a retry before it is captured.
RetryRequests ==
    {Authorization, [Command("retry_authorization") EXCEPT !.card = "c1"],
     Command("capture_payment")}

AttemptSymmetry == Permutations(Attempts)
=============================================================================
