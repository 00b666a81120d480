---------------------------- MODULE MCBankClient ----------------------------
(***************************************************************************)
(* Small instances of BankClient for TLC.                                  *)
(***************************************************************************)
EXTENDS BankClient, TLC

ClientRequest(path, key, account, card, amount, reference) ==
    [path |-> path, key |-> key, account |-> account, card |-> card,
     amount |-> amount, reference |-> reference]

ClientOpening == [a \in {"acc"} |-> 2]

AuthorizeOnce == {ClientRequest("authorizations", "k1", "acc", "good", 1, 0)}

\* One payment: its authorization, and a capture and a void of it.
OnePayment ==
    AuthorizeOnce \cup
    {ClientRequest("captures", "k2", "", "good", 1, 1),
     ClientRequest("voids", "k3", "", "good", 0, 1)}

\* One payment that is captured and refunded.
RefundedPayment ==
    AuthorizeOnce \cup
    {ClientRequest("captures", "k2", "", "good", 1, 1),
     ClientRequest("refunds", "k4", "", "good", 1, 2)}

ClientCallSymmetry == Permutations(Calls)
=============================================================================
