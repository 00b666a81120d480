----------------------------- MODULE MCMockBank -----------------------------
(***************************************************************************)
(* Small instances of MockBank for TLC: requests chosen so that they meet  *)
(* on one account, on one hold, on one capture or under one key.           *)
(***************************************************************************)
EXTENDS MockBank, TLC

AuthorizationRequest(key, card, amount) ==
    [path |-> "authorizations", key |-> key, account |-> "acc", card |-> card,
     amount |-> amount, reference |-> 0]

FollowUp(path, key, reference, amount) ==
    [path |-> path, key |-> key, account |-> "", card |-> "good",
     amount |-> amount, reference |-> reference]

Opening == [a \in {"acc"} |-> 2]

\* Two authorizations the account cannot both pay, a capture and a void of the
\* first to be accepted, and a refund of the capture.
LedgerRequests ==
    {AuthorizationRequest("k1", "good", 2),
     AuthorizationRequest("k2", "good", 1),
     FollowUp("captures", "k3", 1, 2),
     FollowUp("voids", "k3", 1, 0),
     FollowUp("refunds", "k4", 2, 2)}

\* A capture and a void that wait for one hold, a refund, and authorizations
\* refused before and after their lock.
SettlingRequests ==
    {AuthorizationRequest("k1", "good", 1), AuthorizationRequest("k1", "expired", 1),
     AuthorizationRequest("k1", "bad_number", 1),
     FollowUp("captures", "k2", 1, 1), FollowUp("voids", "k3", 1, 0),
     FollowUp("refunds", "k4", 2, 1)}

CallSymmetry == Permutations(Calls)
=============================================================================
