----------------------------- MODULE MCHttpApi -----------------------------
(***************************************************************************)
(* Small instances of HttpApi for TLC.                                     *)
(***************************************************************************)
EXTENDS HttpApi, TLC

CONSTANTS r1, r2, r3, r4

MCHttpRequests == {r1, r2, r3}
MCSymmetry == Permutations(MCHttpRequests)
MCFourRequests == {r1, r2, r3, r4}
MCFourSymmetry == Permutations(MCFourRequests)

\* The service rotates its credential: the old one and the new one are both
\* configured, the new one only to write.
MCCredentials == [old |-> {"payments:read", "payments:write"}, new |-> {"payments:write"}]
MCPrincipals == {"order-service"} \cup DOMAIN MCCredentials

MCBurst == [read |-> 2, write |-> 1]
MCRates == [read |-> 2, write |-> 1]

Exchange(route, credential, input) ==
    [route |-> route, credential |-> credential, input |-> input]

\* Requests that compete for the same tokens.
MCCaptures == {Exchange("capture", "old", "good")}

\* With others that draw from another bucket, or are refused on their way.
MCExchanges == MCCaptures \cup {
    Exchange("search", "old", "good"), Exchange("get", "new", "good"),
    Exchange("authorize", "unknown", "good"), Exchange("authorize", "new", "wrong_media"),
    Exchange("retry", "new", "malformed"), Exchange("search", "old", "oversized"),
    Exchange("void", "new", "invalid")}
=============================================================================
