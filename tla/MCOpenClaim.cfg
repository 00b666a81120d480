\* Nothing fails; authorization and its retry race on one payment.
SPECIFICATION Spec
CONSTANTS
    o1 = o1
    o2 = o2
    PaymentIDs = {"p1"}
    Cards = {"c1", "c2"}
    BankIDs = {1}
    Requests <- RetryRequests
    PaymentCommandTimeout = 1
    ClaimStuckAfter = 2
    ReplayWindow = 1
    Attempts = {a1, a2}
    Faults = {}
INVARIANTS
    FinishedAttemptLeavesNoClaim
