\* Two attempts capture and void one payment and may miss their deadline at any
\* step; the bank may carry a call out late, forget a response, and refuse an
\* expired hold.
SPECIFICATION GatewayBankSpec
CONSTANTS
    PaymentIDs = {"p1"}
    Cards = {"c1"}
    BankIDs = {1, 2}
    Requests <- SettleRequests
    PaymentCommandTimeout = 1
    ClaimStuckAfter = 2
    ReplayWindow = 0
    Attempts = {a1, a2}
    Faults = {}
    MaxHolds = 1
    BankLapses = {"cache", "expiry"}
SYMMETRY AttemptSymmetry
INVARIANTS
    ExclusiveClaim
    MoneyAgrees
    NothingTaken
