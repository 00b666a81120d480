\* One caller at a time keeps authorizing, retrying and capturing one payment
\* through crashes, missed deadlines and database errors; the bank remembers.
SPECIFICATION FairGatewayBankSpec
CONSTANTS
    PaymentIDs = {"p1"}
    Cards = {"c1"}
    BankIDs = {1, 2}
    Requests <- RetryRequests
    PaymentCommandTimeout = 1
    ClaimStuckAfter = 2
    ReplayWindow = 0
    Attempts = {a1}
    Faults = {"crash", "database"}
    MaxHolds = 1
    BankLapses = {"expiry"}
INVARIANTS
    OneKeyPerBankOperation
    ReplayConsistent
PROPERTIES
    OpenClaimsResolved
    CaptureLearned
