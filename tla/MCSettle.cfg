\* Two orders come under one key, capture and void of the payment race, a refund
\* follows; the gateway may crash anywhere.
SPECIFICATION Spec
CONSTANTS
    o1 = o1
    o2 = o2
    PaymentIDs = {"p1"}
    Cards = {"c1"}
    BankIDs = {1}
    Requests <- SettleRequests
    PaymentCommandTimeout = 1
    ClaimStuckAfter = 2
    ReplayWindow = 0
    Attempts = {a1, a2}
    Faults = {"crash"}
SYMMETRY SettleSymmetry
INVARIANTS
    TypeOK
    ReplayConsistent
    OneKeyPerBankOperation
    StoredPaymentsLoadable
    SnapshotWasReached
    OpenClaimsRecoverable
PROPERTIES
    ImplementsLifecycle
