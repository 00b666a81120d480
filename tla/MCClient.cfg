\* One adapter, a bank that may inject failures or die, a network that loses messages.
SPECIFICATION ClientSpec
CONSTANTS
    Accounts = {"acc"}
    OpeningBalance <- ClientOpening
    BankRequests <- OnePayment
    Calls = {c1, c2}
    BankFaults = {"chaos", "abort"}
    MaxHolds = 1
    NoCall = NoCall
    Clients = {k1}
    InitialAttemptTimeout = 1
    RetryDelay = 1
    RetryAttemptTimeout = 1
    CompletionReserve = 1
    PaymentCommandTimeout = 5
    NetworkFaults = {"connection", "cancel"}
SYMMETRY ClientCallSymmetry
INVARIANTS
    ClientTypeOK
    ReportedOutcomeReal
    ConflictMeansSettled
    LeavesReserve
