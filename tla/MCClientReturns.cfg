\* Calls that outlive their try; only timers and the clock are fair.
SPECIFICATION FairClientSpec
CONSTANTS
    Accounts = {"acc"}
    OpeningBalance <- ClientOpening
    BankRequests <- RefundedPayment
    Calls = {c1, c2}
    BankFaults = {}
    MaxHolds = 1
    NoCall = NoCall
    Clients = {k1}
    InitialAttemptTimeout = 1
    RetryDelay = 1
    RetryAttemptTimeout = 1
    CompletionReserve = 1
    PaymentCommandTimeout = 5
    NetworkFaults = {}
INVARIANTS
    ReportedOutcomeReal
PROPERTIES
    OperationsReturn
