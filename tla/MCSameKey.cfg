\* A slow first try and its retry under one key; nothing else fails.
SPECIFICATION ClientSpec
CONSTANTS
    Accounts = {"acc"}
    OpeningBalance <- ClientOpening
    BankRequests <- AuthorizeOnce
    Calls = {c1, c2}
    BankFaults = {}
    MaxHolds = 2
    NoCall = NoCall
    Clients = {k1}
    InitialAttemptTimeout = 1
    RetryDelay = 1
    RetryAttemptTimeout = 2
    CompletionReserve = 1
    PaymentCommandTimeout = 6
    NetworkFaults = {}
INVARIANTS
    NoDuplicateBankOperation
