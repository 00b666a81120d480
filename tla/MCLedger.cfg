\* Two authorizations, a capture, its refund and a void of one account interleave;
\* statements and commits fail, failures are injected and calls are cut off.
SPECIFICATION BankSpec
CONSTANTS
    Accounts = {"acc"}
    OpeningBalance <- Opening
    BankRequests <- LedgerRequests
    Calls = {c1, c2}
    BankFaults = {"database", "chaos", "abort"}
    MaxHolds = 2
    NoCall = NoCall
SYMMETRY CallSymmetry
INVARIANTS
    BankTypeOK
    SettledOnce
    BalancesMatchLedger
    NoOverdraft
    OneAnswerPerReference
