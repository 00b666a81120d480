\* Nothing fails: calls wait only for each other's row locks.
SPECIFICATION FairBankSpec
CONSTANTS
    Accounts = {"acc"}
    OpeningBalance <- Opening
    BankRequests <- SettlingRequests
    Calls = {c1, c2}
    BankFaults = {}
    MaxHolds = 1
    NoCall = NoCall
PROPERTIES
    CallsAnswered
    ImplementsBankLedger
