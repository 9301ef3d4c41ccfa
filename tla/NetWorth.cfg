SPECIFICATION Spec
CONSTANTS
    None = None
    Euro = Euro
    Forint = Forint
    a1 = a1
    Items = {i1, i2}
    Accounts = {a1}
    Proc = {p1, p2}
    Currencies = {Euro, Forint}
    Values = {0, 1}
    Balances <- Overdrawn
    Shares <- OwnedOrOwed
    Inputs <- InputRows
    MaxDay = 1
SYMMETRY Symmetry
INVARIANTS
    TypeOK
    AccountsCountOnce
    ItemsHaveHistory
    HistoryMeetsSummary
