SPECIFICATION ThrottleSpec
CONSTANTS
    Addresses = {i1}
    Accounts = {a1, a2}
    Threads = {p1, p2}
    IpLimit = 2
    AccountLimit = 1
    Sec = 2
    Window = 3
    Retention = 3
    MaxNow = 4
    Nothing = Nothing
SYMMETRY Symmetry
INVARIANTS
    CountersTypeOK
    AdmittedWithinLimit
PROPERTIES
    WindowIsServed
    RetryAfterSuffices
