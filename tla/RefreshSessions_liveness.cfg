SPECIFICATION FairSpec
CONSTANTS
    Users = {u1}
    Families = {f1, f2}
    Tokens = {t1, t2, t3}
    Devices = {d1}
    Proc = {p1, p2}
    None = None
    Lifetime = 2
    IdleLimit = 1
    MaxNow = 0
PROPERTIES
    CallsEnd
