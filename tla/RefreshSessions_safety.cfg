SPECIFICATION Spec
CONSTANTS
    Users = {u1, u2}
    Families = {f1, f2}
    Tokens = {t1, t2, t3}
    Devices = {d1, d2}
    Proc = {p1, p2}
    None = None
    Lifetime = 2
    IdleLimit = 2
    MaxNow = 2
SYMMETRY Symmetry
INVARIANTS
    OneLivePerFamily
    OneLivePerDevice
    LifetimeIsAbsolute
PROPERTIES
    RevokesWhatItSaw
    IsolatesUsers
    KeepsPromise
