SPECIFICATION Spec
CONSTANTS
    None = None
    Ids = {e1, e2}
    First <- FirstDay
    MaxMonth = 35
    Inputs <- InputRows
    Sweep <- SweepDays
    Horizons = {1, 31, 366}
SYMMETRY Symmetry
INVARIANTS
    TypeOK
    CountIsExact
    CoveredIsWhatFallsDue
