SPECIFICATION Spec
CONSTANTS
    Businesses = {b1, b2}
    Clients = {c1, c2}
    Invoices = {i1, i2, i3}
    Payments = {k1, k2}
    Assets = {a1}
    Prefixes = {x1}
    Years = {2025, 2026}
    ItemLists <- MCItemLists
    MaxTotal = 2
    None = None
SYMMETRY Symmetry
INVARIANTS StatusMatchesPayments CreditsCancel NumbersHaveNoGaps PartiesBelong SnapshotsKeepTheirLogo
PROPERTY IssuedIsImmutable
