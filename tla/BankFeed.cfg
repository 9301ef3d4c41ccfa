SPECIFICATION Spec
CONSTANTS
    a1 = a1
    Accounts = {a1}
    Payments = {x1, x2}
    AccountOf <- OnlyAccount
    Look <- OneLook
    Referenced = {}
    Proc = {p1, p2}
    Initial = 2
    Overlap = 2
    Late = 1
    Slow = 1
    MaxPages = 1
    PageSize = 1
    MaxDay = 2
    None = None
SYMMETRY Symmetry
INVARIANTS TypeOK NothingIsLost OnlyFullPagesCut BookedRowsAreReal
