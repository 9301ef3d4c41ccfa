SPECIFICATION Spec
CONSTANTS
    Connections = {c1, c2}
    Sessions = {s1, s2}
    Accounts = {a1}
    Expenses = {e1, e2}
    Proc = {p1, p2}
    Refs = {r1}
    Amounts = {m1, m2}
    None = None
SYMMETRY Symmetry
INVARIANTS TypeOK ExpensesAreBookedDebits StoredFollowsBank PendingOwnsNothing
PROPERTY HistoryIsKept
