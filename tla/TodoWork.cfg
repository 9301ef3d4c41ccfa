SPECIFICATION Spec
CONSTANTS
    Contents = {c1, c2}
    Messages = {m1, m2, m3}
    Proc = {p1, p2}
    UserText = UserText
    Blank = Blank
    None = None
SYMMETRY Symmetry
\* a deleted to-do is the end
INVARIANTS TypeOK NothingOutlivesTodo FreshnessIsReal
PROPERTY OnlyUsersBlankDrafts
CHECK_DEADLOCK FALSE
