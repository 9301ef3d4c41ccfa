SPECIFICATION Spec
CONSTANTS
    Users = {u1, u2}
    Emails = {e1, e2, e3}
    Secrets = {s1, s2}
    Families = {f1, f2}
    Proc = {p1, p2}
    None = None
    MaxGen = 1
SYMMETRY Symmetry
INVARIANT TypeOK
PROPERTIES AllowlistEnforced ChangeRevokesWhatWasThere
