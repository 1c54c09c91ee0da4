SPECIFICATION Spec
CONSTANTS
    Users = {u1}
    Families = {f1}
    Jtis = {j1}
    Reqs = {r1, r2, r3}
    None = None
    j1 = j1
    j2 = j2
    u1 = u1
    f1 = f1
SYMMETRY Symmetry
INVARIANT SingleUse
CHECK_DEADLOCK FALSE
