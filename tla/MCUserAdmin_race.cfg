SPECIFICATION Spec
CONSTANTS
    Users = {u1, u2}
    Founders = {u1, u2}
    Reqs = {r1, r2}
    None = None
SYMMETRY Symmetry
INVARIANT AdminRemains
CHECK_DEADLOCK FALSE
