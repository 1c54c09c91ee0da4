SPECIFICATION SignedInSpec
CONSTANTS
    Users = {u1}
    Families = {f1}
    Jtis = {j1, j2, j3}
    Requests = {g1, g2, g3}
    None = None
    MaxFaults = 0
    j1 = j1
    u1 = u1
    f1 = f1
SYMMETRY Symmetry
INVARIANT LogoutEndsLineage
CHECK_DEADLOCK FALSE
