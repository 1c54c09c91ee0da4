SPECIFICATION Spec
CONSTANTS
    Users = {u1, u2}
    Families = {f1, f2}
    Jtis = {j1, j2, j3}
    Reqs = {r1, r2, r3, r4}
    None = None
    j1 = j1
    j2 = j2
    u1 = u1
    f1 = f1
SYMMETRY FullSymmetry
INVARIANTS
    TypeOK
    RevocationTotal
    LineageWellFormed
    SpentNeverRotates
    DeletedNeverRotates
    ReuseRevokesKin
PROPERTIES
    ImplementsLineage
    NothingUndone
CHECK_DEADLOCK FALSE
