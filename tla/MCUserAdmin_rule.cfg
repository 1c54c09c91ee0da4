SPECIFICATION Spec
CONSTANTS
    Users = {u1, u2, u3}
    Founders = {u1, u2}
    Reqs = {r1, r2, r3}
    None = None
SYMMETRY Symmetry
INVARIANTS
    TypeOK
    AdminRemainsUnlessTorn
    DeletedRowIsGone
PROPERTY DeletionIsFinal
CHECK_DEADLOCK FALSE
