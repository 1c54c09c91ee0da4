SPECIFICATION FairSpec
CONSTANTS
    Users = {u1}
    Families = {f1}
    Jtis = {j1, j2}
    Requests = {g1, g2}
    None = None
    MaxFaults = 1
    j1 = j1
    u1 = u1
    f1 = f1
INVARIANT TypeOK
PROPERTY EveryRequestAnswered
CHECK_DEADLOCK FALSE
