SPECIFICATION FairSpec
CONSTANTS
    u1 = u1
    e1 = e1
    e2 = e2
    c1 = c1
    c1upper = c1upper
    c2 = c2
    Users = {u1, u2, u3}
    Founders = {u1}
    Emails = {e1, e2}
    Claims <- MCClaims
    Normal <- MCNormal
    HomeOf <- MCHomeOf
    Providers = {p1}
    Subjects = {s1, s2}
    Reqs = {r1, r2}
    None = None
INVARIANTS
    TypeOK
    SameIdentitySameUser
    DeletedNeverResolved
    ClaimsGiveNothing
    FederatedUserCanSignIn
PROPERTIES
    LoserFindsWinner
    EveryRequestEnds
CHECK_DEADLOCK FALSE
