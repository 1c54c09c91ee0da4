SPECIFICATION FairSpec
CONSTANTS
    MaxSends = 4
    MaxInFlight = 2
    MaxLogins = 2
    MaxFaults = 1
INVARIANTS
    TypeOK
    FrontInStep
    ExpelledOnlyIfDisturbed
PROPERTY LogoutCleans
CHECK_DEADLOCK FALSE
