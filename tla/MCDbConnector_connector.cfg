SPECIFICATION FairSpec
CONSTANTS
    MaxRetries = 3
    BaseDelay = 2
    MaxDelay = 3
    GrowNum = 3
    GrowDen = 2
    Period = 3
    AskTicks = 1
    MaxFlips = 3
INVARIANTS
    TypeOK
    AttemptsBounded
PROPERTY CheckedForEver
