SPECIFICATION FairSpec
CONSTANTS
    Clients = {alice}
    Limit = 2
    Interval = 2
INVARIANTS
    TypeOK
    AtMostTwiceLimit
PROPERTIES
    IdleBucketRemoved
    DestroyEnds
    FixedWindowSpec
