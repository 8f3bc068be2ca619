SPECIFICATION FairSpec
CONSTANTS
    FailureThreshold = 4
    RateNum = 1
    RateDen = 2
    MinCalls = 5
    MaxTotal = 8
    WaitTicks = 2
    Permits = 2
    MaxCalls = 3
INVARIANTS
    TypeOK
    ClosedIsBelowThreshold
    ProbesLimited
    CanDecide
PROPERTIES
    HalfOpenDecides
    OpenIsRetried
