SPECIFICATION Spec
CONSTANTS
    FailureThreshold = 2
    RateNum = 1
    RateDen = 2
    MinCalls = 4
    MaxTotal = 4
    WaitTicks = 1
    Permits = 1
    Count = 2
    HealthySets = {{}, {1}, {2}, {1, 2}}
    MaxCalls = 1
INVARIANTS
    TypeOK
PROPERTIES
    OpenIsLastResort
