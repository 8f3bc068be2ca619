SPECIFICATION FairSpec
CONSTANTS
    r1 = r1
    h1 = h1
    None = None
    Requests = {r1, h1}
    HandlerRequests = {h1}
    Closers = {}
    MaxConns = 2
    MaxStreamId = 2
INVARIANTS
    RightAnswer
    NoZombieReader
    PendingIsReachable
PROPERTIES
    CancelledByOlder
    KeepsPromise
    EveryRequestEnds
    LoopEnds
CHECK_DEADLOCK FALSE
