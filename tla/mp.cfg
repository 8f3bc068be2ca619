SPECIFICATION Spec
CONSTANTS
    r1 = r1
    r2 = r2
    r3 = r3
    h1 = h1
    c1 = c1
    c2 = c2
    None = None
    Requests = {r1, r2, r3, h1}
    HandlerRequests = {h1}
    Closers = {c1, c2}
    MaxConns = 1
    MaxStreamId = 2
SYMMETRY Symmetry
INVARIANTS
    TypeOK
    NoZombieReader
    PendingIsReachable
CHECK_DEADLOCK FALSE
