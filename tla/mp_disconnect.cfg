SPECIFICATION Spec
CONSTANTS
    r1 = r1
    c1 = c1
    None = None
    Requests = {r1}
    HandlerRequests = {}
    Closers = {c1}
    MaxConns = 1
    MaxStreamId = 2
INVARIANTS
    DisconnectFailsPending
CHECK_DEADLOCK FALSE
