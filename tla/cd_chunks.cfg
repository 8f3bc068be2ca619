SPECIFICATION Spec
CONSTANTS
    c1 = c1
    c2 = c2
    Calls = {c1, c2}
    MaxChunks = 2
    MaxTime = 1
    MaxNotices = 1
PROPERTIES
    ChunksAreAssembled
CHECK_DEADLOCK FALSE
