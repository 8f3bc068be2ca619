SPECIFICATION BothSpec
CONSTANTS
    Requests = {r1, r2}
    BASE_DELAY = 2
    MIN_DELAY = 1
    MAX_DELAY = 4
    RECOVERY_WINDOW = 2
    Batch = 1100
    Latencies = {30, 700}
    MaxConns = 1100
    MaxSamples = 2
    MaxRequests = 2
    Hosts <- MCHosts
    Loads <- MCLoads
    Snapshots <- MCSnapshots
    Tags = {"gray"}
    NoTag = "none"
INVARIANTS
    TypeOK
    LoadTypeOK
    Rested
    NoLateSleeper
    RankedRight
    RouteFinds
PROPERTIES
    SleepersGo
