SPECIFICATION FairSpec
CONSTANTS
    App = app
    Caller = caller
    MaxTasks = 4
    MaxConns = 3
    MaxFaults = 1
    MaxEvents = 2
    AutoReconnect = TRUE
    ReaderFirst = TRUE
INVARIANTS
    TypeOK
    NeverAbandoned
    OneConnection
    SessionIsGranted
PROPERTIES
    TasksEnd
    ComesBack
CHECK_DEADLOCK FALSE
