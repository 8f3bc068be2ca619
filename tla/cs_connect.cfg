SPECIFICATION FairSpec
CONSTANTS
    App = app
    Caller = caller
    MaxTasks = 4
    MaxConns = 3
    MaxFaults = 0
    MaxEvents = 1
    AutoReconnect = TRUE
    ReaderFirst = FALSE
PROPERTIES
    ConnectSucceeds
CHECK_DEADLOCK FALSE
