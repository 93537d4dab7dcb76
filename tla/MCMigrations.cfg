SPECIFICATION MCSpec
CONSTANTS
    Procs = {"p1", "p2"}
    Initial = "initial"
    Users = {"old"}
    Releases = {9, 35}
    Hooks = {"w1", "w2"}
    Events = {"e1"}
    MaxRetries = 3
    maxConcurrentDeliveries = 1
    MaxRequests = 2
    MaxCrashes = 1
    Writers = {"w", "v"}
    Changes = {1, 2, 3, 4}
    Capacity = 2
    MaxStops = 1
    Jobs = {1, 2}
    Calls = {"p", "q"}
CHECK_DEADLOCK FALSE
INVARIANTS SchemaOfVersion    NothingIsCutOff
PROPERTIES RetriesEnd SignalEnds
