\* The same instance: a request that fails in preprocessing may be the first of its wave.
CONSTANTS
    NumEngines = 2
    Clients = {c1}
    SyncEvery = 2
    MaxRequests = 2
    MaxPasses = 2
    MaxDropped = 1
SPECIFICATION Spec
INVARIANT
    StartedTogether
CHECK_DEADLOCK FALSE
