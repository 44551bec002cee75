\* Two engines, a front end, two requests of one or two passes, one of which
\* may fail in preprocessing; an all-reduce after every second pass.
CONSTANTS
    NumEngines = 2
    Clients = {c1}
    SyncEvery = 2
    MaxRequests = 2
    MaxPasses = 2
    MaxDropped = 1
SPECIFICATION Spec
INVARIANTS
    PassesAligned
    NoneLeftBehind
PROPERTIES
    AllServed
    AllPause
CHECK_DEADLOCK FALSE
