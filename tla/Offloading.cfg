\* The LRU manager with two blocks of CPU memory, two requests with a common prefix,
\* in any order of scheduling and preemption.
CONSTANTS
    r1 = r1
    r2 = r2
    a = a
    b = b
    c = c
    d = d
    Reqs = {r1, r2}
    Chain <- MCChain
    Arrival <- MCArrival
    GpuBlocks = {0, 1, 2}
    NumCpuBlocks = 2
    MaxChunk = 2
    Depth = 2
    Junk = Junk
SPECIFICATION Spec
INVARIANTS
    SavedBeforeOverwritten
    ContextKept
    CountsMatchTransfers
    NeverRaises
PROPERTIES
    TransfersAreReported
CHECK_DEADLOCK FALSE
