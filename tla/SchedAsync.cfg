\* AsyncScheduler with a batch queue of two and priority scheduling.
CONSTANTS
    b1 = b1
    b2 = b2
    b3 = b3
    b4 = b4
    b5 = b5
    b6 = b6
    b7 = b7
    r1 = r1
    r2 = r2
    r3 = r3
    Blocks = {b1, b2, b3, b4}
    BlockOrder <- Order4
    Reqs = {r1, r2, r3}
    Hashes <- MCHashes
    NoHash = NoHash
    Null = Null
    BlockSize = 2
    Window = 0
    MaxModelLen = 7
    EnableCaching = TRUE
    Prompt <- MCPrioPrompt
    OutLimit <- MCOutLimit
    Eos <- MCEos
    Policy = "priority"
    Priority <- MCReverse
    MaxNumSeqs = 3
    MaxBatchTokens = 5
    LongPrefill = 0
    Chunked = TRUE
    Async = TRUE
    UsePP = FALSE
    Depth = 2
    MaxResets = 1
    ForcedResets = FALSE
SPECIFICATION FairSpec
INVARIANTS
    OutputExact
    NeverRaises
    PlaceholdersExact
    ScheduleAsserts
PROPERTIES
    CallsAllowed
    AllFinish
CHECK_DEADLOCK FALSE
