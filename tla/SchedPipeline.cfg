\* Scheduler with three pipeline stages, first come first served.
CONSTANTS
    b1 = b1
    b2 = b2
    b3 = b3
    b4 = b4
    b5 = b5
    b6 = b6
    b7 = b7
    r1 = r1
    r2 = r2
    r3 = r3
    Blocks = {b1, b2, b3, b4}
    BlockOrder <- Order4
    Reqs = {r1, r2, r3}
    Hashes <- MCHashes
    NoHash = NoHash
    Null = Null
    BlockSize = 2
    Window = 0
    MaxModelLen = 7
    EnableCaching = TRUE
    Prompt <- MCPrompt
    OutLimit <- MCOutLimit
    Eos <- MCEos
    Policy = "fcfs"
    Priority <- MCPriority
    MaxNumSeqs = 3
    MaxBatchTokens = 4
    LongPrefill = 0
    Chunked = TRUE
    Async = FALSE
    UsePP = TRUE
    Depth = 3
    MaxResets = 0
    ForcedResets = FALSE
SPECIFICATION Spec
INVARIANTS
    OutputExact
CHECK_DEADLOCK FALSE
