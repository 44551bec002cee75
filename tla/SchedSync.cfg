\* Scheduler with step(): one batch at a time, first come first served.
CONSTANTS
    b1 = b1
    b2 = b2
    b3 = b3
    b4 = b4
    b5 = b5
    b6 = b6
    b7 = b7
    r1 = r1
    r2 = r2
    r3 = r3
    Blocks = {b1, b2, b3, b4}
    BlockOrder <- Order4
    Reqs = {r1, r2, r3}
    Hashes <- MCHashes
    NoHash = NoHash
    Null = Null
    BlockSize = 2
    Window = 0
    MaxModelLen = 7
    EnableCaching = TRUE
    Prompt <- MCPrompt
    OutLimit <- MCOutLimit
    Eos <- MCEos
    Policy = "fcfs"
    Priority <- MCPriority
    MaxNumSeqs = 3
    MaxBatchTokens = 2
    LongPrefill = 0
    Chunked = TRUE
    Async = FALSE
    UsePP = FALSE
    Depth = 1
    MaxResets = 1
    ForcedResets = TRUE
SPECIFICATION Spec
INVARIANTS
    TypeOK
    ContextComputed
    QueuesExact
    ResetSucceeds
PROPERTIES
    NoOvertaking
    CallsAllowed
CHECK_DEADLOCK FALSE
