\* Priority scheduling.
CONSTANTS
    b1 = b1
    b2 = b2
    b3 = b3
    b4 = b4
    b5 = b5
    b6 = b6
    b7 = b7
    r1 = r1
    r2 = r2
    r3 = r3
    Blocks = {b1, b2, b3, b4, b5, b6, b7}
    BlockOrder <- Order7
    Reqs = {r1, r3}
    Hashes <- MCHashes
    NoHash = NoHash
    Null = Null
    BlockSize = 1
    Window = 0
    MaxModelLen = 9
    EnableCaching = TRUE
    Prompt <- LongAndShort
    OutLimit <- MCOutLimit
    Eos <- MCEos
    Policy = "priority"
    Priority <- MCReverse
    MaxNumSeqs = 3
    MaxBatchTokens = 3
    LongPrefill = 2
    Chunked = TRUE
    Async = FALSE
    UsePP = FALSE
    Depth = 1
    MaxResets = 0
    ForcedResets = TRUE
SPECIFICATION Spec
INVARIANTS
    ContextComputed
CHECK_DEADLOCK FALSE
