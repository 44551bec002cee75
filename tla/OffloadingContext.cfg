\* First come first served, with one block of CPU memory.
CONSTANTS
    r1 = r1
    r2 = r2
    a = a
    b = b
    c = c
    d = d
    Reqs = {r1, r2}
    Chain <- MCChain
    Arrival <- MCArrival
    GpuBlocks = {0, 1, 2}
    NumCpuBlocks = 1
    MaxChunk = 2
    Depth = 2
    Junk = Junk
SPECIFICATION FcfsSpec
INVARIANTS
    PassesReadTheirContext
CHECK_DEADLOCK FALSE
