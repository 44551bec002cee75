\* Sliding-window attention with Scheduler, draft tokens and a pipeline: blocks in
\* front of the window become holes, and output arrives while later tokens are in flight.
CONSTANTS
    Blocks = {b1, b2, b3}
    h1 = h1
    h2 = h2
    h3 = h3
    Hashes <- MCHashes
    Chains <- MCChains
    NoHash = NoHash
    Null = Null
    Reqs = {r1, r2}
    BlockSize = 2
    Window = 2
    MaxModelLen = 5
    EnableCaching = TRUE
    MaxTokens = 5
    NumSpec = 1
    MaxPlaceholders = 0
    Lookahead = 1
    Connector = TRUE
    FullLoads = FALSE
    LoadErrors = "fail"
    Pipelined = TRUE
    Async = FALSE
SYMMETRY Symmetry
SPECIFICATION Spec
INVARIANTS
    NeverRaises
    ComputedTokensHaveBlocks
    NoDraftsCached
