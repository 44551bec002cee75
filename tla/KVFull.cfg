\* Full attention with prefix caching, a KV connector, and AsyncScheduler with a draft token.
CONSTANTS
    Blocks = {b1, b2, b3}
    h1 = h1
    h2 = h2
    h3 = h3
    Hashes <- MCHashes
    Chains <- MCChains
    NoHash = NoHash
    Null = Null
    Reqs = {r1, r2}
    BlockSize = 2
    Window = 0
    MaxModelLen = 5
    EnableCaching = TRUE
    MaxTokens = 5
    NumSpec = 1
    MaxPlaceholders = 2
    Lookahead = 0
    Connector = TRUE
    FullLoads = TRUE
    LoadErrors = "recompute"
    Pipelined = TRUE
    Async = TRUE
SYMMETRY Symmetry
SPECIFICATION Spec
INVARIANTS
    TypeOK
    RefCountsExact
    CacheMapExact
    NeverRaises
    WritableBlocksPrivate
    EventsSound
    CommonPrefixShared
    ComputedTokensHaveBlocks
PROPERTIES
    UsedBlocksStayCached
