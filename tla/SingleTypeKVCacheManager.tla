----------------------- MODULE SingleTypeKVCacheManager -----------------------
(***************************************************************************)
(* The block tables of one KV cache group: the base class of               *)
(* vllm/v1/core/single_type_kv_cache_manager.py with its full-attention    *)
(* and sliding-window subclasses, as UnitaryKVCacheCoordinator uses them,  *)
(* and the allocation of KVCacheManager on top of it.                      *)
(*                                                                         *)
(* The record of BlockPool gets two more fields:                           *)
(*   kv.table    req_to_blocks: the block table of every request           *)
(*   kv.ncached  num_cached_block: how many leading blocks of the table    *)
(*               are cached, or Absent when the dict has no entry          *)
(***************************************************************************)
EXTENDS BlockPool

CONSTANTS
    Reqs,           \* the requests
    BlockSize,      \* tokens in a block
    Window,         \* sliding_window, or 0 for full attention
    MaxModelLen,    \* max_model_len
    EnableCaching   \* enable_prefix_caching

ASSUME SizesAssumption ==
    /\ IsFiniteSet(Reqs)
    /\ BlockSize \in Nat \ {0}
    /\ Window \in Nat
    /\ MaxModelLen \in Nat \ {0}
    /\ EnableCaching \in BOOLEAN

Absent == -1

Min2(a, b) == IF a <= b THEN a ELSE b
Max2(a, b) == IF a >= b THEN a ELSE b

\* Mutant of CDiv: rounds down.
FloorDiv(n) == n \div BlockSize

\* cdiv(n, block_size).
CDiv(n) == (n + BlockSize - 1) \div BlockSize

\* The largest element of a nonempty set of naturals.
Greatest(S) == CHOOSE n \in S : \A m \in S : m <= n

\* The type of the record.
KVRecord ==
    [free: Seq(Blocks),
     ref: [Blocks -> Nat],
     hash: [Blocks -> Hashes \cup {NoHash}],
     map: [Hashes -> Seq(Blocks)],
     pub: SUBSET Hashes,
     err: BOOLEAN,
     table: [Reqs -> Seq(Blocks \cup {Null})],
     ncached: [Reqs -> Nat \cup {Absent}]]

\* BlockPool.__init__ and SingleTypeKVCacheManager.__init__, with the blocks in
\* the order q.
FreshKV(q) ==
    [free |-> q,
     ref |-> [b \in Blocks |-> 0],
     hash |-> [b \in Blocks |-> NoHash],
     map |-> [h \in Hashes |-> <<>>],
     pub |-> {},
     err |-> FALSE,
     table |-> [r \in Reqs |-> <<>>],
     ncached |-> [r \in Reqs |-> Absent]]

KVInit ==
    {FreshKV(q) : q \in {s \in [1..Cardinality(Blocks) -> Blocks] : NoDup(s)}}

\* The requests whose table holds b.
Holders(kv, b) == {r \in Reqs : b \in Range(kv.table[r])}

-----------------------------------------------------------------------------
(* Sliding window. *)

\* Mutant of NumSkippedTokens: the window is one token too short.
SkipOneMore(n) == IF Window = 0 THEN 0 ELSE Max2(0, n - Window + 2)

\* get_num_skipped_tokens.
NumSkippedTokens(n) == IF Window = 0 THEN 0 ELSE Max2(0, n - Window + 1)
NumSkippedBlocks(n) == NumSkippedTokens(n) \div BlockSize

\* remove_skipped_blocks: the blocks in front of the window, from the last one
\* down to the first hole, are freed in that order and replaced by Null.
RemoveSkippedBlocks(kv, r, ntokens) ==
    LET bs == kv.table[r]
        last == Min2(NumSkippedBlocks(ntokens), Len(bs))
        hole == Greatest({0} \cup {i \in 1..last : bs[i] = Null})
        out == [k \in 1 .. last - hole |-> bs[last + 1 - k]]
    IN  IF NumSkippedTokens(ntokens) = 0
        THEN kv
        ELSE [FreeBlocks(kv, out) EXCEPT
                !.table[r] = [i \in DOMAIN bs |->
                                IF hole < i /\ i <= last THEN Null ELSE bs[i]]]

-----------------------------------------------------------------------------
(* Looking up the prefix cache. *)

\* The length of the longest prefix of hs, at most max, that is cached.
PrefixHits(kv, hs, max) ==
    Greatest({k \in 0..max : \A i \in 1..k : IsCached(kv, hs[i])})

\* FullAttentionManager.find_longest_cache_hit.
FullAttentionHit(kv, hs, max) ==
    [i \in 1..PrefixHits(kv, hs, max) |-> GetCachedBlock(kv, hs[i])]

\* SlidingWindowManager.find_longest_cache_hit: the rightmost run of cached
\* blocks that fills a window, with Null in front of it; when there is none,
\* the cached prefix.
SlidingWindowHit(kv, hs, max) ==
    LET run == Max2(1, CDiv(Window - 1))
        ends == {e \in run..max : \A i \in e - run + 1 .. e : IsCached(kv, hs[i])}
        end == Greatest(ends)
    IN  IF ends = {}
        THEN FullAttentionHit(kv, hs, max)
        ELSE [i \in 1..end |->
                IF i > end - run THEN GetCachedBlock(kv, hs[i]) ELSE Null]

\* get_computed_blocks of a request with ntok tokens and the block hashes hs:
\* at least the last token is left to compute.
GetComputedBlocks(kv, hs, ntok) ==
    LET max == (ntok - 1) \div BlockSize
    IN  IF ~EnableCaching THEN <<>>
        ELSE IF Window = 0 THEN FullAttentionHit(kv, hs, max)
        ELSE SlidingWindowHit(kv, hs, max)

-----------------------------------------------------------------------------
(* Allocation. *)

Drop(s, n) == SubSeq(s, n + 1, Len(s))
Nulls(n) == [i \in 1..n |-> Null]

\* Mutant of NumBlocksToAllocate: hits in the free queue are not counted.
IgnoreEvictable(kv, r, need, hits, computed) ==
    LET have == Len(kv.table[r])
        skipped == NumSkippedBlocks(computed)
    IN  Max2(CDiv(need) - Max2(skipped, Len(hits) + have), 0)

\* get_num_blocks_to_allocate.  hits: the blocks just found in the prefix
\* cache; computed: all computed tokens; need: the tokens that need a slot.
NumBlocksToAllocate(kv, r, need, hits, computed) ==
    LET have == Len(kv.table[r])
        skipped == NumSkippedBlocks(computed)
        kept == Drop(hits, Max2(0, skipped - have))
        evictable == {i \in DOMAIN kept : kept[i] # Null /\ kv.ref[kept[i]] = 0}
    IN  IF kv.ncached[r] # Absent
        THEN Max2(CDiv(need) - have, 0)
        ELSE Max2(CDiv(need) - Max2(skipped, Len(hits) + have), 0)
                + Cardinality(evictable)

\* The blocks of get_new_blocks(n) appended to the table of r.
ExtendTable(kv, r, n) ==
    [GetNewBlocks(kv, n) EXCEPT !.table[r] = @ \o NewBlocks(kv, n)]

\* allocate_new_computed_blocks.  local and ext: the tokens computed here and
\* the ones a KV connector provides.
AllocateNewComputedBlocks(kv, r, hits, local, ext) ==
    LET total == local + ext
        skipped == NumSkippedBlocks(total)
        kept == Drop(hits, skipped)
        ext1 == IF skipped > 0 THEN Min2(total - NumSkippedTokens(total), ext)
                ELSE ext
        bs == Nulls(skipped) \o kept
        kv1 == [Touch(kv, kept) EXCEPT !.table[r] = bs,
                                       !.ncached[r] = Len(bs)]
    IN  IF kv.ncached[r] # Absent
        THEN kv
        ELSE IF kv.table[r] # <<>>
        THEN [kv EXCEPT !.err = TRUE]
        ELSE IF ext1 > 0
        THEN ExtendTable(kv1, r, CDiv(total) - Len(bs))
        ELSE kv1

\* allocate_new_blocks: enough blocks for need tokens.
AllocateNewBlocks(kv, r, need) ==
    LET n == CDiv(need) - Len(kv.table[r])
    IN  IF n <= 0 THEN kv ELSE ExtendTable(kv, r, n)

\* Mutant of CacheBlocks: num_cached_block is not updated.
CacheWithoutCount(kv, r, hs, ntokens) ==
    LET cached == Max2(kv.ncached[r], 0)
        full == ntokens \div BlockSize
    IN  IF cached >= full THEN kv
        ELSE CacheFullBlocks(kv, kv.table[r], hs, cached, full)

\* cache_blocks: the full blocks of the first ntokens tokens are cached.
CacheBlocks(kv, r, hs, ntokens) ==
    LET cached == Max2(kv.ncached[r], 0)
        full == ntokens \div BlockSize
    IN  IF cached >= full
        THEN kv
        ELSE [CacheFullBlocks(kv, kv.table[r], hs, cached, full)
                EXCEPT !.ncached[r] = full]

\* KVCacheManager.cache_blocks.
CacheBlocksIfEnabled(kv, r, hs, ntokens) ==
    IF EnableCaching THEN CacheBlocks(kv, r, hs, ntokens) ELSE kv

\* Mutant of Free: req_to_blocks keeps the entry.
FreeKeepingTable(kv, r) ==
    [FreeBlocks(kv, kv.table[r]) EXCEPT !.ncached[r] = Absent]

\* free: the table of r is freed from its tail and forgotten.
Free(kv, r) ==
    LET bs == kv.table[r]
        tailFirst == [i \in DOMAIN bs |-> bs[Len(bs) + 1 - i]]
    IN  [FreeBlocks(kv, tailFirst) EXCEPT !.table[r] = <<>>,
                                          !.ncached[r] = Absent]

-----------------------------------------------------------------------------
(* KVCacheManager.allocate_slots.  The call is described by a record a:     *)
(*   a.hs, a.ntok   block_hashes and num_tokens of the request              *)
(*   a.comp         its num_computed_tokens                                 *)
(*   a.hits         new_computed_blocks                                     *)
(*   a.ext, a.new   num_external_computed_tokens and num_new_tokens         *)
(*   a.look         num_lookahead_tokens                                    *)
(*   a.delay        delay_cache_blocks                                      *)

LocalTokens(a) == a.comp + Len(a.hits) * BlockSize
TotalTokens(a) == Min2(LocalTokens(a) + a.ext, MaxModelLen)
SlotTokens(a) == Min2(TotalTokens(a) + a.new + a.look, MaxModelLen)

\* The blocks in front of the window go first, whether or not the call
\* succeeds.
Trimmed(kv, r, a) == RemoveSkippedBlocks(kv, r, TotalTokens(a))

CanAllocate(kv, r, a) ==
    LET kv1 == Trimmed(kv, r, a)
    IN  NumBlocksToAllocate(kv1, r, SlotTokens(a), a.hits, LocalTokens(a) + a.ext)
            <= Len(kv1.free)

\* A call without work is a ValueError; a request whose blocks are cached
\* already must bring no new hits.
BadCall(kv, r, a) ==
    \/ a.new = 0 /\ a.ext = 0
    \/ kv.ncached[r] # Absent /\ a.hits # <<>>

\* Mutant of TokensToCache: draft tokens are cached too.
CacheDrafts(a) == TotalTokens(a) + a.new

\* Only finalized tokens are cached.
TokensToCache(a) == Min2(TotalTokens(a) + a.new, a.ntok)

AllocateSlots(kv, r, a) ==
    LET kv1 == Trimmed(kv, r, a)
        kv2 == IF a.hits # <<>> \/ a.ext > 0
               THEN AllocateNewComputedBlocks(kv1, r, a.hits, LocalTokens(a), a.ext)
               ELSE kv1
        kv3 == AllocateNewBlocks(kv2, r, SlotTokens(a))
    IN  IF BadCall(kv, r, a)
        THEN [kv EXCEPT !.err = TRUE]
        ELSE IF ~CanAllocate(kv, r, a)
        THEN kv1
        ELSE IF ~EnableCaching \/ a.delay
        THEN kv3
        ELSE CacheBlocks(kv3, r, a.hs, TokensToCache(a))

\* Mutant of NumCommonPrefixBlocks: one request may lack the block.
AlmostCommonPrefix(kv, r) ==
    LET bs == kv.table[r]
        all == Cardinality({q \in Reqs : kv.table[q] # <<>>})
    IN  Greatest({k \in 0..Len(bs) : \A i \in 1..k : kv.ref[bs[i]] + 1 >= all})

\* FullAttentionManager.get_num_common_prefix_blocks: the leading blocks of r
\* that every request with a table references.  (No entry of req_to_blocks is
\* empty with full attention, so the entries are the nonempty tables.)
NumCommonPrefixBlocks(kv, r) ==
    LET bs == kv.table[r]
        all == Cardinality({q \in Reqs : kv.table[q] # <<>>})
    IN  Greatest({k \in 0..Len(bs) : \A i \in 1..k : kv.ref[bs[i]] = all})
=============================================================================
