------------------------------ MODULE BlockPool ------------------------------
(***************************************************************************)
(* The pool of KV cache blocks of vllm/v1/core/block_pool.py.              *)
(*                                                                         *)
(* The state of the pool is four fields of a record p:                     *)
(*   p.free  the free queue, head first: the head is evicted first         *)
(*           (FreeKVCacheBlockQueue; FreeBlockQueue.tla is its linked list) *)
(*   p.ref   KVCacheBlock.ref_cnt of every block                           *)
(*   p.hash  KVCacheBlock.block_hash of every block, or NoHash             *)
(*   p.map   cached_block_hash_to_block: for every hash the cached blocks  *)
(*           that carry it, in the insertion order of the code's dict      *)
(*   p.pub   kv_event_queue, by its effect: the hashes that a reader of    *)
(*           the BlockStored, BlockRemoved and AllBlocksCleared events     *)
(*           takes to be cached                                            *)
(*   p.err   an assertion or a ValueError of the code has been raised      *)
(* The operators are the methods of BlockPool: each takes the record       *)
(* before the call to the record after it.  They leave every other field   *)
(* of p alone, so that a manager can keep its own fields in the record.    *)
(* The null block is the value Null: it fills holes of a block table and   *)
(* is no member of Blocks (the code never maintains its ref_cnt).          *)
(***************************************************************************)
EXTENDS Integers, Sequences, FiniteSets, Functions

CONSTANTS
    Blocks,     \* the blocks other than the null block
    Hashes,     \* the block hashes (hash_block_tokens with the group id)
    NoHash,     \* KVCacheBlock.block_hash is None
    Null        \* BlockPool.null_block

ASSUME BlocksFinite == IsFiniteSet(Blocks)
ASSUME NullFresh == Null \notin Blocks /\ NoHash \notin Hashes

-----------------------------------------------------------------------------
(* Sequences of blocks. *)

\* How often b occurs in the sequence s.
Count(b, s) == Cardinality({i \in DOMAIN s : s[i] = b})

\* The positions of s whose element is outside the set S.
KeptAt(s, S) == {i \in DOMAIN s : s[i] \notin S}

\* s without the elements of S, the others in their order.  (Written with the
\* rank of a position instead of SelectSeq, so that proofs can count.)
Without(s, S) ==
    LET kept == KeptAt(s, S)
    IN  [k \in 1..Cardinality(kept) |->
            s[CHOOSE i \in kept : Cardinality({j \in kept : j <= i}) = k]]

\* The list [b for b in s if b is in the set S].
Only(s, S) == Without(s, Range(s) \ S)

NoDup(s) == \A i, j \in DOMAIN s : s[i] = s[j] => i = j

-----------------------------------------------------------------------------
(* The methods of BlockPool. *)

\* BlockHashToBlockMap.get_one_block: the block inserted first.
IsCached(p, h) == p.map[h] # <<>>
GetCachedBlock(p, h) == Head(p.map[h])

\* Mutants of EvictBlocks: the hash of the block is not reset; the removal is
\* not announced.
EvictKeepingHash(p, S) ==
    LET out == {b \in S : p.hash[b] # NoHash /\ b \in Range(p.map[p.hash[b]])}
    IN  [p EXCEPT !.map = [h \in Hashes |->
                              Without(p.map[h], {b \in out : p.hash[b] = h})],
                  !.pub = p.pub \ {p.hash[b] : b \in out}]

EvictSilently(p, S) ==
    LET out == {b \in S : p.hash[b] # NoHash /\ b \in Range(p.map[p.hash[b]])}
    IN  [p EXCEPT !.map = [h \in Hashes |->
                              Without(p.map[h], {b \in out : p.hash[b] = h})],
                  !.hash = [b \in Blocks |->
                              IF b \in out THEN NoHash ELSE p.hash[b]]]

\* _maybe_evict_cached_block for every block of S: a block that is in the map
\* under its own hash leaves it, loses the hash and is announced as removed.
EvictBlocks(p, S) ==
    LET out == {b \in S : p.hash[b] # NoHash /\ b \in Range(p.map[p.hash[b]])}
    IN  [p EXCEPT !.map = [h \in Hashes |->
                              Without(p.map[h], {b \in out : p.hash[b] = h})],
                  !.hash = [b \in Blocks |->
                              IF b \in out THEN NoHash ELSE p.hash[b]],
                  !.pub = p.pub \ {p.hash[b] : b \in out}]

\* get_new_blocks(n): the n blocks at the head of the free queue, evicted
\* from the prefix cache; asking for more than there are is a ValueError.
NewBlocks(p, n) == IF n > Len(p.free) THEN <<>> ELSE SubSeq(p.free, 1, n)

\* Mutant of GetNewBlocks: the blocks keep their place in the prefix cache.
GetNewWithoutEvicting(p, n) ==
    LET new == Range(NewBlocks(p, n))
    IN  [p EXCEPT !.free = SubSeq(p.free, n + 1, Len(p.free)),
                  !.ref = [b \in Blocks |->
                             IF b \in new THEN p.ref[b] + 1 ELSE p.ref[b]]]

GetNewBlocks(p, n) ==
    LET new == Range(NewBlocks(p, n))
    IN  IF n > Len(p.free)
        THEN [p EXCEPT !.err = TRUE]
        ELSE [EvictBlocks(p, new) EXCEPT
                 !.free = SubSeq(p.free, n + 1, Len(p.free)),
                 !.ref = [b \in Blocks |->
                            IF b \in new THEN p.ref[b] + 1 ELSE p.ref[b]],
                 !.err = p.err \/ \E b \in new : p.ref[b] # 0]

\* Mutant of Touch: the block stays in the free queue.
TouchInQueue(p, bs) ==
    [p EXCEPT !.ref = [b \in Blocks |-> p.ref[b] + Count(b, bs)]]

\* touch(bs): one more reference to every block of bs; a block nobody
\* referenced leaves the free queue.
Touch(p, bs) ==
    [p EXCEPT !.free = Without(p.free,
                          {b \in Blocks \cap Range(bs) : p.ref[b] = 0}),
              !.ref = [b \in Blocks |-> p.ref[b] + Count(b, bs)]]

\* free_blocks(bs): one reference less to every block of bs; then the blocks
\* nobody references any more join the tail of the free queue, in the order
\* of bs.
FreeBlocks(p, bs) ==
    LET ref == [b \in Blocks |-> p.ref[b] - Count(b, bs)]
    IN  [p EXCEPT !.free = p.free \o Only(bs, {b \in Blocks : ref[b] = 0}),
                  !.ref = ref]

\* cache_full_blocks: the blocks at the positions from+1..to of the table bs
\* get the hashes hs at these positions, enter the map and are announced as
\* stored.  Null is skipped.  A hash list that is too short, and a block that
\* has a hash already, fail an assertion of the code.
CacheFullBlocks(p, bs, hs, from, to) ==
    LET at == {i \in DOMAIN bs : from < i /\ i <= to /\ bs[i] # Null}
        pos(b) == CHOOSE i \in at : bs[i] = b
        entry(h) == CHOOSE i \in at : hs[i] = h
    IN  IF Len(hs) < to
        THEN [p EXCEPT !.err = TRUE]
        ELSE [p EXCEPT
                !.hash = [b \in Blocks |->
                    IF \E i \in at : bs[i] = b THEN hs[pos(b)] ELSE p.hash[b]],
                !.map = [h \in Hashes |->
                    IF \E i \in at : hs[i] = h
                    THEN Append(p.map[h], bs[entry(h)]) ELSE p.map[h]],
                !.pub = p.pub \cup {hs[i] : i \in at},
                !.err = p.err \/ \E i \in at : p.hash[bs[i]] # NoHash]

\* Mutant of CanReset: blocks in use do not stop the reset.
ResetAnytime(p) == TRUE

\* reset_prefix_cache: succeeds only while no block but the null block is used.
CanReset(p) == Len(p.free) = Cardinality(Blocks)

ResetPrefixCache(p) ==
    IF CanReset(p)
    THEN [p EXCEPT !.map = [h \in Hashes |-> <<>>],
                   !.hash = [b \in Blocks |-> NoHash],
                   !.pub = {}]
    ELSE p
=============================================================================
