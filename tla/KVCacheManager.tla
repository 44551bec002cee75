---------------------------- MODULE KVCacheManager ----------------------------
(***************************************************************************)
(* KVCacheManager (vllm/v1/core/kv_cache_manager.py) and a client that     *)
(* calls it the way vllm/v1/core/sched/scheduler.py does: requests arrive, *)
(* are looked up in the prefix cache, get slots, produce tokens, are       *)
(* preempted, finish, or wait for blocks a KV connector loads.  The client *)
(* takes no scheduling decision: any request may be served next, with any  *)
(* number of new tokens.  Scheduler.tla is one such client.                *)
(***************************************************************************)
EXTENDS SingleTypeKVCacheManager

CONSTANTS
    Chains,         \* the lists of block hashes a request can have
    MaxTokens,      \* bound: the tokens of a request
    NumSpec,        \* draft tokens that can be scheduled in a step
    MaxPlaceholders,\* num_output_placeholders when a step is scheduled, at most
    Lookahead,      \* num_lookahead_tokens
    Connector,      \* whether a KV connector is configured
    FullLoads,      \* whether it can provide all tokens of a request (NIXL)
    LoadErrors,     \* "never", or kv_load_failure_policy: "fail", "recompute"
    Pipelined,      \* whether a step is scheduled before the last one is over
    Async           \* whether the scheduler is AsyncScheduler

\* Block hashes are chained and free of collisions: the same hash stands at
\* the same place of the list, behind the same hashes (hash_block_tokens).
ASSUME ChainAssumption ==
    /\ Chains \subseteq Seq(Hashes)
    /\ <<>> \in Chains
    /\ \A c, d \in Chains : \A i \in DOMAIN c, j \in DOMAIN d :
          c[i] = d[j] => i = j /\ SubSeq(c, 1, i) = SubSeq(d, 1, j)

ASSUME ClientAssumption ==
    /\ MaxTokens \in Nat
    /\ MaxTokens <= MaxModelLen
    /\ NumSpec \in Nat
    /\ MaxPlaceholders \in Nat
    /\ Lookahead \in Nat
    /\ Connector \in BOOLEAN
    /\ FullLoads \in BOOLEAN
    /\ LoadErrors \in {"never", "fail", "recompute"}
    /\ Pipelined \in BOOLEAN
    /\ Async \in BOOLEAN
    /\ Async \/ MaxPlaceholders = 0

VARIABLES
    kv,         \* the block pool and the block tables
    status,     \* RequestStatus of every request; "sending": finished, but the
                \* connector still reads its blocks
    ntok,       \* num_tokens
    ncomp,      \* num_computed_tokens
    bh          \* block_hashes

vars == <<kv, status, ntok, ncomp, bh>>

Statuses == {"absent", "waiting", "running", "remote", "sending"}

\* The hash lists of a request with n tokens, the first of them hashed as in hs.
HashLists(hs, n) ==
    {c \in Chains : Len(c) = n \div BlockSize /\ SubSeq(c, 1, Len(hs)) = hs}

Init ==
    /\ kv \in KVInit
    /\ status = [r \in Reqs |-> "absent"]
    /\ ntok = [r \in Reqs |-> 0]
    /\ ncomp = [r \in Reqs |-> 0]
    /\ bh = [r \in Reqs |-> <<>>]

-----------------------------------------------------------------------------
\* The arguments of allocate_slots for request r.
Call(r, hits, ext, new, look, delay) ==
    [hs |-> bh[r], ntok |-> ntok[r], comp |-> ncomp[r], hits |-> hits,
     ext |-> ext, new |-> new, look |-> look, delay |-> delay]

\* The tokens a connector can provide behind local ones: whole blocks, or all
\* that the request has.
ExternalTokens(r, local) ==
    LET left == ntok[r] - local
    IN  {ext \in 1..left : IF ext = left THEN FullLoads ELSE ext % BlockSize = 0}

\* add_request.
AddRequest(r) ==
    /\ status[r] = "absent"
    /\ \E n \in 1..MaxTokens : \E hs \in HashLists(<<>>, n) :
          /\ ntok' = [ntok EXCEPT ![r] = n]
          /\ bh' = [bh EXCEPT ![r] = hs]
    /\ status' = [status EXCEPT ![r] = "waiting"]
    /\ UNCHANGED <<kv, ncomp>>

\* The waiting loop of schedule() for a request without computed tokens: the
\* prefix cache is read, ext more tokens may come from the connector, and the
\* request starts to run when there is room.
StartRequest(r) ==
    /\ status[r] = "waiting"
    /\ ncomp[r] = 0
    /\ LET hits == GetComputedBlocks(kv, bh[r], ntok[r])
           local == Len(hits) * BlockSize
       IN \E ext \in {0} \cup IF Connector THEN ExternalTokens(r, local) ELSE {} :
          \E new \in 1 .. ntok[r] - local - ext :
             LET a == Call(r, hits, ext, new, 0, FALSE)
             IN  /\ kv' = AllocateSlots(kv, r, a)
                 /\ IF CanAllocate(kv, r, a)
                    THEN /\ status' = [status EXCEPT ![r] = "running"]
                         /\ ncomp' = [ncomp EXCEPT ![r] = local + ext + new]
                    ELSE UNCHANGED <<status, ncomp>>
    /\ UNCHANGED <<ntok, bh>>

\* The same when the connector loads the tokens asynchronously: blocks are
\* allocated, nothing is computed and nothing is cached yet.
StartLoad(r) ==
    /\ Connector
    /\ status[r] = "waiting"
    /\ ncomp[r] = 0
    /\ LET hits == GetComputedBlocks(kv, bh[r], ntok[r])
           local == Len(hits) * BlockSize
       IN \E ext \in ExternalTokens(r, local) :
             LET a == Call(r, hits, ext, 0, 0, TRUE)
             IN  /\ kv' = AllocateSlots(kv, r, a)
                 /\ IF CanAllocate(kv, r, a)
                    THEN status' = [status EXCEPT ![r] = "remote"]
                    ELSE UNCHANGED status
    /\ UNCHANGED <<ntok, ncomp, bh>>

\* _update_waiting_for_remote_kv after a load that succeeded.
LoadDone(r) ==
    /\ status[r] = "remote"
    /\ LET slots == Min2(Len(kv.table[r]) * BlockSize, ntok[r])
           n == IF slots = ntok[r] THEN slots - 1 ELSE slots
       IN  /\ kv' = CacheBlocksIfEnabled(kv, r, bh[r], n)
           /\ ncomp' = [ncomp EXCEPT ![r] = n]
    /\ status' = [status EXCEPT ![r] = "waiting"]
    /\ UNCHANGED <<ntok, bh>>

\* _update_waiting_for_remote_kv after a load whose first invalid block is the
\* one behind valid blocks (_update_requests_with_invalid_blocks), with the
\* recompute policy.  (With the fail policy the request is finished.)
LoadFailed(r) ==
    /\ LoadErrors = "recompute"
    /\ status[r] = "remote"
    /\ \E valid \in Max2(0, kv.ncached[r]) .. Len(kv.table[r]) - 1 :
          /\ kv' = IF valid > 0
                   THEN CacheBlocksIfEnabled(kv, r, bh[r], valid * BlockSize)
                   ELSE Free(kv, r)
          /\ ncomp' = [ncomp EXCEPT ![r] = valid * BlockSize]
    /\ status' = [status EXCEPT ![r] = "waiting"]
    /\ UNCHANGED <<ntok, bh>>

\* The waiting loop of schedule() for a request whose load is over.
StartLoaded(r) ==
    /\ status[r] = "waiting"
    /\ ncomp[r] > 0
    /\ \E new \in 1 .. ntok[r] - ncomp[r] :
          LET a == Call(r, <<>>, 0, new, Lookahead, FALSE)
          IN  /\ kv' = AllocateSlots(kv, r, a)
              /\ IF CanAllocate(kv, r, a)
                 THEN /\ status' = [status EXCEPT ![r] = "running"]
                      /\ ncomp' = [ncomp EXCEPT ![r] = @ + new]
                 ELSE UNCHANGED <<status, ncomp>>
    /\ UNCHANGED <<ntok, bh>>

\* The running loop of schedule(): slots for new tokens, for the draft tokens
\* behind them and, in AsyncScheduler, for the tokens that are still on the fly.
ContinueRequest(r) ==
    /\ status[r] = "running"
    /\ \E new \in 1 .. Min2(ntok[r] + MaxPlaceholders + NumSpec, MaxModelLen - 1)
                       - ncomp[r] :
          LET a == Call(r, <<>>, 0, new, Lookahead, FALSE)
          IN  /\ kv' = AllocateSlots(kv, r, a)
              /\ ncomp' = IF CanAllocate(kv, r, a)
                          THEN [ncomp EXCEPT ![r] = @ + new] ELSE ncomp
    /\ UNCHANGED <<status, ntok, bh>>

\* update_from_output: the model accepts some of the draft tokens and samples
\* one more; the computed tokens of the rejected ones are taken back.
Output(r) ==
    /\ ~Async
    /\ status[r] = "running"
    /\ ncomp[r] >= ntok[r]
    /\ \E accepted \in 0 .. ncomp[r] - ntok[r] :
          LET n == ntok[r] + accepted + 1
          IN  /\ n <= MaxTokens
              /\ ntok' = [ntok EXCEPT ![r] = n]
              /\ ncomp' = [ncomp EXCEPT ![r] = n - 1]
              /\ \E hs \in HashLists(bh[r], n) : bh' = [bh EXCEPT ![r] = hs]
    /\ UNCHANGED <<kv, status>>

\* The same in AsyncScheduler, where the tokens behind the ones that arrive are
\* scheduled already: the blocks the new tokens fill are cached now.
AsyncOutput(r) ==
    /\ Async
    /\ status[r] = "running"
    /\ \E accepted \in 0 .. NumSpec : \E rejected \in 0 .. NumSpec - accepted :
          LET n == ntok[r] + accepted + 1
          IN  /\ n <= MaxTokens
              /\ n - 1 <= ncomp[r] - rejected
              /\ ntok' = [ntok EXCEPT ![r] = n]
              /\ ncomp' = [ncomp EXCEPT ![r] = @ - rejected]
              /\ \E hs \in HashLists(bh[r], n) :
                    /\ bh' = [bh EXCEPT ![r] = hs]
                    /\ kv' = CacheBlocksIfEnabled(kv, r, hs, n - 1)
    /\ UNCHANGED status

\* The output of a step that was in flight when its request was preempted and
\* gave back its blocks.
LateOutput(r) ==
    /\ Pipelined
    /\ status[r] = "waiting"
    /\ ncomp[r] = 0 /\ kv.table[r] = <<>>
    /\ \E n \in ntok[r] + 1 .. Min2(ntok[r] + 1 + NumSpec, MaxTokens) :
          /\ ntok' = [ntok EXCEPT ![r] = n]
          /\ \E hs \in HashLists(bh[r], n) : bh' = [bh EXCEPT ![r] = hs]
    /\ UNCHANGED <<kv, status, ncomp>>

\* _preempt_request.
Preempt(r) ==
    /\ status[r] = "running"
    /\ kv' = Free(kv, r)
    /\ ncomp' = [ncomp EXCEPT ![r] = 0]
    /\ status' = [status EXCEPT ![r] = "waiting"]
    /\ UNCHANGED <<ntok, bh>>

\* The request is deleted.
Forget(r) ==
    /\ status' = [status EXCEPT ![r] = "absent"]
    /\ ntok' = [ntok EXCEPT ![r] = 0]
    /\ ncomp' = [ncomp EXCEPT ![r] = 0]
    /\ bh' = [bh EXCEPT ![r] = <<>>]

\* _free_request with n computed tokens, the pool and the tables being s.  With
\* a connector the blocks in front of the window are freed first
\* (_connector_finished); the others are freed now, or when they have been sent.
FreeRequest(r, s, n) ==
    LET s1 == IF Connector THEN RemoveSkippedBlocks(s, r, ntok[r]) ELSE s
    IN  \/ kv' = Free(s1, r) /\ Forget(r)
        \/ /\ Connector
           /\ kv' = s1
           /\ status' = [status EXCEPT ![r] = "sending"]
           /\ ncomp' = [ncomp EXCEPT ![r] = n]
           /\ UNCHANGED <<ntok, bh>>

\* A request that stopped, or that was aborted, leaves.
Finish(r) ==
    /\ status[r] \notin {"absent", "sending"}
    /\ FreeRequest(r, kv, ncomp[r])

\* _update_from_kv_xfer_finished: the blocks of r have been sent.
SendDone(r) ==
    /\ status[r] = "sending"
    /\ kv' = Free(kv, r)
    /\ Forget(r)

\* reset_prefix_cache.
Reset ==
    /\ kv' = ResetPrefixCache(kv)
    /\ UNCHANGED <<status, ntok, ncomp, bh>>

\* The blocks of r that the connector may report as invalid.  (The code looks
\* only at the ones that were computed when r started.)
MayBeInvalid(r) ==
    {k \in DOMAIN kv.table[r] : kv.table[r][k] # Null /\ (k - 1) * BlockSize < ncomp[r]}

\* _handle_invalid_blocks with the fail policy: block k of a running request is
\* the first invalid one; it and the blocks behind it leave the prefix cache and
\* the request is finished.
FailLoad(r) ==
    /\ LoadErrors = "fail"
    /\ status[r] = "running"
    /\ \E k \in MayBeInvalid(r) :
          LET bad == {kv.table[r][i] : i \in k..Len(kv.table[r])} \ {Null}
          IN  FreeRequest(r, EvictBlocks(kv, bad), (k - 1) * BlockSize)

\* The same with the recompute policy: the request keeps its blocks, and
\* computes the tokens from the invalid block on again.
RecomputeLoad(r) ==
    /\ LoadErrors = "recompute"
    /\ status[r] = "running"
    /\ \E k \in MayBeInvalid(r) : ncomp' = [ncomp EXCEPT ![r] = (k - 1) * BlockSize]
    /\ UNCHANGED <<kv, status, ntok, bh>>

Next ==
    \/ \E r \in Reqs :
          \/ AddRequest(r)
          \/ StartRequest(r)
          \/ StartLoad(r)
          \/ LoadDone(r)
          \/ LoadFailed(r)
          \/ StartLoaded(r)
          \/ ContinueRequest(r)
          \/ Output(r)
          \/ AsyncOutput(r)
          \/ LateOutput(r)
          \/ Preempt(r)
          \/ Finish(r)
          \/ SendDone(r)
          \/ FailLoad(r)
          \/ RecomputeLoad(r)
    \/ Reset

Spec == Init /\ [][Next]_vars

-----------------------------------------------------------------------------
(* Properties. *)

\* Type correctness of the manager and of its client.
TypeOK ==
    /\ kv \in KVRecord
    /\ status \in [Reqs -> Statuses]
    /\ ntok \in [Reqs -> Nat]
    /\ ncomp \in [Reqs -> Nat]
    /\ bh \in [Reqs -> Chains]

\* The reference count of a block is the number of tables it is in, and the
\* free queue holds each unreferenced block exactly once: no block leaks, none
\* is handed out while in use (touch, free_blocks, get_new_blocks).
RefCountsExact ==
    /\ \A b \in Blocks : kv.ref[b] = Cardinality(Holders(kv, b))
    /\ NoDup(kv.free)
    /\ \A b \in Blocks : b \in Range(kv.free) <=> Holders(kv, b) = {}

\* The map of the prefix cache and the hashes stored in the blocks agree in
\* both directions, whatever was cached, shared, evicted and cached again.
CacheMapExact ==
    \A h \in Hashes :
        /\ NoDup(kv.map[h])
        /\ \A b \in Blocks : b \in Range(kv.map[h]) <=> kv.hash[b] = h

\* No ValueError and no assertion of the block pool or of allocate_slots is
\* ever raised: the capacity check of get_num_blocks_to_allocate covers what
\* touching the hits and allocating take from the free queue, new hits come
\* only to requests without blocks, and no block is hashed twice.
NeverRaises == ~kv.err

\* A block that is written by a request (behind its cached blocks) belongs to
\* that request alone and cannot be found in the prefix cache.
WritableBlocksPrivate ==
    \A r \in Reqs : \A i \in DOMAIN kv.table[r] :
        LET b == kv.table[r][i]
        IN  i > kv.ncached[r] /\ b # Null
            => kv.ref[b] = 1 /\ kv.hash[b] = NoHash

\* A reader of the KV cache events never takes a hash to be cached that is not.
EventsSound == \A h \in kv.pub : IsCached(kv, h)

\* The blocks that cascade attention takes for a common prefix are the first
\* blocks of every request that has blocks (get_num_common_prefix_blocks).
CommonPrefixShared ==
    Window = 0 =>
    \A r, q \in Reqs :
        kv.table[r] # <<>> /\ kv.table[q] # <<>>
        => \A i \in 1..NumCommonPrefixBlocks(kv, r) :
              i \in DOMAIN kv.table[q] /\ kv.table[q][i] = kv.table[r][i]

\* The computed tokens of a request have blocks: every computed position p that
\* the next token attends to (all of them, or the ones inside the window) lies
\* in a block of the table that is no hole.
ComputedTokensHaveBlocks ==
    \A r \in Reqs :
        status[r] \in {"running", "waiting"} =>
        \A p \in 1..ncomp[r] :
            LET i == (p - 1) \div BlockSize + 1
            IN  Window = 0 \/ p + Window > ncomp[r] + 1
                => i \in DOMAIN kv.table[r] /\ kv.table[r][i] # Null

\* Draft tokens, which may still be rejected, are never cached.
NoDraftsCached ==
    \A r \in Reqs : kv.ncached[r] * BlockSize <= ntok[r]

\* A step never takes a hash from a block that a request uses, unless blocks
\* were reported invalid: eviction only hits unreferenced blocks.
UsedBlocksStayCached ==
    [][\A b \in Blocks :
          kv.ref[b] > 0 /\ kv'.ref[b] > 0 /\ kv.hash[b] # NoHash
          => kv'.hash[b] = kv.hash[b] \/ \E r \in Reqs : FailLoad(r)]_vars
=============================================================================
