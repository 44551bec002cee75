-------------------------- MODULE OffloadingManager --------------------------
(* The scheduler's book on offloaded blocks: LRUOffloadingManager on top of *)
(* a CPUBackend.  A state m is a record                                     *)
(*   order      the hashes of the offloaded blocks, least recently used     *)
(*              first (the OrderedDict blocks)                              *)
(*   ref        hash -> ref_cnt: the loads that read the block, -1 while it *)
(*              is being stored                                             *)
(*   addr       hash -> block_id in the memory of the CPU                   *)
(*   allocated  num_allocated_blocks: the blocks 0..allocated-1 were used   *)
(*   freeList   allocated_blocks_free_list, a stack                         *)
EXTENDS Integers, Sequences, FiniteSets, SequencesExt

CONSTANT NumCpuBlocks
ASSUME CpuAssumption == NumCpuBlocks \in Nat \ {0}

EmptyManager ==
    [order |-> <<>>, ref |-> <<>>, addr |-> <<>>, allocated |-> 0,
     freeList |-> <<>>]

Stored(m) == DOMAIN m.ref
IsReady(m, h) == h \in Stored(m) /\ m.ref[h] >= 0
NumFreeBlocks(m) == Len(m.freeList) + NumCpuBlocks - m.allocated

\* The number of leading blocks that can be loaded.
Lookup(m, hashes) ==
    Max({n \in 0..Len(hashes) : \A i \in 1..n : IsReady(m, hashes[i])})

\* touch walks the hashes backwards: the first one becomes the most recent.
Touch(m, hashes) ==
    LET touched == SelectSeq(hashes, LAMBDA h : h \in Stored(m))
    IN  [m EXCEPT !.order =
            SelectSeq(@, LAMBDA h : h \notin ToSet(touched)) \o Reverse(touched)]

AddRef(m, hashes, d) ==
    [m EXCEPT !.ref = [h \in DOMAIN @ |-> @[h] + IF h \in hashes THEN d ELSE 0]]

CanPrepareLoad(m, hashes) == \A h \in hashes : IsReady(m, h)
PrepareLoad(m, hashes) == AddRef(m, hashes, 1)

CanCompleteLoad(m, hashes) ==
    \A h \in hashes : h \in Stored(m) /\ m.ref[h] > 0
CompleteLoad(m, hashes) == AddRef(m, hashes, -1)

\* A bug: a block is a victim although it is being loaded or stored.
EvictableInUse(m) == m.order

\* Victims of the eviction, least recently used first.
Evictable(m) == SelectSeq(m.order, LAMBDA h : m.ref[h] = 0)

Evict(m, victims) ==
    LET left == Stored(m) \ ToSet(victims)
    IN  [m EXCEPT !.order = SelectSeq(@, LAMBDA h : h \in left),
                  !.ref = [h \in left |-> @[h]],
                  !.addr = [h \in left |-> @[h]],
                  !.freeList = @ \o [i \in DOMAIN victims |-> m.addr[victims[i]]]]

\* CPUBackend.allocate_blocks and the insertion into blocks: fresh blocks
\* first, then those on top of the stack.
Allocate(m, hashes) ==
    LET fresh == Min({Len(hashes), NumCpuBlocks - m.allocated})
        reused == Len(hashes) - fresh
        top == Len(m.freeList)
        Id(i) == IF i <= fresh THEN m.allocated + i - 1
                 ELSE m.freeList[top - (i - fresh) + 1]
    IN  [order |-> m.order \o hashes,
         ref |-> [h \in Stored(m) \cup ToSet(hashes) |->
                     IF h \in Stored(m) THEN m.ref[h] ELSE -1],
         addr |-> [h \in Stored(m) \cup ToSet(hashes) |->
                      IF h \in Stored(m) THEN m.addr[h]
                      ELSE Id(CHOOSE i \in DOMAIN hashes : hashes[i] = h)],
         allocated |-> m.allocated + fresh,
         freeList |-> SubSeq(m.freeList, 1, top - reused)]

\* prepare_store: the hashes that are not offloaded yet get a block, at the
\* expense of the least recently used ones.  Without enough victims nothing
\* changes (None).
NewHashes(m, hashes) == SelectSeq(hashes, LAMBDA h : h \notin Stored(m))
NumToEvict(m, hashes) ==
    Max({0, Len(NewHashes(m, hashes)) - NumFreeBlocks(m)})
CanPrepareStore(m, hashes) == NumToEvict(m, hashes) <= Len(Evictable(m))
PrepareStore(m, hashes) ==
    Allocate(Evict(m, SubSeq(Evictable(m), 1, NumToEvict(m, hashes))),
             NewHashes(m, hashes))

CanCompleteStore(m, hashes) == hashes \subseteq Stored(m)
CompleteStore(m, hashes) ==
    [m EXCEPT !.ref = [h \in DOMAIN @ |->
        IF h \in hashes /\ @[h] = -1 THEN 0 ELSE @[h]]]
=============================================================================
