------------------------- MODULE KVAllocationProofs -------------------------
(* Prefix cache hits are distinct blocks of the cache, and allocate_slots    *)
(* preserves the invariant.                                                  *)
EXTENDS KVBlockProofs

-----------------------------------------------------------------------------
(* Prefix cache hits and allocation. *)

\* What find_longest_cache_hit may return: distinct cached blocks and holes.
HitsOK(k, hits) ==
    /\ hits \in Seq(Blocks \cup {Null})
    /\ Distinct(hits)
    /\ \A b \in Blocks : b \in Range(hits) => k.hash[b] # NoHash

\* A sequence of holes and of blocks found under the hashes of a chain is a
\* list of hits.
LEMMA FoundBlocks ==
    ASSUME NEW k, KVOK(k), NEW hs \in Chains, NEW n \in Nat, n <= Len(hs),
           NEW f, f = [i \in 1..n |-> f[i]],
           \A i \in 1..n : \/ f[i] = Null
                           \/ IsCached(k, hs[i]) /\ f[i] = GetCachedBlock(k, hs[i])
    PROVE  HitsOK(k, f)
<1>1. hs \in Seq(Hashes) /\ \A i, j \in DOMAIN hs : hs[i] = hs[j] => i = j
    BY ChainAssumption
<1>2. \A i \in 1..n : i \in DOMAIN hs /\ hs[i] \in Hashes
    BY <1>1
<1>3. ASSUME NEW h \in Hashes, IsCached(k, h)
      PROVE  GetCachedBlock(k, h) \in Blocks /\ k.hash[GetCachedBlock(k, h)] = h
    <2>1. k.map[h] \in Seq(Blocks) /\ k.map[h] # <<>>
        BY <1>3 DEF KVOK, KVRecord, IsCached
    <2>2. 1 \in DOMAIN k.map[h] /\ Head(k.map[h]) = k.map[h][1] /\ k.map[h][1] \in Blocks
        BY <2>1
    <2>3. Head(k.map[h]) \in Range(k.map[h])
        BY <2>2 DEF Range
    <2> QED BY <2>2, <2>3 DEF KVOK, MapOK, GetCachedBlock
<1>4. ASSUME NEW i \in 1..n, f[i] # Null
      PROVE  f[i] \in Blocks /\ k.hash[f[i]] = hs[i]
    BY <1>2, <1>3, <1>4
<1>5. DOMAIN f = 1..n
    OBVIOUS
<1>6. f \in Seq(Blocks \cup {Null})
    <2>1. f \in [1..n -> Blocks \cup {Null}]
        BY <1>4
    <2> QED BY <2>1
<1>7. Distinct(f)
    BY <1>1, <1>2, <1>4, <1>5 DEF Distinct
<1>8. ASSUME NEW b \in Blocks, b \in Range(f) PROVE k.hash[b] # NoHash
    <2>1. PICK i \in 1..n : b = f[i]
        BY <1>5, <1>8 DEF Range
    <2> QED BY <1>2, <1>4, <2>1, NullFresh
<1> QED BY <1>6, <1>7, <1>8 DEF HitsOK

\* The longest cached prefix of a chain is a list of hits.
LEMMA FullAttentionHitOK ==
    ASSUME NEW k, KVOK(k), NEW hs \in Chains, NEW max \in Nat, max <= Len(hs)
    PROVE  HitsOK(k, FullAttentionHit(k, hs, max))
<1> DEFINE S == {n \in 0..max : \A i \in 1..n : IsCached(k, hs[i])}
           n == Greatest(S)
           f == [i \in 1..n |-> GetCachedBlock(k, hs[i])]
<1>1. S \in SUBSET Nat /\ \A m \in S : m <= max
    OBVIOUS
<1>2. 0 \in S
    OBVIOUS
<1>3. n \in S
    <2> HIDE DEF S
    <2> QED BY ZenonT(30), <1>1, <1>2, GreatestElement
<1>4. n \in Nat /\ n <= Len(hs) /\ \A i \in 1..n : IsCached(k, hs[i])
    <2>1. n \in 0..max /\ \A i \in 1..n : IsCached(k, hs[i])
        BY <1>3
    <2>2. Len(hs) \in Nat
        BY ChainAssumption
    <2> HIDE DEF n
    <2> QED BY <2>1, <2>2
<1> HIDE DEF n
<1>5. f = [i \in 1..n |-> f[i]]
    OBVIOUS
<1>6. \A i \in 1..n : IsCached(k, hs[i]) /\ f[i] = GetCachedBlock(k, hs[i])
    BY <1>4
<1>7. f = FullAttentionHit(k, hs, max)
    BY DEF FullAttentionHit, PrefixHits, n
<1> HIDE DEF f
<1>8. HitsOK(k, f)
    BY <1>4, <1>5, <1>6, FoundBlocks
<1> QED BY <1>7, <1>8

\* So is the result of get_computed_blocks.
LEMMA ComputedBlocksOK ==
    ASSUME NEW k, KVOK(k), NEW n \in Nat \ {0}, NEW hs \in Chains,
           Len(hs) = n \div BlockSize
    PROVE  HitsOK(k, GetComputedBlocks(k, hs, n))
<1> DEFINE max == (n - 1) \div BlockSize
           run == Max2(1, CDiv(Window - 1))
           ends == {e \in run..max : \A i \in e - run + 1 .. e : IsCached(k, hs[i])}
           end == Greatest(ends)
           f == [i \in 1..end |-> IF i > end - run THEN GetCachedBlock(k, hs[i]) ELSE Null]
<1>1. max \in Nat /\ max <= Len(hs)
    BY SizesAssumption
<1>2. CASE ~EnableCaching
    <2>1. HitsOK(k, <<>>)
        BY DEF HitsOK, Distinct, Range
    <2> QED BY <1>2, <2>1 DEF GetComputedBlocks
<1>3. CASE EnableCaching /\ (Window = 0 \/ ends = {})
    BY <1>1, <1>3, FullAttentionHitOK DEF GetComputedBlocks, SlidingWindowHit
<1>4. CASE EnableCaching /\ Window # 0 /\ ends # {}
    <2>1. run \in Nat \ {0}
        BY SizesAssumption, <1>4 DEF Max2, CDiv
    <2> HIDE DEF run, max
    <2>2. ends \in SUBSET Nat /\ \A m \in ends : m <= max
        BY <1>1, <2>1
    <2>3. end \in ends
        <3> HIDE DEF ends
        <3> QED BY ZenonT(30), <1>1, <1>4, <2>2, GreatestElement
    <2>4. end \in Nat /\ end <= Len(hs) /\ \A i \in end - run + 1 .. end : IsCached(k, hs[i])
        <3>1. end \in run..max /\ \A i \in end - run + 1 .. end : IsCached(k, hs[i])
            BY <2>3
        <3>2. Len(hs) \in Nat
            BY ChainAssumption
        <3> HIDE DEF end
        <3> QED BY <1>1, <2>1, <3>1, <3>2
    <2> HIDE DEF end
    <2>5. f = [i \in 1..end |-> f[i]]
        OBVIOUS
    <2>6. \A i \in 1..end : \/ f[i] = Null
                            \/ IsCached(k, hs[i]) /\ f[i] = GetCachedBlock(k, hs[i])
        BY <2>1, <2>4
    <2>7. GetComputedBlocks(k, hs, n) = f
        BY <1>4 DEF GetComputedBlocks, SlidingWindowHit, end, run, max
    <2> HIDE DEF f
    <2>8. HitsOK(k, f)
        BY <2>4, <2>5, <2>6, FoundBlocks
    <2> QED BY <2>7, <2>8
<1> QED BY <1>2, <1>3, <1>4

\* The hits behind the window, with holes in front of them.
LEMMA DropHits ==
    ASSUME NEW k, NEW hits, HitsOK(k, hits), NEW m \in Nat
    PROVE  LET kept == Drop(hits, m)
               bs == Nulls(m) \o kept
           IN  /\ HitsOK(k, kept)
               /\ bs \in Seq(Blocks \cup {Null})
               /\ Distinct(bs)
               /\ Held(bs) = Held(kept)
               /\ Len(bs) = Max2(m, Len(hits))
<1> DEFINE T == Blocks \cup {Null}
           len == Len(hits)
           kept == Drop(hits, m)
           nulls == Nulls(m)
           bs == nulls \o kept
<1>1. hits \in Seq(T) /\ Distinct(hits) /\ \A b \in Blocks : b \in Range(hits) => k.hash[b] # NoHash
    BY DEF HitsOK
<1> HIDE DEF T
<1>2. DOMAIN hits = 1..len /\ len \in Nat
    BY <1>1
<1> DEFINE n == Max2(m, len) - m
<1>3. n = (IF m <= len THEN len - m ELSE 0) /\ n \in Nat
    <2> HIDE DEF len
    <2> QED BY <1>2 DEF Max2
<1>4. kept \in Seq(T) /\ Len(kept) = n /\ \A i \in 1..n : kept[i] = hits[m + i] /\ m + i \in DOMAIN hits
    <2>1. \A i \in m + 1 .. len : hits[i] \in T
        BY <1>1, <1>2
    <2>2. m + 1 \in Int /\ len \in Int
        BY <1>2
    <2>3. kept = SubSeq(hits, m + 1, len)
        BY DEF Drop
    <2>4. /\ kept \in Seq(T)
          /\ Len(kept) = IF m + 1 <= len THEN len - (m + 1) + 1 ELSE 0
          /\ \A i \in 1 .. len - (m + 1) + 1 : kept[i] = hits[m + 1 + i - 1]
        <3> HIDE DEF kept, len
        <3> QED BY <2>1, <2>2, <2>3, SubSeqProperties
    <2> HIDE DEF kept, len
    <2>5. Len(kept) = n
        BY <1>2, <1>3, <2>4
    <2>6. ASSUME NEW i \in 1..n PROVE kept[i] = hits[m + i] /\ m + i \in DOMAIN hits
        <3>1. i \in 1 .. len - (m + 1) + 1 /\ m + 1 + i - 1 = m + i /\ m + i \in 1..len
            BY <1>2, <1>3
        <3> QED BY <1>2, <2>4, <3>1
    <2> QED BY <2>4, <2>5, <2>6
<1> HIDE DEF n, kept, len
<1>5. nulls \in Seq(T) /\ Len(nulls) = m /\ \A i \in 1..m : nulls[i] = Null
    <2>1. nulls \in [1..m -> T]
        BY DEF Nulls, T
    <2>2. nulls \in Seq(T) /\ Len(nulls) = m
        BY <2>1
    <2> QED BY <2>2 DEF Nulls
<1> HIDE DEF nulls
<1>6. bs \in Seq(T) /\ Len(bs) = m + n
    <2>1. bs \in Seq(T) /\ Len(bs) = Len(nulls) + Len(kept)
        <3>1. nulls \in Seq(T) /\ kept \in Seq(T)
            BY <1>4, <1>5
        <3> QED BY <3>1, ConcatProperties
    <2> QED BY <1>4, <1>5, <2>1
<1>7. \A i \in 1..m : bs[i] = Null
    BY <1>3, <1>4, <1>5
<1>8. \A i \in 1..n : bs[m + i] = kept[i]
    BY <1>3, <1>4, <1>5
<1>9. DOMAIN kept = 1..n /\ DOMAIN bs = 1 .. m + n
    BY <1>4, <1>6
<1> HIDE DEF bs
<1>10. ASSUME NEW i \in DOMAIN bs, bs[i] # Null
       PROVE  i - m \in 1..n /\ bs[i] = kept[i - m]
    <2>1. ~(i <= m)
        BY <1>7, <1>9, <1>10
    <2>2. i - m \in 1..n /\ m + (i - m) = i
        BY <1>3, <1>9, <2>1
    <2> QED BY <1>8, <2>2
<1>11. Distinct(kept)
    <2> SUFFICES ASSUME NEW i \in 1..n, NEW j \in 1..n, kept[i] = kept[j], kept[i] # Null
                 PROVE  i = j
        BY <1>9 DEF Distinct
    <2>1. m + i = m + j
        BY <1>1, <1>4 DEF Distinct
    <2> QED BY <1>3, <2>1
<1>12. Distinct(bs)
    <2> SUFFICES ASSUME NEW i \in DOMAIN bs, NEW j \in DOMAIN bs, bs[i] = bs[j], bs[i] # Null
                 PROVE  i = j
        BY DEF Distinct
    <2>1. i - m = j - m
        BY <1>9, <1>10, <1>11 DEF Distinct
    <2> QED BY <1>3, <1>9, <2>1
<1>13. Held(bs) = Held(kept)
    <2>1. ASSUME NEW x \in Held(bs) PROVE x \in Held(kept)
        BY <1>9, <1>10, <2>1 DEF Held, Range
    <2>2. ASSUME NEW x \in Held(kept) PROVE x \in Held(bs)
        <3>1. PICK i \in 1..n : x = kept[i] /\ x # Null
            BY <1>9, <2>2 DEF Held, Range
        <3>2. m + i \in DOMAIN bs /\ bs[m + i] = x
            BY <1>3, <1>8, <1>9, <3>1
        <3> QED BY <3>1, <3>2 DEF Held, Range
    <2> QED BY <2>1, <2>2
<1>14. HitsOK(k, kept)
    <2>1. Range(kept) \subseteq Range(hits)
        BY <1>4, <1>9 DEF Range
    <2> QED BY <1>1, <1>4, <1>11, <2>1 DEF HitsOK, T
<1>15. Len(bs) = Max2(m, Len(hits))
    <2>1. m + (Max2(m, len) - m) = Max2(m, len)
        BY <1>2 DEF Max2
    <2> QED BY <1>6, <2>1 DEF n, len
<1> QED BY <1>6, <1>12, <1>13, <1>14, <1>15 DEF bs, kept, nulls, T

\* Setting the error flag changes nothing else.
LEMMA ErrOK ==
    ASSUME NEW k, KVOK(k)
    PROVE  KVOK([k EXCEPT !.err = TRUE])
<1> DEFINE k2 == [k EXCEPT !.err = TRUE]
<1>1. /\ k2 \in KVRecord
      /\ k2.free = k.free /\ k2.ref = k.ref /\ k2.hash = k.hash /\ k2.map = k.map
      /\ k2.table = k.table /\ k2.ncached = k.ncached
    BY ZenonT(30) DEF KVOK, KVRecord
<1> HIDE DEF k2
<1>2. KVOK(k2)
    BY <1>1 DEF KVOK, QueueOK, MapOK, TablesOK, PrivateOK, Holders
<1> QED BY <1>2 DEF k2

\* allocate_new_computed_blocks preserves consistency.
LEMMA AllocateComputedOK ==
    ASSUME NEW k, KVOK(k), NEW r \in Reqs, NEW hits, HitsOK(k, hits),
           NEW local \in Nat, NEW ext \in Nat, Len(hits) * BlockSize <= local
    PROVE  KVOK(AllocateNewComputedBlocks(k, r, hits, local, ext))
<1> DEFINE total == local + ext
           skipped == NumSkippedBlocks(total)
           kept == Drop(hits, skipped)
           bs == Nulls(skipped) \o kept
           k1 == [Touch(k, kept) EXCEPT !.table[r] = bs, !.ncached[r] = Len(bs)]
           n == CDiv(total) - Len(bs)
           f == AllocateNewComputedBlocks(k, r, hits, local, ext)
<1>1. total \in Nat
    OBVIOUS
<1>2. /\ skipped \in Nat /\ CDiv(total) \in Nat /\ skipped <= CDiv(total)
      /\ \A m \in Nat : m * BlockSize <= total => m <= CDiv(total)
    BY ZenonT(30), <1>1, BlockCounts
<1>3. Len(hits) \in Nat /\ Len(hits) <= CDiv(total)
    <2>1. Len(hits) \in Nat
        BY DEF HitsOK
    <2>2. Len(hits) * BlockSize <= total
        BY <2>1, SizesAssumption
    <2> QED BY <1>2, <2>1, <2>2
<1> HIDE DEF total, skipped
<1>4. /\ HitsOK(k, kept) /\ bs \in Seq(Blocks \cup {Null}) /\ Distinct(bs)
      /\ Held(bs) = Held(kept) /\ Len(bs) = Max2(skipped, Len(hits))
    BY ZenonT(30), <1>2, DropHits
<1> HIDE DEF kept, bs
<1>5. n \in Nat
    BY <1>2, <1>3, <1>4 DEF Max2
<1>6. CASE k.ncached[r] # Absent
    BY <1>6 DEF AllocateNewComputedBlocks
<1>7. CASE k.ncached[r] = Absent /\ k.table[r] # <<>>
    BY <1>7, ErrOK DEF AllocateNewComputedBlocks
<1>8. CASE k.ncached[r] = Absent /\ k.table[r] = <<>>
    <2>1. KVOK(k1)
        BY ZenonT(30), <1>4, <1>8, ShareOK DEF HitsOK
    <2>2. KVOK(ExtendTable(k1, r, n))
        BY <1>5, <2>1, ExtendOK
    <2>3. f = k1 \/ f = ExtendTable(k1, r, n)
        BY <1>8 DEF AllocateNewComputedBlocks, total, skipped, kept, bs
    <2> QED BY SMTT(30), <2>1, <2>2, <2>3
<1> QED BY <1>6, <1>7, <1>8

\* The type of a call of allocate_slots.
CallOK(k, a) ==
    /\ a.hs \in Chains
    /\ a.ntok \in Nat /\ a.comp \in Nat /\ a.ext \in Nat /\ a.new \in Nat /\ a.look \in Nat
    /\ HitsOK(k, a.hits)

\* allocate_slots preserves consistency, whatever it returns.
LEMMA AllocateSlotsOK ==
    ASSUME NEW k, KVOK(k), NEW r \in Reqs, NEW a, CallOK(k, a)
    PROVE  KVOK(AllocateSlots(k, r, a))
<1> DEFINE k1 == Trimmed(k, r, a)
           k2 == IF a.hits # <<>> \/ a.ext > 0
                 THEN AllocateNewComputedBlocks(k1, r, a.hits, LocalTokens(a), a.ext)
                 ELSE k1
           k3 == AllocateNewBlocks(k2, r, SlotTokens(a))
           k4 == CacheBlocks(k3, r, a.hs, TokensToCache(a))
<1>1. Len(a.hits) \in Nat
    BY DEF CallOK, HitsOK
<1>2. LocalTokens(a) \in Nat /\ Len(a.hits) * BlockSize <= LocalTokens(a)
    BY SMTT(30), <1>1, SizesAssumption DEF CallOK, LocalTokens
<1>3. TotalTokens(a) \in Nat
    BY <1>2, SizesAssumption DEF CallOK, TotalTokens, Min2
<1>4. SlotTokens(a) \in Nat /\ TokensToCache(a) \in Nat
    BY <1>3, SizesAssumption DEF CallOK, SlotTokens, TokensToCache, Min2
<1>5. KVOK(k1)
    BY <1>3, RemoveSkippedOK DEF Trimmed
<1>6. k1.hash = k.hash
    <2>1. k \in KVRecord
        BY DEF KVOK
    <2> QED BY <2>1 DEF Trimmed, RemoveSkippedBlocks, FreeBlocks, KVRecord
<1>7. HitsOK(k1, a.hits)
    BY <1>6 DEF CallOK, HitsOK
<1> HIDE DEF k1
<1>8. KVOK(k2)
    BY <1>2, <1>5, <1>7, AllocateComputedOK DEF CallOK
<1> HIDE DEF k2
<1>9. KVOK(k3)
    <2> DEFINE n == CDiv(SlotTokens(a)) - Len(k2.table[r])
    <2>1. CASE n <= 0
        BY <1>8, <2>1 DEF AllocateNewBlocks
    <2>2. CASE ~(n <= 0)
        <3>1. k2.table[r] \in Seq(Blocks \cup {Null})
            BY <1>8 DEF KVOK, KVRecord
        <3>2. CDiv(SlotTokens(a)) \in Nat
            BY <1>4, BlockCounts
        <3>3. n \in Nat
            BY <2>2, <3>1, <3>2
        <3> QED BY <1>8, <2>2, <3>3, ExtendOK DEF AllocateNewBlocks
    <2> QED BY <2>1, <2>2
<1> HIDE DEF k3
<1>10. KVOK(k4)
    BY <1>4, <1>9, CacheOK DEF CallOK
<1>11. KVOK([k EXCEPT !.err = TRUE])
    BY ErrOK
<1> QED BY <1>5, <1>9, <1>10, <1>11 DEF AllocateSlots, k1, k2, k3
=============================================================================
