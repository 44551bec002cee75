--------------------------- MODULE KVBlockProofs ----------------------------
(* The operations that add blocks to a table or to the prefix cache preserve *)
(* the invariant.                                                            *)
EXTENDS KVInvariantProofs

\* Extending a table by new blocks preserves consistency.
LEMMA ExtendOK ==
    ASSUME NEW k, KVOK(k), NEW r \in Reqs, NEW n \in Nat
    PROVE  KVOK(ExtendTable(k, r, n))
<1>1. /\ k \in KVRecord /\ QueueOK(k) /\ MapOK(k) /\ TablesOK(k) /\ PrivateOK(k)
      /\ k.free \in Seq(Blocks) /\ k.table[r] \in Seq(Blocks \cup {Null})
    BY DEF KVOK, KVRecord
<1>2. CASE n > Len(k.free)
    <2> DEFINE k2 == [k EXCEPT !.err = TRUE]
    <2>1. k.table[r] \o <<>> = k.table[r]
        BY <1>1
    <2>2. ExtendTable(k, r, n) = k2
        BY ZenonT(30), <1>1, <1>2, <2>1
          DEF ExtendTable, GetNewBlocks, NewBlocks, KVRecord
    <2>3. /\ k2 \in KVRecord
          /\ k2.free = k.free /\ k2.ref = k.ref /\ k2.hash = k.hash /\ k2.map = k.map
          /\ k2.table = k.table /\ k2.ncached = k.ncached
        BY ZenonT(30), <1>1 DEF KVRecord
    <2> HIDE DEF k2
    <2>4. QueueOK(k2)
        BY <1>1, <2>3 DEF QueueOK
    <2>5. MapOK(k2)
        BY <1>1, <2>3 DEF MapOK
    <2>6. TablesOK(k2)
        BY <1>1, <2>3 DEF TablesOK, Holders
    <2>7. PrivateOK(k2)
        BY <1>1, <2>3 DEF PrivateOK
    <2> QED BY <2>2, <2>3, <2>4, <2>5, <2>6, <2>7 DEF KVOK
<1>3. CASE ~(n > Len(k.free))
    <2> DEFINE new == SubSeq(k.free, 1, n)
               rest == SubSeq(k.free, n + 1, Len(k.free))
               N == Range(new)
               e == EvictBlocks(k, N)
               ref == [b \in Blocks |-> IF b \in N THEN k.ref[b] + 1 ELSE k.ref[b]]
               err == k.err \/ \E b \in N : k.ref[b] # 0
               tab == k.table[r] \o new
               k2 == [e EXCEPT !.free = rest, !.ref = ref, !.err = err, !.table[r] = tab]
    <2>1. NoDup(k.free) /\ n \in 0..Len(k.free)
        BY <1>1, <1>3 DEF QueueOK
    <2>2. /\ new \in Seq(Blocks) /\ rest \in Seq(Blocks)
          /\ NoDup(new) /\ NoDup(rest)
          /\ Range(new) \cap Range(rest) = {}
          /\ Range(new) \cup Range(rest) = Range(k.free)
        BY <1>1, <2>1, SplitNoDup
    <2> HIDE DEF new, rest
    <2>3. N \in SUBSET Blocks
        BY <2>2 DEF Range
    <2>4. /\ KVOK(e) /\ e.table = k.table /\ e.ncached = k.ncached
          /\ \A b \in Blocks : e.hash[b] = IF b \in N THEN NoHash ELSE k.hash[b]
        BY <2>3, EvictOK
    <2> HIDE DEF N
    <2>5. \A b \in Blocks : b \in N => k.ref[b] = 0 /\ b \notin Range(rest)
        BY <1>1, <2>2 DEF QueueOK, N
    <2>6. \A b \in Blocks : ref[b] = IF b \in N THEN 1 ELSE k.ref[b]
        BY <2>5
    <2>7. ref \in [Blocks -> Nat]
        <3>1. \A b \in Blocks : k.ref[b] \in Nat
            BY <1>1 DEF KVRecord
        <3> QED BY <2>6, <3>1
    <2>8. tab \in Seq(Blocks \cup {Null}) /\ err \in BOOLEAN
        <3>1. new \in Seq(Blocks \cup {Null})
            BY <2>2
        <3>2. err \in BOOLEAN
            BY <1>1 DEF KVRecord
        <3> QED BY <1>1, <3>1, <3>2
    <2>9. ExtendTable(k, r, n) = k2
        <3>1. NewBlocks(k, n) = new
            BY <1>3 DEF NewBlocks, new
        <3>2. GetNewBlocks(k, n) = [e EXCEPT !.free = rest, !.ref = ref, !.err = err]
            BY <1>3, <3>1 DEF GetNewBlocks, rest, N
        <3>3. e \in KVRecord
            BY <2>4 DEF KVOK
        <3> HIDE DEF e, ref, err
        <3>4. GetNewBlocks(k, n).table[r] = k.table[r]
            BY <2>4, <3>2, <3>3 DEF KVRecord
        <3> QED BY ZenonT(30), <3>1, <3>2, <3>3, <3>4 DEF ExtendTable, KVRecord
    <2> HIDE DEF e, ref, err, tab
    <2>10. /\ k2 \in KVRecord
           /\ k2.free = rest /\ k2.ref = ref /\ k2.hash = e.hash /\ k2.map = e.map
           /\ k2.table = [k.table EXCEPT ![r] = tab] /\ k2.ncached = k.ncached
        BY ZenonT(30), <2>2, <2>4, <2>7, <2>8 DEF KVOK, KVRecord
    <2> HIDE DEF k2
    <2>11. \A q \in Reqs : k2.table[q] = IF q = r THEN tab ELSE k.table[q]
        BY <1>1, <2>10 DEF KVRecord
    <2>12. \A b \in Blocks : b \in N => \A q \in Reqs : b \notin Range(k.table[q])
        BY <2>5, SoleHolder
    <2>13. /\ Range(tab) = Range(k.table[r]) \cup N
           /\ Distinct(tab)
           /\ \A i \in DOMAIN tab :
                 \/ i \in DOMAIN k.table[r] /\ tab[i] = k.table[r][i]
                 \/ tab[i] \in N
        <3> DEFINE bs == k.table[r]
        <3>1. /\ DOMAIN bs = 1..Len(bs) /\ Len(bs) \in Nat
              /\ DOMAIN new = 1..Len(new) /\ Len(new) \in Nat
              /\ DOMAIN tab = 1 .. Len(bs) + Len(new)
              /\ \A i \in 1..Len(bs) : tab[i] = bs[i]
              /\ \A i \in 1..Len(new) : tab[Len(bs) + i] = new[i]
            BY <1>1, <2>2 DEF tab
        <3>2. ASSUME NEW i \in DOMAIN tab
              PROVE  \/ i \in DOMAIN bs /\ tab[i] = bs[i]
                     \/ i - Len(bs) \in DOMAIN new /\ tab[i] = new[i - Len(bs)]
            <4>1. CASE i <= Len(bs)
                BY <3>1, <4>1
            <4>2. CASE i > Len(bs)
                <5>1. i - Len(bs) \in 1..Len(new) /\ Len(bs) + (i - Len(bs)) = i
                    BY SMTT(30), <3>1, <4>2
                <5> QED BY <3>1, <5>1
            <4> QED BY <3>1, <4>1, <4>2
        <3>3. ASSUME NEW i \in DOMAIN tab
              PROVE  \/ i \in DOMAIN bs /\ tab[i] = bs[i] /\ tab[i] \notin N
                     \/ i - Len(bs) \in DOMAIN new /\ tab[i] = new[i - Len(bs)] /\ tab[i] \in N
            <4>1. ASSUME NEW j \in DOMAIN bs PROVE bs[j] \notin N
                BY <2>3, <2>12 DEF Range, N
            <4> QED BY <3>2, <4>1 DEF Range, N
        <3>4. Range(tab) = Range(bs) \cup N
            <4>1. Range(tab) \subseteq Range(bs) \cup N
                BY <3>3 DEF Range
            <4>2. Range(bs) \subseteq Range(tab)
                BY <3>1 DEF Range
            <4>3. N \subseteq Range(tab)
                <5> SUFFICES ASSUME NEW i \in 1..Len(new) PROVE new[i] \in Range(tab)
                    BY <3>1 DEF N, Range
                <5>1. Len(bs) + i \in DOMAIN tab
                    BY <3>1
                <5> QED BY ZenonT(30), <3>1, <5>1 DEF Range
            <4> QED BY <4>1, <4>2, <4>3
        <3>5. Distinct(tab)
            <4> SUFFICES ASSUME NEW i \in DOMAIN tab, NEW j \in DOMAIN tab,
                                tab[i] = tab[j], tab[i] # Null
                         PROVE  i = j
                BY DEF Distinct
            <4>1. CASE tab[i] \in N
                <5>1. i - Len(bs) = j - Len(bs)
                    BY <2>2, <3>3, <4>1 DEF NoDup
                <5> QED BY SMTT(30), <3>1, <5>1
            <4>2. CASE tab[i] \notin N
                BY <1>1, <3>3, <4>2 DEF TablesOK, Distinct
            <4> QED BY <4>1, <4>2
        <3> QED BY <3>3, <3>4, <3>5
    <2>14. QueueOK(k2)
        <3>1. ASSUME NEW b \in Blocks PROVE b \in Range(rest) <=> ref[b] = 0
            BY SMTT(30), <1>1, <2>2, <2>5, <2>6 DEF QueueOK, N
        <3> QED BY <2>2, <2>10, <3>1 DEF QueueOK
    <2>15. MapOK(k2)
        BY <2>4, <2>10 DEF KVOK, MapOK
    <2>16. TablesOK(k2)
        <3>1. \A q \in Reqs : Distinct(k2.table[q])
            BY <1>1, <2>11, <2>13 DEF TablesOK
        <3>2. ASSUME NEW b \in Blocks PROVE ref[b] = Cardinality(Holders(k2, b))
            <4>1. CASE b \in N
                <5>1. Holders(k2, b) = {r}
                    BY <2>11, <2>12, <2>13, <4>1 DEF Holders
                <5> QED BY ZenonT(30), <2>6, <4>1, <5>1, FS_Singleton
            <4>2. CASE b \notin N
                <5>1. Holders(k2, b) = Holders(k, b)
                    BY SMTT(30), <2>11, <2>13, <4>2 DEF Holders
                <5> QED BY <1>1, <2>6, <4>2, <5>1 DEF TablesOK
            <4> QED BY <4>1, <4>2
        <3> QED BY <2>10, <3>1, <3>2 DEF TablesOK
    <2>17. PrivateOK(k2)
        <3> SUFFICES ASSUME NEW q \in Reqs, NEW i \in DOMAIN k2.table[q],
                            i > k2.ncached[q], k2.table[q][i] # Null
                     PROVE  k2.ref[k2.table[q][i]] = 1 /\ k2.hash[k2.table[q][i]] = NoHash
            BY DEF PrivateOK
        <3> DEFINE b == k2.table[q][i]
        <3>1. b \in Blocks
            BY <2>10 DEF KVRecord
        <3>2. CASE b \in N
            BY SMTT(30), <2>4, <2>6, <2>10, <3>1, <3>2
        <3>3. CASE b \notin N
            <4>1. i \in DOMAIN k.table[q] /\ b = k.table[q][i]
                BY SMTT(30), <2>11, <2>13, <3>3
            <4>2. k.ref[b] = 1 /\ k.hash[b] = NoHash
                BY <1>1, <2>10, <4>1 DEF PrivateOK
            <4> QED BY SMTT(30), <2>4, <2>6, <2>10, <3>1, <3>3, <4>2
        <3> QED BY SMTT(30), <3>2, <3>3
    <2> QED BY <2>9, <2>10, <2>14, <2>15, <2>16, <2>17 DEF KVOK
<1> QED BY <1>2, <1>3

\* Giving cached blocks to a request without blocks, behind holes, preserves
\* consistency: touch and the new table of allocate_new_computed_blocks.
LEMMA ShareOK ==
    ASSUME NEW k, KVOK(k), NEW r \in Reqs, k.table[r] = <<>>,
           NEW kept \in Seq(Blocks \cup {Null}), Distinct(kept),
           \A b \in Blocks : b \in Range(kept) => k.hash[b] # NoHash,
           NEW bs \in Seq(Blocks \cup {Null}), Distinct(bs), Held(bs) = Held(kept)
    PROVE  KVOK([Touch(k, kept) EXCEPT !.table[r] = bs, !.ncached[r] = Len(bs)])
<1> DEFINE idle == {b \in Blocks \cap Range(kept) : k.ref[b] = 0}
           free == Without(k.free, idle)
           ref == [b \in Blocks |-> k.ref[b] + Count(b, kept)]
           k2 == [Touch(k, kept) EXCEPT !.table[r] = bs, !.ncached[r] = Len(bs)]
<1>1. k \in KVRecord /\ QueueOK(k) /\ MapOK(k) /\ TablesOK(k) /\ PrivateOK(k)
    BY DEF KVOK
<1>2. k.free \in Seq(Blocks) /\ NoDup(k.free) /\ \A b \in Blocks : k.ref[b] \in Nat
    BY <1>1 DEF KVRecord, QueueOK
<1>3. \A b \in Blocks : ref[b] = IF b \in Range(kept) THEN k.ref[b] + 1 ELSE k.ref[b]
    <2>1. \A b \in Blocks : Count(b, kept) = IF b \in Range(kept) THEN 1 ELSE 0
        BY CountDistinct
    <2> QED BY <1>2, <2>1
<1>4. ref \in [Blocks -> Nat]
    BY <1>2, <1>3
<1>5. free \in Seq(Blocks) /\ NoDup(free) /\ Range(free) = Range(k.free) \ idle
    BY <1>2, WithoutProperties
<1>6. \A b \in Blocks : b \in Range(bs) <=> b \in Range(kept)
    BY NullFresh DEF Held
<1>7. \A b \in Blocks : b \in Range(free) <=> ref[b] = 0
    BY <1>1, <1>2, <1>3, <1>5 DEF QueueOK
<1>8. Touch(k, kept) = [k EXCEPT !.free = free, !.ref = ref]
    BY DEF Touch
<1> HIDE DEF free, ref
<1>9. /\ k2 \in KVRecord
      /\ k2.free = free /\ k2.ref = ref /\ k2.hash = k.hash /\ k2.map = k.map
      /\ k2.table = [k.table EXCEPT ![r] = bs]
      /\ k2.ncached = [k.ncached EXCEPT ![r] = Len(bs)]
    <2>1. Len(bs) \in Nat
        OBVIOUS
    <2> QED BY ZenonT(30), <1>1, <1>4, <1>5, <1>8, <2>1 DEF KVRecord
<1> HIDE DEF k2
<1>10. \A q \in Reqs : /\ k2.table[q] = IF q = r THEN bs ELSE k.table[q]
                       /\ k2.ncached[q] = IF q = r THEN Len(bs) ELSE k.ncached[q]
    BY <1>1, <1>9 DEF KVRecord
<1>11. QueueOK(k2) /\ MapOK(k2)
    BY SMTT(30), <1>1, <1>5, <1>7, <1>9 DEF QueueOK, MapOK
<1>12. TablesOK(k2)
    <2>1. \A q \in Reqs : Distinct(k2.table[q])
        BY <1>1, <1>10 DEF TablesOK
    <2>2. Range(<<>>) = {}
        BY DEF Range
    <2>3. ASSUME NEW b \in Blocks PROVE ref[b] = Cardinality(Holders(k2, b))
        <3>1. k.ref[b] = Cardinality(Holders(k, b)) /\ r \notin Holders(k, b)
            BY SMTT(30), <1>1, <2>2 DEF TablesOK, Holders
        <3>2. CASE b \in Range(kept)
            <4>1. Holders(k2, b) = Holders(k, b) \cup {r}
                BY <1>6, <1>10, <3>2 DEF Holders
            <4>2. IsFiniteSet(Holders(k, b))
                BY HoldersFinite
            <4>3. Cardinality(Holders(k, b) \cup {r}) = Cardinality(Holders(k, b)) + 1
                BY ZenonT(30), <3>1, <4>2, FS_AddElement
            <4> QED BY SMTT(30), <1>3, <3>1, <3>2, <4>1, <4>3
        <3>3. CASE b \notin Range(kept)
            <4>1. Holders(k2, b) = Holders(k, b)
                BY SMTT(30), <1>6, <1>10, <3>1, <3>3 DEF Holders
            <4> QED BY <1>3, <3>1, <3>3, <4>1
        <3> QED BY <3>2, <3>3
    <2> QED BY SMTT(30), <1>9, <2>1, <2>3 DEF TablesOK
<1>13. PrivateOK(k2)
    <2> SUFFICES ASSUME NEW q \in Reqs, NEW i \in DOMAIN k2.table[q],
                        i > k2.ncached[q], k2.table[q][i] # Null
                 PROVE  k2.ref[k2.table[q][i]] = 1 /\ k2.hash[k2.table[q][i]] = NoHash
        BY DEF PrivateOK
    <2>1. q # r
        <3> SUFFICES ASSUME q = r PROVE FALSE
            OBVIOUS
        <3>1. i \in 1..Len(bs) /\ i > Len(bs) /\ Len(bs) \in Nat
            BY SMTT(30), <1>10
        <3> QED BY <3>1
    <2> DEFINE b == k2.table[q][i]
    <2>2. b \in Blocks /\ k.ref[b] = 1 /\ k.hash[b] = NoHash
        BY <1>1, <1>10, <2>1 DEF PrivateOK, KVRecord
    <2> QED BY SMTT(30), <1>3, <1>9, <2>2
<1> QED BY <1>9, <1>11, <1>12, <1>13 DEF KVOK, k2

\* cache_blocks preserves consistency.
LEMMA CacheOK ==
    ASSUME NEW k, KVOK(k), NEW r \in Reqs, NEW hs \in Chains, NEW n \in Nat
    PROVE  KVOK(CacheBlocks(k, r, hs, n))
<1> DEFINE from == Max2(k.ncached[r], 0)
           to == n \div BlockSize
           bs == k.table[r]
           at == {i \in DOMAIN bs : from < i /\ i <= to /\ bs[i] # Null}
           pos(b) == CHOOSE i \in at : bs[i] = b
           entry(h) == CHOOSE i \in at : hs[i] = h
           hash == [b \in Blocks |-> IF \E i \in at : bs[i] = b THEN hs[pos(b)] ELSE k.hash[b]]
           map == [h \in Hashes |-> IF \E i \in at : hs[i] = h
                                    THEN Append(k.map[h], bs[entry(h)]) ELSE k.map[h]]
           pub == k.pub \cup {hs[i] : i \in at}
           err == k.err \/ \E i \in at : k.hash[bs[i]] # NoHash
<1>1. /\ k \in KVRecord /\ QueueOK(k) /\ MapOK(k) /\ TablesOK(k) /\ PrivateOK(k)
      /\ bs \in Seq(Blocks \cup {Null}) /\ Distinct(bs)
      /\ k.ncached[r] \in Nat \cup {Absent}
    BY DEF KVOK, KVRecord, TablesOK
<1>2. to \in Nat /\ from \in Nat /\ from >= k.ncached[r]
    <2>1. to \in Nat
        BY BlockCounts
    <2> QED BY <1>1, <2>1 DEF Max2, Absent
<1> HIDE DEF from, to
<1>3. CASE from >= to
    BY <1>3 DEF CacheBlocks, from, to
<1>4. CASE ~(from >= to) /\ Len(hs) < to
    <2> DEFINE k2 == [k EXCEPT !.err = TRUE, !.ncached[r] = to]
    <2>1. CacheBlocks(k, r, hs, n) = k2
        BY <1>1, <1>4 DEF CacheBlocks, CacheFullBlocks, from, to, KVRecord
    <2>2. /\ k2 \in KVRecord
          /\ k2.free = k.free /\ k2.ref = k.ref /\ k2.hash = k.hash /\ k2.map = k.map
          /\ k2.table = k.table /\ k2.ncached = [k.ncached EXCEPT ![r] = to]
        BY ZenonT(30), <1>1, <1>2 DEF KVRecord
    <2> HIDE DEF k2
    <2>3. QueueOK(k2) /\ MapOK(k2) /\ TablesOK(k2)
        BY SMTT(30), <1>1, <2>2 DEF QueueOK, MapOK, TablesOK, Holders
    <2>4. PrivateOK(k2)
        <3>1. \A q \in Reqs : \A i \in Nat : i > k2.ncached[q] => i > k.ncached[q]
            BY <1>1, <1>2, <1>4, <2>2 DEF KVRecord, Absent
        <3>2. \A q \in Reqs : DOMAIN k.table[q] \subseteq Nat
            BY <1>1 DEF KVRecord
        <3> QED BY SMTT(30), <1>1, <2>2, <3>1, <3>2 DEF PrivateOK
    <2> QED BY <2>1, <2>2, <2>3, <2>4 DEF KVOK
<1>5. CASE ~(from >= to) /\ ~(Len(hs) < to)
    <2> DEFINE k2 == [k EXCEPT !.hash = hash, !.map = map, !.pub = pub, !.err = err,
                               !.ncached[r] = to]
    <2>1. hs \in Seq(Hashes) /\ \A i, j \in DOMAIN hs : hs[i] = hs[j] => i = j
        BY ChainAssumption
    <2>2. \A i \in at : /\ i \in DOMAIN bs /\ i \in DOMAIN hs /\ hs[i] \in Hashes
                        /\ bs[i] \in Blocks /\ bs[i] \in Range(bs)
        BY SMTT(30), <1>1, <1>2, <1>5, <2>1 DEF Range
    <2>3. \A i \in at : i > k.ncached[r] /\ k.ref[bs[i]] = 1 /\ k.hash[bs[i]] = NoHash
        <3>1. \A i \in at : i > k.ncached[r]
            BY SMTT(30), <1>1, <1>2 DEF Absent
        <3> QED BY <1>1, <3>1 DEF PrivateOK
    <2>4. \A i, j \in at : (bs[i] = bs[j] => i = j) /\ (hs[i] = hs[j] => i = j)
        BY <1>1, <2>1, <2>2 DEF Distinct
    <2>5. \A i \in at : pos(bs[i]) = i /\ entry(hs[i]) = i
        BY <2>4
    <2> HIDE DEF at
    <2>6. \A i \in at : hash[bs[i]] = hs[i]
        BY <2>2, <2>5
    <2>7. \A b \in Blocks : (\A i \in at : bs[i] # b) => hash[b] = k.hash[b]
        BY SMTT(30)
    <2>8. \A i \in at : map[hs[i]] = Append(k.map[hs[i]], bs[i])
        BY <2>2, <2>5
    <2>9. \A h \in Hashes : (\A i \in at : hs[i] # h) => map[h] = k.map[h]
        OBVIOUS
    <2> HIDE DEF hash, map, pos, entry
    <2>10. hash \in [Blocks -> Hashes \cup {NoHash}]
        <3>1. \A b \in Blocks : hash[b] \in Hashes \cup {NoHash}
            <4> SUFFICES ASSUME NEW b \in Blocks PROVE hash[b] \in Hashes \cup {NoHash}
                OBVIOUS
            <4>1. CASE \E i \in at : bs[i] = b
                BY <2>2, <2>6, <4>1
            <4>2. CASE \A i \in at : bs[i] # b
                BY SMTT(30), <1>1, <2>7, <4>2 DEF KVRecord
            <4> QED BY <4>1, <4>2
        <3> QED BY <3>1 DEF hash
    <2>11. ASSUME NEW h \in Hashes
           PROVE  /\ map[h] \in Seq(Blocks) /\ NoDup(map[h])
                  /\ \A b \in Blocks : b \in Range(map[h]) <=> hash[b] = h
        <3>1. /\ k.map[h] \in Seq(Blocks) /\ NoDup(k.map[h])
              /\ \A b \in Blocks : b \in Range(k.map[h]) <=> k.hash[b] = h
            BY <1>1 DEF KVRecord, MapOK
        <3>2. ASSUME NEW i \in at, hs[i] = h
              PROVE  /\ map[h] \in Seq(Blocks) /\ NoDup(map[h])
                     /\ \A b \in Blocks : b \in Range(map[h]) <=> hash[b] = h
            <4>1. bs[i] \in Blocks /\ bs[i] \notin Range(k.map[h])
                BY SMTT(30), <2>2, <2>3, <3>1, NullFresh
            <4>2. map[h] = Append(k.map[h], bs[i])
                BY SMTT(30), <2>8, <3>2
            <4>3. map[h] \in Seq(Blocks) /\ NoDup(map[h]) /\ Range(map[h]) = Range(k.map[h]) \cup {bs[i]}
                BY <3>1, <4>1, <4>2, AppendNoDup
            <4>4. ASSUME NEW b \in Blocks PROVE b \in Range(map[h]) <=> hash[b] = h
                <5>1. CASE \E j \in at : bs[j] = b
                    <6>1. PICK j \in at : bs[j] = b
                        BY <5>1
                    <6>2. hash[b] = hs[j] /\ b \notin Range(k.map[h])
                        BY SMTT(30), <2>3, <2>6, <3>1, <6>1, NullFresh
                    <6> QED BY <2>4, <3>2, <4>3, <6>1, <6>2
                <5>2. CASE \A j \in at : bs[j] # b
                    BY SMTT(30), <2>7, <3>1, <4>3, <5>2
                <5> QED BY <5>1, <5>2
            <4> QED BY <4>3, <4>4
        <3>3. ASSUME \A i \in at : hs[i] # h
              PROVE  /\ map[h] \in Seq(Blocks) /\ NoDup(map[h])
                     /\ \A b \in Blocks : b \in Range(map[h]) <=> hash[b] = h
            <4>1. map[h] = k.map[h]
                BY <2>9, <3>3
            <4>2. ASSUME NEW b \in Blocks PROVE b \in Range(map[h]) <=> hash[b] = h
                <5>1. CASE \E j \in at : bs[j] = b
                    BY SMTT(30), <2>3, <2>6, <3>1, <3>3, <4>1, <5>1, NullFresh
                <5>2. CASE \A j \in at : bs[j] # b
                    BY <2>7, <3>1, <4>1, <5>2
                <5> QED BY <5>1, <5>2
            <4> QED BY <3>1, <4>1, <4>2
        <3> QED BY <3>2, <3>3
    <2>12. map \in [Hashes -> Seq(Blocks)] /\ pub \in SUBSET Hashes /\ err \in BOOLEAN
        <3>1. map \in [Hashes -> Seq(Blocks)]
            BY <2>11 DEF map
        <3>2. k.pub \in SUBSET Hashes /\ k.err \in BOOLEAN
            BY <1>1 DEF KVRecord
        <3> QED BY <2>2, <3>1, <3>2
    <2> HIDE DEF pub, err
    <2>13. CacheBlocks(k, r, hs, n) = k2
        BY <1>5 DEF CacheBlocks, CacheFullBlocks, from, to, hash, map, pub, err, at, pos, entry
    <2>14. /\ k2 \in KVRecord
           /\ k2.free = k.free /\ k2.ref = k.ref /\ k2.hash = hash /\ k2.map = map
           /\ k2.table = k.table /\ k2.ncached = [k.ncached EXCEPT ![r] = to]
        BY ZenonT(30), <1>1, <1>2, <2>10, <2>12 DEF KVRecord
    <2> HIDE DEF k2
    <2>15. QueueOK(k2) /\ MapOK(k2) /\ TablesOK(k2)
        BY SMTT(30), <1>1, <2>11, <2>14 DEF QueueOK, MapOK, TablesOK, Holders
    <2>16. PrivateOK(k2)
        <3> SUFFICES ASSUME NEW q \in Reqs, NEW i \in DOMAIN k.table[q],
                            i > k2.ncached[q], k.table[q][i] # Null
                     PROVE  k.ref[k.table[q][i]] = 1 /\ hash[k.table[q][i]] = NoHash
            BY <2>14 DEF PrivateOK
        <3> DEFINE b == k.table[q][i]
        <3>1. b \in Blocks /\ b \in Range(k.table[q]) /\ i \in Nat
            BY <1>1 DEF KVRecord, Range
        <3>2. i > k.ncached[q] /\ (q = r => i > to)
            BY SMTT(30), <1>1, <1>2, <1>5, <2>14, <3>1 DEF KVRecord, Absent
        <3>3. k.ref[b] = 1 /\ k.hash[b] = NoHash
            BY <1>1, <3>2 DEF PrivateOK
        <3>4. ASSUME NEW j \in at PROVE bs[j] # b
            <4>1. CASE q = r
                <5>1. j # i
                    BY SMTT(30), <1>2, <3>1, <3>2, <4>1 DEF at
                <5> QED BY SMTT(30), <1>1, <2>2, <4>1, <5>1 DEF Distinct
            <4>2. CASE q # r
                BY <2>2, <3>1, <3>3, <4>2, SoleHolder
            <4> QED BY SMTT(30), <4>1, <4>2
        <3> QED BY SMTT(30), <2>7, <3>1, <3>3, <3>4
    <2> QED BY <2>13, <2>14, <2>15, <2>16 DEF KVOK
<1> QED BY SMTT(30), <1>3, <1>4, <1>5
=============================================================================
