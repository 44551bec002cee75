------------------------- MODULE KVInvariantProofs --------------------------
(* The invariant of the record of KVCacheManager, and the operations that   *)
(* give blocks back preserve it: release, free, removal of skipped blocks,   *)
(* eviction and reset.                                                       *)
EXTENDS KVCacheManager, BlockPoolProofs

-----------------------------------------------------------------------------
(* The inductive invariant, one part per concern. *)

\* No block but Null is twice in a sequence.
Distinct(s) == \A i, j \in DOMAIN s : s[i] = s[j] /\ s[i] # Null => i = j

Held(s) == Range(s) \ {Null}

\* The free queue holds exactly the unreferenced blocks.
QueueOK(k) ==
    /\ NoDup(k.free)
    /\ \A b \in Blocks : b \in Range(k.free) <=> k.ref[b] = 0

\* Map and block hashes agree.
MapOK(k) ==
    \A h \in Hashes :
        /\ NoDup(k.map[h])
        /\ \A b \in Blocks : b \in Range(k.map[h]) <=> k.hash[b] = h

\* No table holds a block twice, and references are counted exactly.
TablesOK(k) ==
    /\ \A r \in Reqs : Distinct(k.table[r])
    /\ \A b \in Blocks : k.ref[b] = Cardinality(Holders(k, b))

\* Blocks behind the cached ones are private and unhashed.
PrivateOK(k) ==
    \A r \in Reqs : \A i \in DOMAIN k.table[r] :
        i > k.ncached[r] /\ k.table[r][i] # Null
        => k.ref[k.table[r][i]] = 1 /\ k.hash[k.table[r][i]] = NoHash

KVOK(k) == k \in KVRecord /\ QueueOK(k) /\ MapOK(k) /\ TablesOK(k) /\ PrivateOK(k)

-----------------------------------------------------------------------------
(* Counting. *)

\* A block that is not twice in s is there once or never.
LEMMA CountDistinct ==
    ASSUME NEW s \in Seq(Blocks \cup {Null}), Distinct(s), NEW b \in Blocks
    PROVE  Count(b, s) = IF b \in Range(s) THEN 1 ELSE 0
<1> DEFINE I == {i \in DOMAIN s : s[i] = b}
<1>1. CASE b \in Range(s)
    <2>1. PICK i \in DOMAIN s : s[i] = b
        BY <1>1 DEF Range
    <2>2. I = {i}
        BY <2>1, NullFresh DEF Distinct
    <2> QED BY ZenonT(30), <1>1, <2>2, FS_Singleton DEF Count
<1>2. CASE b \notin Range(s)
    <2>1. I = {}
        BY <1>2 DEF Range
    <2> QED BY ZenonT(30), <1>2, <2>1, FS_EmptySet DEF Count
<1> QED BY <1>1, <1>2

\* The holders of a block form a finite set.
LEMMA HoldersFinite ==
    ASSUME NEW k, NEW b
    PROVE  IsFiniteSet(Holders(k, b)) /\ Cardinality(Holders(k, b)) \in Nat
<1>1. Holders(k, b) \in SUBSET Reqs
    BY DEF Holders
<1> QED BY <1>1, SizesAssumption, FS_Subset, FS_CardinalityType

\* The blocks a table holds are referenced; a block referenced once is in no
\* other table.
LEMMA SoleHolder ==
    ASSUME NEW k, KVOK(k), NEW r \in Reqs, NEW b \in Blocks, b \in Range(k.table[r])
    PROVE  /\ k.ref[b] \in Nat \ {0}
           /\ k.ref[b] = 1 => \A q \in Reqs : b \in Range(k.table[q]) => q = r
<1>1. r \in Holders(k, b)
    BY DEF Holders
<1>2. k.ref[b] = Cardinality(Holders(k, b))
    BY DEF KVOK, TablesOK
<1>3. k.ref[b] \in Nat \ {0}
    BY <1>1, <1>2, HoldersFinite, FS_EmptySet
<1>4. ASSUME k.ref[b] = 1, NEW q \in Reqs, b \in Range(k.table[q]) PROVE q = r
    <2>1. PICK x : Holders(k, b) = {x}
        BY ZenonT(30), <1>2, <1>4, HoldersFinite, FS_Singleton
    <2>2. q \in Holders(k, b)
        BY <1>4 DEF Holders
    <2> QED BY <1>1, <2>1, <2>2
<1> QED BY <1>3, <1>4

-----------------------------------------------------------------------------
(* The operations of the block pool on a consistent record. *)

\* Releasing the blocks out of the table of r, which keeps the table tab, is
\* consistent (free_blocks as free and remove_skipped_blocks call it).
LEMMA ReleaseOK ==
    ASSUME NEW k, KVOK(k), NEW r \in Reqs,
           NEW out \in Seq(Blocks \cup {Null}), Distinct(out),
           NEW tab \in Seq(Blocks \cup {Null}), Distinct(tab),
           Held(out) \cap Held(tab) = {},
           Held(out) \cup Held(tab) = Held(k.table[r]),
           NEW c \in Nat \cup {Absent},
           \A i \in DOMAIN tab : i > c /\ tab[i] # Null
              => k.ref[tab[i]] = 1 /\ k.hash[tab[i]] = NoHash
    PROVE  KVOK([FreeBlocks(k, out) EXCEPT !.table[r] = tab, !.ncached[r] = c])
<1> DEFINE ref == [b \in Blocks |-> k.ref[b] - Count(b, out)]
           gone == {b \in Blocks : ref[b] = 0}
           tail == Only(out, gone)
           k2 == [FreeBlocks(k, out) EXCEPT !.table[r] = tab, !.ncached[r] = c]
<1>1. k \in KVRecord /\ QueueOK(k) /\ MapOK(k) /\ TablesOK(k) /\ PrivateOK(k)
    BY DEF KVOK
<1>2. k.table[r] \in Seq(Blocks \cup {Null}) /\ Distinct(k.table[r])
    BY <1>1 DEF KVRecord, TablesOK
<1>3. \A b \in Blocks : b \in Held(out) <=> b \in Range(out)
    BY NullFresh DEF Held
<1>4. \A b \in Blocks : Count(b, out) = IF b \in Range(out) THEN 1 ELSE 0
    BY CountDistinct
<1>5. \A b \in Blocks : b \in Range(out) => b \in Range(k.table[r]) /\ b \notin Range(tab)
    BY <1>3, NullFresh DEF Held
<1>6. \A b \in Blocks : b \in Range(k.table[r]) => b \in Range(out) \/ b \in Range(tab)
    BY NullFresh DEF Held
<1>7. \A b \in Blocks : b \in Range(tab) => b \in Range(k.table[r])
    BY NullFresh DEF Held
<1>8. \A b \in Blocks : b \in Range(out) => k.ref[b] \in Nat \ {0}
    BY <1>5, SoleHolder
<1>9. \A b \in Blocks : ref[b] = IF b \in Range(out) THEN k.ref[b] - 1 ELSE k.ref[b]
    <2>1. \A b \in Blocks : k.ref[b] \in Nat
        BY <1>1 DEF KVRecord
    <2> QED BY <2>1, <1>4
<1>10. ref \in [Blocks -> Nat]
    <2>1. \A b \in Blocks : k.ref[b] \in Nat
        BY <1>1 DEF KVRecord
    <2>2. \A b \in Blocks : ref[b] \in Nat
        BY <2>1, <1>8, <1>9
    <2> QED BY <2>2
<1>11. /\ tail \in Seq(Blocks)
       /\ NoDup(tail)
       /\ \A b \in Blocks : b \in Range(tail) <=> b \in Range(out) /\ ref[b] = 0
    <2>1. \A i, j \in DOMAIN out : out[i] = out[j] /\ out[i] \in gone => i = j
        BY NullFresh DEF Distinct
    <2>2. tail \in Seq(gone) /\ NoDup(tail) /\ Range(tail) = Range(out) \cap gone
        BY ZenonT(30), <2>1, OnlyProperties
    <2>3. gone \subseteq Blocks
        OBVIOUS
    <2>4. \A b \in Blocks : b \in gone <=> ref[b] = 0
        OBVIOUS
    <2> HIDE DEF gone, tail
    <2>5. tail \in Seq(Blocks)
        BY <2>2, <2>3
    <2> QED BY <2>2, <2>4, <2>5
<1>12. FreeBlocks(k, out) = [k EXCEPT !.free = k.free \o tail, !.ref = ref]
    BY DEF FreeBlocks
<1> HIDE DEF tail, ref
<1>13. /\ k2 \in KVRecord
       /\ k2.free = k.free \o tail
       /\ k2.ref = ref
       /\ k2.hash = k.hash
       /\ k2.map = k.map
       /\ k2.table = [k.table EXCEPT ![r] = tab]
       /\ k2.ncached = [k.ncached EXCEPT ![r] = c]
    <2>1. k.free \o tail \in Seq(Blocks)
        BY <1>1, <1>11 DEF KVRecord
    <2> QED BY ZenonT(30), <1>1, <1>10, <1>12, <2>1 DEF KVRecord
<1> HIDE DEF k2
<1>14. QueueOK(k2)
    <2>1. k.free \in Seq(Blocks) /\ NoDup(k.free)
        BY <1>1 DEF QueueOK, KVRecord
    <2>2. \A b \in Blocks : b \in Range(tail) => b \notin Range(k.free)
        BY <1>1, <1>8, <1>11 DEF QueueOK
    <2>3. NoDup(k.free \o tail) /\ Range(k.free \o tail) = Range(k.free) \cup Range(tail)
        BY <1>11, <2>1, <2>2, ConcatNoDup
    <2>4. \A b \in Blocks : b \in Range(k.free \o tail) <=> ref[b] = 0
        BY SMTT(30), <1>1, <1>8, <1>9, <1>11, <2>3 DEF QueueOK
    <2> QED BY <1>13, <2>3, <2>4 DEF QueueOK
<1>15. MapOK(k2)
    BY <1>1, <1>13 DEF MapOK
<1>16. TablesOK(k2)
    <2>1. \A q \in Reqs : k2.table[q] = IF q = r THEN tab ELSE k.table[q]
        BY <1>1, <1>13 DEF KVRecord
    <2>2. \A q \in Reqs : Distinct(k2.table[q])
        BY <1>1, <2>1 DEF TablesOK
    <2>3. ASSUME NEW b \in Blocks PROVE ref[b] = Cardinality(Holders(k2, b))
        <3>1. CASE b \in Range(out)
            <4>1. Holders(k2, b) = Holders(k, b) \ {r} /\ r \in Holders(k, b)
                BY <1>5, <2>1, <3>1 DEF Holders
            <4>2. k.ref[b] = Cardinality(Holders(k, b))
                BY <1>1 DEF TablesOK
            <4>3. Cardinality(Holders(k2, b)) = Cardinality(Holders(k, b)) - 1
                <5>1. IsFiniteSet(Holders(k, b))
                    BY HoldersFinite
                <5>2. Cardinality(Holders(k, b) \ {r}) = Cardinality(Holders(k, b)) - 1
                    BY ZenonT(30), <4>1, <5>1, FS_RemoveElement
                <5> QED BY <4>1, <5>2
            <4> QED BY <1>9, <3>1, <4>2, <4>3
        <3>2. CASE b \notin Range(out)
            <4>1. Holders(k2, b) = Holders(k, b)
                BY SMTT(30), <1>6, <1>7, <2>1, <3>2 DEF Holders
            <4> QED BY <1>1, <1>9, <3>2, <4>1 DEF TablesOK
        <3> QED BY <3>1, <3>2
    <2> QED BY <1>13, <2>2, <2>3 DEF TablesOK
<1>17. PrivateOK(k2)
    <2> SUFFICES ASSUME NEW q \in Reqs, NEW i \in DOMAIN k2.table[q],
                        i > k2.ncached[q], k2.table[q][i] # Null
                 PROVE  k2.ref[k2.table[q][i]] = 1 /\ k2.hash[k2.table[q][i]] = NoHash
        BY DEF PrivateOK
    <2> DEFINE b == k2.table[q][i]
    <2>1. b \in Blocks
        BY <1>13 DEF KVRecord
    <2>2. CASE q = r
        <3>1. k2.table[q] = tab /\ k2.ncached[q] = c
            BY <1>1, <1>13, <2>2 DEF KVRecord
        <3>2. b \in Range(tab)
            BY <3>1 DEF Range
        <3>3. ref[b] = k.ref[b]
            BY SMTT(30), <1>5, <1>9, <2>1, <3>2
        <3> QED BY <1>13, <3>1, <3>3
    <2>3. CASE q # r
        <3>1. k2.table[q] = k.table[q] /\ k2.ncached[q] = k.ncached[q]
            BY SMTT(30), <1>1, <1>13, <2>3 DEF KVRecord
        <3>2. k.ref[b] = 1 /\ k.hash[b] = NoHash /\ b \in Range(k.table[q])
            BY <1>1, <3>1 DEF PrivateOK, Range
        <3>3. b \notin Range(out)
            BY <1>5, <2>1, <2>3, <3>2, SoleHolder
        <3> QED BY <1>9, <1>13, <2>1, <3>2, <3>3
    <2> QED BY <2>2, <2>3
<1> QED BY <1>13, <1>14, <1>15, <1>16, <1>17 DEF KVOK, k2

-----------------------------------------------------------------------------
(* Arithmetic. *)

\* A bounded nonempty set of naturals has a greatest element.
LEMMA GreatestElement ==
    ASSUME NEW S \in SUBSET Nat, S # {}, NEW n \in Nat, \A m \in S : m <= n
    PROVE  Greatest(S) \in S /\ \A m \in S : m <= Greatest(S)
<1> DEFINE T == {n - m : m \in S}
<1>1. T \in SUBSET Nat /\ T # {}
    <2>1. \A m \in S : m \in Nat /\ n - m \in Nat
        OBVIOUS
    <2> QED BY ZenonT(30), <2>1
<1>2. PICK t \in T : \A m \in T : t <= m
    BY ZenonT(30), <1>1, LeastNatural
<1>3. PICK g \in S : t = n - g
    OBVIOUS
<1>4. \A m \in S : n - m \in T
    OBVIOUS
<1>5. ASSUME NEW m \in S PROVE m <= g
    <2>1. n - g <= n - m
        BY ZenonT(30), <1>2, <1>3, <1>4
    <2>2. n \in Nat /\ g \in Nat /\ m \in Nat
        OBVIOUS
    <2> QED BY <2>1, <2>2
<1> QED BY ZenonT(30), <1>5 DEF Greatest

\* Numbers of blocks are naturals, ordered as the numbers of tokens are.
LEMMA BlockCounts ==
    ASSUME NEW n \in Nat
    PROVE  /\ n \div BlockSize \in Nat
           /\ CDiv(n) \in Nat
           /\ NumSkippedTokens(n) \in Nat
           /\ NumSkippedBlocks(n) \in Nat
           /\ NumSkippedBlocks(n) <= CDiv(n)
           /\ \A m \in Nat : m * BlockSize <= n => m <= CDiv(n)
<1>1. n \div BlockSize \in Nat /\ CDiv(n) \in Nat /\ n \div BlockSize <= CDiv(n)
    BY SizesAssumption DEF CDiv
<1>2. NumSkippedTokens(n) \in Nat
    BY SizesAssumption DEF NumSkippedTokens, Max2
<1>3. NumSkippedTokens(n) <= n + 1
    BY SizesAssumption DEF NumSkippedTokens, Max2
<1>4. NumSkippedBlocks(n) \in Nat
    BY <1>2, SizesAssumption DEF NumSkippedBlocks
<1>5. NumSkippedBlocks(n) <= CDiv(n)
    <2>1. CASE Window = 0
        BY <2>1, <1>1, SizesAssumption DEF NumSkippedBlocks, NumSkippedTokens
    <2>2. CASE Window # 0
        <3>1. NumSkippedTokens(n) <= n
            BY <2>2, SizesAssumption DEF NumSkippedTokens, Max2
        <3> QED BY <3>1, <1>2, SizesAssumption DEF NumSkippedBlocks, CDiv
    <2> QED BY <2>1, <2>2
<1>6. \A m \in Nat : m * BlockSize <= n => m <= CDiv(n)
    BY SizesAssumption DEF CDiv
<1> QED BY <1>1, <1>2, <1>4, <1>5, <1>6

-----------------------------------------------------------------------------
(* The operations of the single-type manager. *)

\* free preserves consistency.
LEMMA FreeOK ==
    ASSUME NEW k, KVOK(k), NEW r \in Reqs
    PROVE  KVOK(Free(k, r))
<1> DEFINE bs == k.table[r]
           out == [i \in DOMAIN bs |-> bs[Len(bs) + 1 - i]]
<1>1. bs \in Seq(Blocks \cup {Null}) /\ Distinct(bs)
    BY DEF KVOK, KVRecord, TablesOK
<1>2. /\ DOMAIN bs = 1..Len(bs) /\ Len(bs) \in Nat
      /\ \A i \in 1..Len(bs) : Len(bs) + 1 - i \in 1..Len(bs)
      /\ \A i \in 1..Len(bs) : bs[i] \in Blocks \cup {Null}
    BY <1>1
<1>3. out \in [1..Len(bs) -> Blocks \cup {Null}]
    BY ZenonT(30), <1>2
<1>4. out \in Seq(Blocks \cup {Null})
    BY <1>2, <1>3
<1>5. \A i \in 1..Len(bs) : out[i] = bs[Len(bs) + 1 - i] /\ out[Len(bs) + 1 - i] = bs[i]
    BY <1>2
<1>6. DOMAIN out = 1..Len(bs)
    BY <1>2
<1> HIDE DEF out
<1>7. Distinct(out)
    <2> SUFFICES ASSUME NEW i \in 1..Len(bs), NEW j \in 1..Len(bs),
                        out[i] = out[j], out[i] # Null
                 PROVE  i = j
        BY <1>6 DEF Distinct
    <2>1. Len(bs) + 1 - i = Len(bs) + 1 - j
        BY ZenonT(30), <1>1, <1>2, <1>5 DEF Distinct
    <2> QED BY <2>1, <1>2
<1>8. Range(out) = Range(bs)
    <2>1. ASSUME NEW x \in Range(out) PROVE x \in Range(bs)
        <3>1. PICK i \in 1..Len(bs) : x = out[i]
            BY <1>6, <2>1 DEF Range
        <3>2. x = bs[Len(bs) + 1 - i] /\ Len(bs) + 1 - i \in DOMAIN bs
            BY <1>2, <1>5, <3>1
        <3> QED BY <3>2 DEF Range
    <2>2. ASSUME NEW x \in Range(bs) PROVE x \in Range(out)
        <3>1. PICK i \in 1..Len(bs) : x = bs[i]
            BY <1>2, <2>2 DEF Range
        <3>2. x = out[Len(bs) + 1 - i] /\ Len(bs) + 1 - i \in DOMAIN out
            BY <1>2, <1>5, <1>6, <3>1
        <3> QED BY <3>2 DEF Range
    <2> QED BY <2>1, <2>2
<1>9. Range(<<>>) = {} /\ Distinct(<<>>) /\ <<>> \in Seq(Blocks \cup {Null})
    BY DEF Range, Distinct
<1>10. Held(out) \cap Held(<<>>) = {} /\ Held(out) \cup Held(<<>>) = Held(bs)
    BY <1>8, <1>9 DEF Held
<1>11. \A i \in DOMAIN <<>> : i > Absent /\ <<>>[i] # Null
          => k.ref[<<>>[i]] = 1 /\ k.hash[<<>>[i]] = NoHash
    OBVIOUS
<1>12. Absent \in Nat \cup {Absent}
    BY SMTT(30)
<1>13. KVOK([FreeBlocks(k, out) EXCEPT !.table[r] = <<>>, !.ncached[r] = Absent])
    BY ZenonT(30), <1>4, <1>7, <1>9, <1>10, <1>11, <1>12, ReleaseOK
<1> QED BY <1>13 DEF Free, out

\* remove_skipped_blocks preserves consistency.
LEMMA RemoveSkippedOK ==
    ASSUME NEW k, KVOK(k), NEW r \in Reqs, NEW n \in Nat
    PROVE  KVOK(RemoveSkippedBlocks(k, r, n))
<1> DEFINE bs == k.table[r]
           last == Min2(NumSkippedBlocks(n), Len(bs))
           holes == {0} \cup {i \in 1..last : bs[i] = Null}
           hole == Greatest(holes)
           out == [i \in 1 .. last - hole |-> bs[last + 1 - i]]
           tab == [i \in DOMAIN bs |-> IF hole < i /\ i <= last THEN Null ELSE bs[i]]
<1>1. /\ k \in KVRecord /\ PrivateOK(k)
      /\ bs \in Seq(Blocks \cup {Null}) /\ Distinct(bs)
    BY DEF KVOK, KVRecord, TablesOK
<1>2. /\ DOMAIN bs = 1..Len(bs) /\ Len(bs) \in Nat
      /\ \A i \in 1..Len(bs) : bs[i] \in Blocks \cup {Null}
    BY <1>1
<1>3. last \in 0..Len(bs)
    <2>1. NumSkippedBlocks(n) \in Nat
        BY BlockCounts
    <2> QED BY <1>2, <2>1 DEF Min2
<1> HIDE DEF last
<1>4. hole \in 0..last /\ \A i \in 1..last : i > hole => bs[i] # Null
    <2>1. holes \in SUBSET Nat /\ holes # {} /\ \A m \in holes : m <= last
        BY <1>3
    <2>2. last \in Nat
        BY <1>3
    <2> HIDE DEF holes
    <2>3. hole \in holes /\ \A m \in holes : m <= hole
        BY <2>1, <2>2, GreatestElement
    <2>4. hole \in 0..last
        BY <1>3, <2>3 DEF holes
    <2>5. ASSUME NEW i \in 1..last, i > hole PROVE bs[i] # Null
        BY <1>3, <2>3, <2>4, <2>5 DEF holes
    <2> QED BY <2>4, <2>5
<1> HIDE DEF hole
<1>5. \A i \in 1 .. last - hole : last + 1 - i \in 1..Len(bs) /\ last + 1 - i > hole /\ last + 1 - i <= last
    BY <1>3, <1>4
<1>6. \A i \in 1..Len(bs) : i > hole /\ i <= last => last + 1 - i \in 1 .. last - hole /\ last + 1 - (last + 1 - i) = i
    BY <1>3, <1>4
<1>7. out \in Seq(Blocks \cup {Null}) /\ DOMAIN out = 1 .. last - hole
    <2>1. out \in [1 .. last - hole -> Blocks \cup {Null}]
        BY <1>2, <1>5
    <2>2. last - hole \in Nat
        BY <1>3, <1>4
    <2> QED BY <2>1, <2>2
<1>8. tab \in Seq(Blocks \cup {Null}) /\ DOMAIN tab = 1..Len(bs)
    <2>1. tab \in [1..Len(bs) -> Blocks \cup {Null}]
        BY <1>2
    <2> QED BY <1>2, <2>1
<1>9. \A i \in DOMAIN out : out[i] = bs[last + 1 - i]
    OBVIOUS
<1>10. \A i \in DOMAIN bs : tab[i] = IF hole < i /\ i <= last THEN Null ELSE bs[i]
    OBVIOUS
<1> HIDE DEF out, tab
<1>11. Distinct(out)
    <2> SUFFICES ASSUME NEW i \in 1 .. last - hole, NEW j \in 1 .. last - hole,
                        out[i] = out[j], out[i] # Null
                 PROVE  i = j
        BY <1>7 DEF Distinct
    <2>1. last + 1 - i = last + 1 - j
        BY ZenonT(30), <1>1, <1>2, <1>5, <1>7, <1>9 DEF Distinct
    <2> QED BY <2>1, <1>3, <1>4
<1>12. Distinct(tab)
    BY <1>1, <1>2, <1>8, <1>10 DEF Distinct
<1>13. Held(out) \cap Held(tab) = {}
    <2> SUFFICES ASSUME NEW i \in DOMAIN out, NEW j \in DOMAIN tab, out[i] = tab[j], tab[j] # Null
                 PROVE  FALSE
        BY DEF Held, Range
    <2>1. tab[j] = bs[j] /\ ~(hole < j /\ j <= last)
        BY <1>2, <1>8, <1>10
    <2>2. j = last + 1 - i
        BY <1>1, <1>2, <1>5, <1>7, <1>8, <1>9, <2>1 DEF Distinct
    <2> QED BY <1>5, <1>7, <2>1, <2>2
<1>14. Held(out) \cup Held(tab) = Held(bs)
    <2>1. ASSUME NEW x \in Held(out) PROVE x \in Held(bs)
        BY SMTT(30), <1>2, <1>5, <1>7, <1>9, <2>1 DEF Held, Range
    <2>2. ASSUME NEW x \in Held(tab) PROVE x \in Held(bs)
        BY <1>2, <1>8, <1>10, <2>2 DEF Held, Range
    <2>3. ASSUME NEW x \in Held(bs) PROVE x \in Held(out) \cup Held(tab)
        <3>1. PICK i \in 1..Len(bs) : x = bs[i] /\ x # Null
            BY <1>2, <2>3 DEF Held, Range
        <3>2. CASE hole < i /\ i <= last
            <4>1. last + 1 - i \in DOMAIN out /\ out[last + 1 - i] = x
                BY SMTT(30), <1>6, <1>7, <1>9, <3>1, <3>2
            <4> QED BY <3>1, <4>1 DEF Held, Range
        <3>3. CASE ~(hole < i /\ i <= last)
            BY SMTT(30), <1>2, <1>8, <1>10, <3>1, <3>3 DEF Held, Range
        <3> QED BY <3>2, <3>3
    <2> QED BY <2>1, <2>2, <2>3
<1>15. \A i \in DOMAIN tab : i > k.ncached[r] /\ tab[i] # Null
          => k.ref[tab[i]] = 1 /\ k.hash[tab[i]] = NoHash
    BY <1>1, <1>2, <1>8, <1>10 DEF PrivateOK
<1>16. k.ncached[r] \in Nat \cup {Absent}
    BY SMTT(30), <1>1 DEF KVRecord
<1>17. KVOK([FreeBlocks(k, out) EXCEPT !.table[r] = tab, !.ncached[r] = k.ncached[r]])
    BY ZenonT(30), <1>7, <1>8, <1>11, <1>12, <1>13, <1>14, <1>15, <1>16, ReleaseOK
<1>18. [FreeBlocks(k, out) EXCEPT !.table[r] = tab, !.ncached[r] = k.ncached[r]]
        = [FreeBlocks(k, out) EXCEPT !.table[r] = tab]
    BY ZenonT(30), <1>1 DEF FreeBlocks, KVRecord
<1> QED BY ZenonT(30), <1>17, <1>18 DEF RemoveSkippedBlocks, out, tab, hole, last

\* _maybe_evict_cached_block preserves consistency: the evicted blocks have no
\* hash left, and nothing but hashes and map changes.
LEMMA EvictOK ==
    ASSUME NEW k, KVOK(k), NEW S \in SUBSET Blocks
    PROVE  LET e == EvictBlocks(k, S)
           IN  /\ KVOK(e)
               /\ e.free = k.free /\ e.ref = k.ref /\ e.err = k.err
               /\ e.table = k.table /\ e.ncached = k.ncached
               /\ \A b \in Blocks : e.hash[b] = IF b \in S THEN NoHash ELSE k.hash[b]
<1> DEFINE out == {b \in S : k.hash[b] # NoHash /\ b \in Range(k.map[k.hash[b]])}
           map == [h \in Hashes |-> Without(k.map[h], {b \in out : k.hash[b] = h})]
           hash == [b \in Blocks |-> IF b \in out THEN NoHash ELSE k.hash[b]]
           pub == k.pub \ {k.hash[b] : b \in out}
           e == EvictBlocks(k, S)
<1>1. k \in KVRecord /\ QueueOK(k) /\ MapOK(k) /\ TablesOK(k) /\ PrivateOK(k)
    BY DEF KVOK
<1>2. \A b \in Blocks : k.hash[b] \in Hashes \cup {NoHash}
    BY <1>1 DEF KVRecord
<1>3. \A b \in Blocks : hash[b] = IF b \in S THEN NoHash ELSE k.hash[b]
    BY <1>1, <1>2 DEF MapOK
<1>4. hash \in [Blocks -> Hashes \cup {NoHash}]
    BY SMTT(30), <1>2, <1>3
<1>5. ASSUME NEW h \in Hashes
      PROVE  /\ map[h] \in Seq(Blocks) /\ NoDup(map[h])
             /\ \A b \in Blocks : b \in Range(map[h]) <=> hash[b] = h
    <2> DEFINE O == {b \in out : k.hash[b] = h}
    <2>1. k.map[h] \in Seq(Blocks) /\ NoDup(k.map[h])
        BY SMTT(30), <1>1 DEF KVRecord, MapOK
    <2>2. Without(k.map[h], O) \in Seq(Blocks) /\ NoDup(Without(k.map[h], O)) /\ Range(Without(k.map[h], O)) = Range(k.map[h]) \ O
        BY <2>1, WithoutProperties
    <2>3. map[h] = Without(k.map[h], O)
        OBVIOUS
    <2>4. \A b \in Blocks : b \in Range(k.map[h]) <=> k.hash[b] = h
        BY <1>1 DEF MapOK
    <2>5. \A b \in Blocks : b \in O <=> b \in S /\ k.hash[b] = h
        BY SMTT(30), <1>2, <2>4, NullFresh
    <2>6. ASSUME NEW b \in Blocks PROVE b \in Range(map[h]) <=> hash[b] = h
        BY SMTT(30), <1>3, <2>2, <2>3, <2>4, <2>5, NullFresh
    <2> QED BY <2>2, <2>3, <2>6
<1>6. map \in [Hashes -> Seq(Blocks)] /\ pub \in SUBSET Hashes
    <2>1. \A h \in Hashes : map[h] \in Seq(Blocks)
        BY ZenonT(30), <1>5
    <2>2. k.pub \in SUBSET Hashes
        BY <1>1 DEF KVRecord
    <2> HIDE DEF out
    <2> QED BY SMTT(30), <2>1, <2>2
<1>7. e = [k EXCEPT !.map = map, !.hash = hash, !.pub = pub]
    BY DEF EvictBlocks
<1> HIDE DEF map, hash, pub
<1>8. /\ e \in KVRecord
      /\ e.free = k.free /\ e.ref = k.ref /\ e.err = k.err
      /\ e.table = k.table /\ e.ncached = k.ncached
      /\ e.hash = hash /\ e.map = map
    BY ZenonT(30), <1>1, <1>4, <1>6, <1>7 DEF KVRecord
<1> HIDE DEF e
<1>9. QueueOK(e)
    BY <1>1, <1>8 DEF QueueOK
<1>10. MapOK(e)
    BY <1>5, <1>8 DEF MapOK
<1>11. TablesOK(e)
    BY SMTT(30), <1>1, <1>8 DEF TablesOK, Holders
<1>12. PrivateOK(e)
    <2> SUFFICES ASSUME NEW q \in Reqs, NEW i \in DOMAIN k.table[q],
                        i > k.ncached[q], k.table[q][i] # Null
                 PROVE  k.ref[k.table[q][i]] = 1 /\ hash[k.table[q][i]] = NoHash
        BY <1>8 DEF PrivateOK
    <2>1. k.table[q][i] \in Blocks
        BY <1>1 DEF KVRecord
    <2> QED BY SMTT(30), <1>1, <1>3, <2>1 DEF PrivateOK
<1> QED BY <1>3, <1>8, <1>9, <1>10, <1>11, <1>12 DEF KVOK, e

\* reset_prefix_cache preserves consistency.
LEMMA ResetOK ==
    ASSUME NEW k, KVOK(k)
    PROVE  KVOK(ResetPrefixCache(k))
<1> DEFINE map == [h \in Hashes |-> <<>>]
           hash == [b \in Blocks |-> NoHash]
           e == [k EXCEPT !.map = map, !.hash = hash, !.pub = {}]
<1>1. k \in KVRecord /\ QueueOK(k) /\ TablesOK(k) /\ PrivateOK(k)
    BY DEF KVOK
<1>2. hash \in [Blocks -> Hashes \cup {NoHash}] /\ map \in [Hashes -> Seq(Blocks)]
    <2>1. <<>> \in Seq(Blocks)
        OBVIOUS
    <2> QED BY <2>1
<1>3. \A h \in Hashes : map[h] = <<>>
    OBVIOUS
<1>4. \A b \in Blocks : hash[b] = NoHash
    OBVIOUS
<1> HIDE DEF map, hash
<1>5. /\ e \in KVRecord
      /\ e.free = k.free /\ e.ref = k.ref
      /\ e.table = k.table /\ e.ncached = k.ncached
      /\ e.hash = hash /\ e.map = map
    BY ZenonT(30), <1>1, <1>2 DEF KVRecord
<1> HIDE DEF e
<1>6. QueueOK(e) /\ TablesOK(e)
    BY <1>1, <1>5 DEF QueueOK, TablesOK, Holders
<1>7. MapOK(e)
    BY SMTT(30), <1>3, <1>4, <1>5, NullFresh DEF MapOK, NoDup, Range
<1>8. PrivateOK(e)
    <2>1. \A q \in Reqs : \A i \in DOMAIN k.table[q] : k.table[q][i] \in Blocks \cup {Null}
        BY <1>1 DEF KVRecord
    <2> QED BY <1>1, <1>4, <1>5, <2>1 DEF PrivateOK
<1> QED BY <1>5, <1>6, <1>7, <1>8 DEF KVOK, ResetPrefixCache, e, map, hash
=============================================================================
