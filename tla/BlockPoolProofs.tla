--------------------------- MODULE BlockPoolProofs ---------------------------
(***************************************************************************)
(* Lemmas about the operators of BlockPool.                                *)
(***************************************************************************)
EXTENDS BlockPool, FiniteSetTheorems, SequenceTheorems, WellFoundedInduction, TLAPS

-----------------------------------------------------------------------------
(* Sequences. *)

\* A nonempty set of naturals has a least element.
LEMMA LeastNatural ==
    ASSUME NEW T \in SUBSET Nat, T # {}
    PROVE  \E n \in T : \A m \in T : n <= m
<1>1. \E x \in T : \A y \in T : ~ (<<y, x>> \in OpToRel(<, Nat))
    BY NatLessThanWellFounded, WFMin
<1>2. PICK x \in T : \A y \in T : ~ (<<y, x>> \in OpToRel(<, Nat))
    BY <1>1
<1>3. ASSUME NEW y \in T PROVE x <= y
    <2>1. x \in Nat /\ y \in Nat
        OBVIOUS
    <2>2. <<y, x>> \in OpToRel(<, Nat) <=> y < x
        BY <2>1 DEF OpToRel
    <2>3. ~ (y < x)
        BY <1>2, <2>2, Zenon
    <2> QED BY <2>1, <2>3
<1> QED BY <1>3

\* The kth position that Without keeps exists and is unique.
LEMMA KeptRank ==
    ASSUME NEW s, NEW n \in Nat, DOMAIN s = 1..n, NEW S
    PROVE  LET kept == KeptAt(s, S)
               rank(i) == Cardinality({j \in kept : j <= i})
           IN  /\ IsFiniteSet(kept)
               /\ Cardinality(kept) \in Nat
               /\ \A i \in kept : rank(i) \in 1..Cardinality(kept)
               /\ \A i, k \in kept : rank(i) = rank(k) => i = k
               /\ \A k \in 1..Cardinality(kept) : \E i \in kept : rank(i) = k
<1> DEFINE kept == KeptAt(s, S)
           upto(i) == {j \in kept : j <= i}
           rank(i) == Cardinality(upto(i))
<1>1. kept \in SUBSET (1..n)
    BY DEF KeptAt
<1>2. IsFiniteSet(kept) /\ Cardinality(kept) \in Nat
    BY <1>1, FS_Interval, FS_Subset, FS_CardinalityType, 1 \in Int, n \in Int
<1>3. ASSUME NEW i \in kept
      PROVE  rank(i) \in 1..Cardinality(kept) /\ IsFiniteSet(upto(i))
    <2>1. upto(i) \in SUBSET kept
        OBVIOUS
    <2>2. IsFiniteSet(upto(i)) /\ Cardinality(upto(i)) <= Cardinality(kept)
        BY <1>2, <2>1, FS_Subset
    <2>3. i \in upto(i)
        BY <1>1
    <2>4. Cardinality(upto(i)) \in Nat /\ Cardinality(upto(i)) # 0
        BY <2>2, <2>3, FS_CardinalityType, FS_EmptySet
    <2> QED BY <1>2, <2>2, <2>4
<1>4. ASSUME NEW i \in kept, NEW k \in kept, i < k PROVE rank(i) # rank(k)
    <2>1. upto(i) \in SUBSET upto(k)
        BY <1>1, <1>4
    <2>2. k \in upto(k) /\ k \notin upto(i)
        BY <1>1, <1>4
    <2> QED BY <1>3, <2>1, <2>2, FS_Subset
<1>5. \A i, k \in kept : rank(i) = rank(k) => i = k
    <2> SUFFICES ASSUME NEW i \in kept, NEW k \in kept, i # k
                 PROVE  rank(i) # rank(k)
        OBVIOUS
    <2>1. i < k \/ k < i
        BY <1>1
    <2>2. CASE i < k
        BY <2>2, <1>4
    <2>3. CASE k < i
        BY <2>3, <1>4
    <2> QED BY <2>1, <2>2, <2>3
<1>6. \A k \in 1..Cardinality(kept) : \E i \in kept : rank(i) = k
    <2> DEFINE f == [i \in kept |-> rank(i)]
               m == Cardinality(kept)
    <2>1. f \in Injection(kept, 1..m)
        BY <1>3, <1>5 DEF Injection, IsInjective
    <2>2. IsFiniteSet(1..m) /\ Cardinality(1..m) = m
        BY <1>2, FS_Interval, 1 \in Int, m \in Int
    <2>3. f \in Surjection(kept, 1..m)
        BY <2>1, <2>2, FS_Injection
    <2> QED BY <2>3 DEF Surjection
<1> QED BY <1>2, <1>3, <1>5, <1>6

\* What Without returns: the elements outside S, in order, none of them twice
\* when s has none twice; its length is the number of kept positions.
LEMMA WithoutProperties ==
    ASSUME NEW T, NEW s \in Seq(T), NEW S
    PROVE  /\ Without(s, S) \in Seq(T)
           /\ Range(Without(s, S)) = Range(s) \ S
           /\ NoDup(s) => NoDup(Without(s, S))
           /\ Len(Without(s, S)) = Cardinality(KeptAt(s, S))
<1> DEFINE kept == KeptAt(s, S)
           rank(i) == Cardinality({j \in kept : j <= i})
           m == Cardinality(kept)
           at(k) == CHOOSE i \in kept : rank(i) = k
           w == [k \in 1..m |-> s[at(k)]]
<1>1. DOMAIN s = 1..Len(s) /\ Len(s) \in Nat /\ \A i \in 1..Len(s) : s[i] \in T
    OBVIOUS
<1>2. /\ m \in Nat
      /\ \A i \in kept : rank(i) \in 1..m
      /\ \A i, k \in kept : rank(i) = rank(k) => i = k
      /\ \A k \in 1..m : \E i \in kept : rank(i) = k
    BY <1>1, KeptRank
<1>3. \A i \in kept : i \in 1..Len(s) /\ s[i] \notin S
    BY <1>1 DEF KeptAt
<1>4. \A k \in 1..m : at(k) \in kept /\ rank(at(k)) = k
    BY <1>2
<1>5. \A i \in kept : rank(i) \in 1..m /\ at(rank(i)) = i
    BY <1>2, <1>4
<1> HIDE DEF at, rank
<1>6. w \in Seq(T) /\ Len(w) = m /\ DOMAIN w = 1..m
    <2>1. \A k \in 1..m : s[at(k)] \in T
        BY <1>1, <1>3, <1>4
    <2>2. w \in [1..m -> T]
        BY <2>1
    <2> QED BY <1>2, <2>2, IsASeq, LenProperties
<1>7. Range(w) = Range(s) \ S
    <2>1. ASSUME NEW x \in Range(w) PROVE x \in Range(s) \ S
        <3>1. PICK k \in 1..m : x = s[at(k)]
            BY <1>6, <2>1 DEF Range
        <3> QED BY <1>1, <1>3, <1>4, <3>1 DEF Range
    <2>2. ASSUME NEW x \in Range(s) \ S PROVE x \in Range(w)
        <3>1. PICK i \in 1..Len(s) : x = s[i]
            BY <1>1, <2>2 DEF Range
        <3>2. i \in kept
            BY <1>1, <2>2, <3>1 DEF KeptAt
        <3>3. rank(i) \in 1..m /\ w[rank(i)] = x
            BY <1>5, <3>1, <3>2
        <3> QED BY <1>6, <3>3 DEF Range
    <2> QED BY <2>1, <2>2
<1>8. ASSUME NoDup(s) PROVE NoDup(w)
    <2> SUFFICES ASSUME NEW i \in 1..m, NEW k \in 1..m, w[i] = w[k] PROVE i = k
        BY <1>6 DEF NoDup
    <2>1. s[at(i)] = s[at(k)] /\ at(i) \in DOMAIN s /\ at(k) \in DOMAIN s
        BY <1>1, <1>3, <1>4
    <2>2. at(i) = at(k)
        BY <1>8, <2>1 DEF NoDup
    <2> QED BY <1>4, <2>2
<1>9. Without(s, S) = w
    BY DEF Without, at, rank
<1> QED BY <1>6, <1>7, <1>8, <1>9

\* What Only returns: the elements of S, none of them twice when s has none of
\* them twice.
LEMMA OnlyProperties ==
    ASSUME NEW T, NEW s \in Seq(T), NEW S
    PROVE  /\ Only(s, S) \in Seq(S)
           /\ Range(Only(s, S)) = Range(s) \cap S
           /\ (\A i, j \in DOMAIN s : s[i] = s[j] /\ s[i] \in S => i = j)
              => NoDup(Only(s, S))
<1> DEFINE out == Range(s) \ S
           kept == KeptAt(s, out)
           rank(i) == Cardinality({j \in kept : j <= i})
           m == Cardinality(kept)
           at(n) == CHOOSE i \in kept : rank(i) = n
           w == Only(s, S)
<1>1. w = Without(s, out)
    BY DEF Only
<1>2. w \in Seq(T) /\ Range(w) = Range(s) \ out
    BY <1>1, WithoutProperties
<1>3. DOMAIN s = 1..Len(s) /\ Len(s) \in Nat
    OBVIOUS
<1>4. \A n \in 1..m : at(n) \in kept /\ rank(at(n)) = n
    <2>1. \A n \in 1..m : \E i \in kept : rank(i) = n
        BY <1>3, KeptRank
    <2> QED BY <2>1
<1>5. w = [n \in 1..m |-> s[at(n)]] /\ DOMAIN w = 1..m
    BY <1>1 DEF Without
<1>6. \A i \in kept : i \in DOMAIN s /\ s[i] \in S
    BY DEF KeptAt, Range
<1> HIDE DEF w, at, rank, kept, m
<1>7. w \in Seq(S)
    <2>1. \A n \in 1..m : w[n] \in S
        BY <1>4, <1>5, <1>6
    <2>2. m \in Nat
        BY <1>3, KeptRank DEF m, kept
    <2>3. w \in [1..m -> S]
        BY <1>5, <2>1
    <2> QED BY <2>2, <2>3, IsASeq
<1>8. ASSUME \A i, j \in DOMAIN s : s[i] = s[j] /\ s[i] \in S => i = j
      PROVE  NoDup(w)
    <2> SUFFICES ASSUME NEW i \in 1..m, NEW n \in 1..m, w[i] = w[n] PROVE i = n
        BY <1>5 DEF NoDup
    <2>1. s[at(i)] = s[at(n)]
        BY <1>5
    <2>2. at(i) = at(n)
        BY <1>4, <1>6, <1>8, <2>1
    <2> QED BY <1>4, <2>2
<1>9. Range(w) = Range(s) \cap S
    BY <1>2
<1> QED BY <1>7, <1>8, <1>9 DEF w

\* The concatenation of two sequences without repetitions and without a common
\* element has no repetition.
LEMMA ConcatNoDup ==
    ASSUME NEW T, NEW s \in Seq(T), NEW t \in Seq(T), NoDup(s), NoDup(t),
           \A x \in T : x \in Range(t) => x \notin Range(s)
    PROVE  /\ NoDup(s \o t)
           /\ Range(s \o t) = Range(s) \cup Range(t)
<1> DEFINE st == s \o t
<1>1. /\ DOMAIN st = 1 .. Len(s) + Len(t)
      /\ DOMAIN s = 1..Len(s) /\ DOMAIN t = 1..Len(t)
      /\ Len(s) \in Nat /\ Len(t) \in Nat
      /\ \A i \in DOMAIN st : st[i] = IF i <= Len(s) THEN s[i] ELSE t[i - Len(s)]
    OBVIOUS
<1> HIDE DEF st
<1>2. ASSUME NEW i \in DOMAIN s PROVE i \in DOMAIN st /\ st[i] = s[i]
    BY <1>1
<1>3. ASSUME NEW i \in DOMAIN t PROVE i + Len(s) \in DOMAIN st /\ st[i + Len(s)] = t[i]
    BY <1>1
<1>4. ASSUME NEW i \in DOMAIN st
      PROVE  i \in DOMAIN s \/ (i - Len(s) \in DOMAIN t /\ st[i] = t[i - Len(s)])
    BY <1>1
<1>5. Range(st) = Range(s) \cup Range(t)
    BY <1>2, <1>3, <1>4 DEF Range
<1>6. ASSUME NEW i \in DOMAIN st, NEW j \in DOMAIN st, st[i] = st[j] PROVE i = j
    <2>1. CASE i \in DOMAIN s /\ j \in DOMAIN s
        BY <1>2, <1>6, <2>1 DEF NoDup
    <2>2. CASE i \notin DOMAIN s /\ j \notin DOMAIN s
        <3>1. i - Len(s) = j - Len(s)
            BY <1>4, <1>6, <2>2 DEF NoDup
        <3> QED BY <1>1, <3>1
    <2>3. ASSUME NEW n \in DOMAIN s, NEW m \in DOMAIN t PROVE s[n] # t[m]
        <3>1. t[m] \in T /\ t[m] \in Range(t) /\ s[n] \in Range(s)
            BY DEF Range
        <3> QED BY <3>1
    <2>4. CASE i \in DOMAIN s /\ j \notin DOMAIN s
        BY <1>2, <1>4, <1>6, <2>3, <2>4
    <2>5. CASE i \notin DOMAIN s /\ j \in DOMAIN s
        BY <1>2, <1>4, <1>6, <2>3, <2>5
    <2> QED BY <2>1, <2>2, <2>4, <2>5
<1>7. NoDup(st)
    BY <1>6 DEF NoDup
<1> QED BY <1>5, <1>7 DEF st

\* Cutting a sequence without repetitions in two.
LEMMA SplitNoDup ==
    ASSUME NEW T, NEW s \in Seq(T), NoDup(s), NEW n \in 0..Len(s)
    PROVE  LET head == SubSeq(s, 1, n)
               rest == SubSeq(s, n + 1, Len(s))
           IN  /\ head \in Seq(T) /\ rest \in Seq(T)
               /\ Len(head) = n /\ Len(rest) = Len(s) - n
               /\ NoDup(head) /\ NoDup(rest)
               /\ Range(head) \cap Range(rest) = {}
               /\ Range(head) \cup Range(rest) = Range(s)
<1> DEFINE head == SubSeq(s, 1, n)
           rest == SubSeq(s, n + 1, Len(s))
<1>1. DOMAIN s = 1..Len(s) /\ Len(s) \in Nat
    OBVIOUS
<1>2. /\ head \in Seq(T) /\ Len(head) = n /\ DOMAIN head = 1..n
      /\ \A i \in 1..n : head[i] = s[i] /\ i \in DOMAIN s
    OBVIOUS
<1>3. /\ rest \in Seq(T) /\ Len(rest) = Len(s) - n /\ DOMAIN rest = 1 .. Len(s) - n
      /\ \A i \in 1 .. Len(s) - n : rest[i] = s[n + i] /\ n + i \in DOMAIN s
    OBVIOUS
<1> HIDE DEF head, rest
<1>4. NoDup(head)
    BY <1>2 DEF NoDup
<1>5. NoDup(rest)
    <2> SUFFICES ASSUME NEW i \in 1 .. Len(s) - n, NEW j \in 1 .. Len(s) - n, rest[i] = rest[j]
                 PROVE  i = j
        BY <1>3 DEF NoDup
    <2>1. n + i = n + j
        BY <1>3 DEF NoDup
    <2> QED BY <2>1, <1>1
<1>6. Range(head) \cap Range(rest) = {}
    <2> SUFFICES ASSUME NEW i \in 1..n, NEW j \in 1 .. Len(s) - n, head[i] = rest[j]
                 PROVE  FALSE
        BY <1>2, <1>3 DEF Range
    <2>1. s[i] = s[n + j] /\ i \in DOMAIN s /\ n + j \in DOMAIN s
        BY <1>2, <1>3
    <2>2. i = n + j
        BY <2>1 DEF NoDup
    <2> QED BY <2>2, <1>1
<1>7. Range(head) \cup Range(rest) = Range(s)
    <2>1. ASSUME NEW x \in Range(s) PROVE x \in Range(head) \cup Range(rest)
        <3>1. PICK i \in 1..Len(s) : x = s[i]
            BY <1>1, <2>1 DEF Range
        <3>2. CASE i <= n
            <4>1. i \in DOMAIN head /\ head[i] = x
                BY <1>2, <3>1, <3>2
            <4> QED BY <4>1 DEF Range
        <3>3. CASE n < i
            <4>1. i - n \in 1 .. Len(s) - n /\ n + (i - n) = i
                BY <1>1, <3>3
            <4>2. i - n \in DOMAIN rest /\ rest[i - n] = x
                BY <1>3, <3>1, <4>1
            <4> QED BY <4>2 DEF Range
        <3> QED BY <1>1, <3>2, <3>3
    <2>2. Range(head) \subseteq Range(s)
        BY <1>2 DEF Range
    <2>3. Range(rest) \subseteq Range(s)
        BY <1>3 DEF Range
    <2> QED BY <2>1, <2>2, <2>3
<1> QED BY <1>2, <1>3, <1>4, <1>5, <1>6, <1>7 DEF head, rest

\* Appending an element that is not there yet.
LEMMA AppendNoDup ==
    ASSUME NEW T, NEW s \in Seq(T), NoDup(s), NEW x \in T, x \notin Range(s)
    PROVE  NoDup(Append(s, x)) /\ Range(Append(s, x)) = Range(s) \cup {x}
<1> DEFINE t == Append(s, x)
<1>1. DOMAIN s = 1..Len(s) /\ Len(s) \in Nat
    OBVIOUS
<1>2. /\ DOMAIN t = 1 .. Len(s) + 1
      /\ \A i \in 1..Len(s) : t[i] = s[i]
      /\ t[Len(s) + 1] = x
    OBVIOUS
<1> HIDE DEF t
<1>3. \A i \in 1..Len(s) : s[i] # x
    BY <1>1 DEF Range
<1>4. ASSUME NEW i \in DOMAIN t PROVE i \in 1..Len(s) \/ i = Len(s) + 1
    BY <1>1, <1>2
<1>5. NoDup(t)
    BY <1>1, <1>2, <1>3, <1>4 DEF NoDup
<1>6. Range(t) = Range(s) \cup {x}
    BY <1>1, <1>2, <1>4 DEF Range
<1> QED BY <1>5, <1>6 DEF t
=============================================================================
