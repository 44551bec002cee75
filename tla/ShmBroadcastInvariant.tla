----------------------- MODULE ShmBroadcastInvariant ------------------------
(* The inductive invariant of ShmBroadcast, lemmas about the chunks of the   *)
(* ring and the queues of the sockets, and that the steps of the writer      *)
(* preserve the invariant.                                                   *)
EXTENDS ShmBroadcast, TLAPS

(***************************************************************************)
(* The inductive invariant.  Objects are counted from 0 here: number k is  *)
(* in chunk Slot(k) from the moment it is published until number           *)
(* k + MaxChunks takes the chunk.                                          *)
(***************************************************************************)

Slot(k) == k % MaxChunks
Encoded(k) == IF k \in big THEN Overflow ELSE k
Writing == wpc \in {"write", "writing", "reset"}

\* The number of objects published in the ring, and of those a reader has
\* marked as read.
Published == IF Local = {} THEN 0
             ELSE IF Writing \/ wpc = "scan" THEN sent - 1 ELSE sent
Taken(r) == IF rpc[r] = "recv" THEN Len(got[r]) + 1 ELSE Len(got[r])

\* The objects whose chunks hold them.
InRing(k) == /\ k \in Nat
             /\ k < Published
             /\ IF Writing THEN Published < k + MaxChunks
                           ELSE Published <= k + MaxChunks

\* How many objects are past the local socket, and what it still holds.
SocketSent == IF wpc \in {"scan", "write", "writing", "reset", "send"}
                THEN sent - 1 ELSE sent
Pending(r) == {k \in Nat : Len(got[r]) < k /\ k <= SocketSent /\ k \in big}

\* A queue that holds exactly the numbers of S, in order, all above g.
QueueOK(q, g, S) ==
    /\ \A i \in 1..Len(q) : g + i <= q[i] /\ q[i] \in S
    /\ \A i, j \in 1..Len(q) : i < j => q[i] + (j - i) <= q[j]
    /\ \A k \in S : \E i \in 1..Len(q) : q[i] = k

Types ==
    /\ data \in [Chunks -> Nat]
    /\ written \in [Chunks -> BOOLEAN]
    /\ readFlag \in [Chunks -> [Local -> BOOLEAN]]
    /\ wpc \in {"idle", "scan", "write", "writing", "reset", "send", "remote"}
    /\ widx \in Chunks
    /\ left \in SUBSET Local
    /\ readCount \in SUBSET Local
    /\ rpc \in [Readers -> {"idle", "check", "read", "mark", "recv"}]
    /\ ridx \in [Readers -> Chunks]
    /\ buf \in [Readers -> Nat]
    /\ sock \in [Readers -> Seq(Nat)]
    /\ big \in SUBSET Nat
    /\ sent \in Nat
    /\ got \in [Readers -> Seq(Nat)]

WriterOK ==
    /\ sent <= MaxObjects
    /\ \A k \in big : k \in 1..sent
    /\ wpc # "idle" => sent > 0
    /\ Local = {} => wpc \in {"idle", "remote"}
    /\ wpc = "send" => sent \in big
    /\ widx = Slot(Published)
    /\ Writing => ~written[widx]
    /\ wpc = "reset" => /\ data[widx] = Encoded(sent)
                        /\ \A r \in Local \ left : ~readFlag[widx][r]
    /\ wpc = "scan" => \A r \in readCount : readFlag[widx][r]

ReaderOK(r) ==
    /\ Taken(r) <= Published
    /\ Published <= Taken(r) + MaxChunks
    /\ Writing => Published < Taken(r) + MaxChunks
    /\ ridx[r] = Slot(Taken(r))
    /\ rpc[r] \in {"check", "read", "mark"} => ~readFlag[ridx[r]][r]
    /\ rpc[r] \in {"read", "mark"} => Taken(r) < Published
    /\ rpc[r] = "mark" => buf[r] = Encoded(Taken(r) + 1)
    /\ rpc[r] = "recv" => Taken(r) \in big

ReadersOK ==
    /\ \A r \in Remote : rpc[r] = "idle"
    /\ \A r \in Local : ReaderOK(r)

RingOK ==
    /\ \A k \in Nat : InRing(k) =>
        /\ data[Slot(k)] = Encoded(k + 1)
        /\ written[Slot(k)]
        /\ \A r \in Local : readFlag[Slot(k)][r] <=> k < Taken(r)
    /\ \A c \in Chunks : Published <= c => ~written[c]

SocketOK(r) ==
    /\ Len(got[r]) <= SocketSent
    /\ QueueOK(sock[r], Len(got[r]), Pending(r))

SocketsOK == \A r \in Local : SocketOK(r)

IInv == Types /\ WriterOK /\ ReadersOK /\ RingOK /\ SocketsOK

(***************************************************************************)
(* The chunks of consecutive objects.                                      *)
(***************************************************************************)

\* Chunk numbers are in range, NextIdx is the chunk of the next object, and
\* MaxChunks consecutive objects are in different chunks.
LEMMA SlotType == \A k \in Nat : Slot(k) \in Chunks
  BY RingAssumption DEF Slot, Chunks

LEMMA SlotSmall == \A k \in Chunks : Slot(k) = k
  BY RingAssumption DEF Slot, Chunks

\* Division by MaxChunks: quotient and remainder are unique.
LEMMA SlotQuotient == \A k \in Nat : \E q \in Nat : k = q * MaxChunks + Slot(k)
<1> TAKE k \in Nat
<1>1. k \div MaxChunks \in Nat /\ k = (k \div MaxChunks) * MaxChunks + Slot(k)
  BY RingAssumption, Z3 DEF Slot
<1> QED
  BY <1>1

LEMMA QuotientUnique ==
  ASSUME NEW p \in Nat, NEW q \in Nat, NEW a \in Chunks, NEW b \in Chunks,
         p * MaxChunks + a = q * MaxChunks + b
  PROVE  p = q /\ a = b
<1>1. ASSUME NEW m \in Nat, NEW n \in Nat, m < n
      PROVE  n * MaxChunks >= m * MaxChunks + MaxChunks
  <2>1. PICK d \in Nat : n = m + 1 + d
    <3>1. n - m - 1 \in Nat /\ n = m + 1 + (n - m - 1)
      BY <1>1
    <3> QED
      BY <3>1
  <2>2. n * MaxChunks = m * MaxChunks + MaxChunks + d * MaxChunks
    BY <2>1, RingAssumption
  <2>3. d * MaxChunks \in Nat /\ m * MaxChunks \in Nat
    BY RingAssumption
  <2> QED
    BY <2>2, <2>3, RingAssumption
<1>2. p * MaxChunks \in Nat /\ q * MaxChunks \in Nat
  BY RingAssumption
<1>3. ~(p < q)
  <2> SUFFICES ASSUME p < q PROVE FALSE
    OBVIOUS
  <2>1. q * MaxChunks >= p * MaxChunks + MaxChunks
    BY <1>1
  <2> QED
    BY <2>1, <1>2, RingAssumption DEF Chunks
<1>4. ~(q < p)
  <2> SUFFICES ASSUME q < p PROVE FALSE
    OBVIOUS
  <2>1. p * MaxChunks >= q * MaxChunks + MaxChunks
    BY <1>1
  <2> QED
    BY <2>1, <1>2, RingAssumption DEF Chunks
<1>5. p = q
  BY <1>3, <1>4
<1> QED
  BY <1>5, <1>2 DEF Chunks

LEMMA SlotWrap == \A k \in Nat : Slot(k + MaxChunks) = Slot(k)
<1> TAKE k \in Nat
<1>1. PICK q \in Nat : k = q * MaxChunks + Slot(k)
  BY SlotQuotient
<1>2. k + MaxChunks \in Nat
  BY RingAssumption
<1>3. PICK p \in Nat : k + MaxChunks = p * MaxChunks + Slot(k + MaxChunks)
  BY <1>2, SlotQuotient
<1>4. (q + 1) * MaxChunks = q * MaxChunks + MaxChunks /\ q * MaxChunks \in Nat
  BY RingAssumption
<1>5. (q + 1) * MaxChunks + Slot(k) = p * MaxChunks + Slot(k + MaxChunks)
  BY <1>1, <1>3, <1>4, RingAssumption, SlotType DEF Chunks
<1> QED
  BY <1>2, <1>5, SlotType, QuotientUnique

LEMMA SlotInjective ==
  \A j, k \in Nat : j < k /\ k < j + MaxChunks => Slot(j) # Slot(k)
<1> SUFFICES ASSUME NEW j \in Nat, NEW k \in Nat, j < k, k < j + MaxChunks,
                    Slot(j) = Slot(k)
             PROVE  FALSE
  OBVIOUS
<1>1. PICK p \in Nat : j = p * MaxChunks + Slot(j)
  BY SlotQuotient
<1>2. PICK q \in Nat : k = q * MaxChunks + Slot(k)
  BY SlotQuotient
<1>3. DEFINE d == k - j
<1>4. d \in Chunks /\ 0 \in Chunks /\ d # 0
  BY RingAssumption DEF Chunks
<1>5. p * MaxChunks + d = q * MaxChunks + 0
  BY <1>1, <1>2, RingAssumption, SlotType DEF Chunks
<1> QED
  BY <1>4, <1>5, QuotientUnique

LEMMA SlotNext == \A k \in Nat : NextIdx(Slot(k)) = Slot(k + 1)
<1> TAKE k \in Nat
<1>0. Slot(k) \in Chunks
  BY SlotType
<1>1. PICK q \in Nat : k = q * MaxChunks + Slot(k)
  BY SlotQuotient
<1>2. PICK p \in Nat : k + 1 = p * MaxChunks + Slot(k + 1)
  BY SlotQuotient
<1>3. Slot(k + 1) \in Chunks
  BY SlotType
<1>4. CASE Slot(k) + 1 < MaxChunks
  <2>1. Slot(k) + 1 \in Chunks
    BY <1>0, <1>4, RingAssumption DEF Chunks
  <2>2. q * MaxChunks + (Slot(k) + 1) = p * MaxChunks + Slot(k + 1)
    BY <1>0, <1>1, <1>2, <1>3, RingAssumption DEF Chunks
  <2>3. Slot(k) + 1 = Slot(k + 1)
    BY <2>1, <2>2, <1>3, QuotientUnique
  <2>4. NextIdx(Slot(k)) = Slot(Slot(k) + 1)
    BY DEF NextIdx, Slot
  <2> QED
    BY <2>1, <2>3, <2>4, SlotSmall
<1>5. CASE Slot(k) + 1 = MaxChunks
  <2>1. (q + 1) * MaxChunks = q * MaxChunks + MaxChunks /\ q * MaxChunks \in Nat
    BY RingAssumption
  <2>2. 0 \in Chunks /\ q + 1 \in Nat
    BY RingAssumption DEF Chunks
  <2>3. (q + 1) * MaxChunks + 0 = p * MaxChunks + Slot(k + 1)
    BY <1>0, <1>1, <1>2, <1>3, <1>5, <2>1, RingAssumption DEF Chunks
  <2>4. Slot(k + 1) = 0
    BY <1>3, <2>2, <2>3, QuotientUnique
  <2>5. NextIdx(Slot(k)) = Slot(0 + MaxChunks)
    BY <1>5, RingAssumption DEF NextIdx, Slot
  <2> QED
    BY <2>2, <2>4, <2>5, SlotWrap, SlotSmall
<1> QED
  BY <1>0, <1>4, <1>5, RingAssumption DEF Chunks

(***************************************************************************)
(* Queues of increasing numbers.                                           *)
(***************************************************************************)

\* The length of such a queue is bounded by the interval it is taken from.
LEMMA QueueLen ==
  ASSUME NEW q \in Seq(Nat), NEW g \in Nat, NEW S \in SUBSET Nat, NEW m \in Nat,
         QueueOK(q, g, S), g <= m, \A k \in S : k <= m
  PROVE  Len(q) <= m - g
<1>1. CASE q = <<>>
  BY <1>1
<1>2. CASE q # <<>>
  <2>1. Len(q) \in 1..Len(q) /\ q[Len(q)] \in Nat
    BY <1>2
  <2> QED
    BY <2>1 DEF QueueOK
<1> QED
  BY <1>1, <1>2

LEMMA QueuePush ==
  ASSUME NEW q \in Seq(Nat), NEW g \in Nat, NEW S \in SUBSET Nat, NEW x \in Nat,
         QueueOK(q, g, S), g < x, \A k \in S : k < x
  PROVE  QueueOK(Append(q, x), g, S \cup {x})
<1> DEFINE n == Len(q)
           p == Append(q, x)
<1>1. /\ n \in Nat /\ Len(p) = n + 1 /\ p[n + 1] = x
      /\ \A i \in 1..n : p[i] = q[i] /\ q[i] \in Nat
  OBVIOUS
<1>2. g + n <= x - 1
  <2>1. PICK m \in Nat : m = x - 1
    OBVIOUS
  <2>2. g <= m /\ \A k \in S : k <= m
    BY <2>1
  <2>3. n <= m - g
    BY <2>2, QueueLen
  <2> QED
    BY <1>1, <2>1, <2>3
<1> HIDE DEF p, n
<1>3. \A i \in 1..n + 1 : g + i <= p[i] /\ p[i] \in S \cup {x}
  <2>1. \A i \in 1..n : g + i <= q[i] /\ q[i] \in S
    BY DEF QueueOK, n
  <2>2. g + (n + 1) <= p[n + 1] /\ p[n + 1] \in S \cup {x}
    BY <1>1, <1>2
  <2> TAKE i \in 1..n + 1
  <2>3. CASE i = n + 1
    BY <2>2, <2>3
  <2>4. CASE i \in 1..n
    BY <1>1, <2>1, <2>4, Zenon
  <2> QED
    BY <1>1, <2>3, <2>4
<1>4. ASSUME NEW i \in 1..n + 1, NEW j \in 1..n + 1, i < j
      PROVE  p[i] + (j - i) <= p[j]
  <2>1. i \in 1..n /\ p[i] = q[i]
    BY <1>1, <1>4
  <2>2. CASE j = n + 1
    <3>0. n \in 1..n
      BY <1>1, <2>1
    <3>1. n \in 1..n /\ q[n] < x /\ q[n] \in Nat /\ q[i] \in Nat
      <4>1. q[n] \in S
        BY <3>0 DEF QueueOK, n
      <4> QED
        BY <1>1, <2>1, <3>0, <4>1
    <3>2. i < n => q[i] + (n - i) <= q[n]
      BY <2>1, <3>1 DEF QueueOK, n
    <3> QED
      BY SMTT(30), <1>1, <2>1, <2>2, <3>1, <3>2
  <2>3. CASE j \in 1..n
    BY <1>1, <1>4, <2>1, <2>3 DEF QueueOK, n
  <2> QED
    BY <1>1, <2>2, <2>3
<1>5. ASSUME NEW k \in S \cup {x}
      PROVE  \E i \in 1..n + 1 : p[i] = k
  <2>1. CASE k = x
    BY <1>1, <2>1
  <2>2. CASE k \in S
    <3>1. PICK i \in 1..n : q[i] = k
      BY <2>2 DEF QueueOK, n
    <3> QED
      BY <1>1, <3>1
  <2> QED
    BY <2>1, <2>2
<1>6. QueueOK(p, g, S \cup {x})
  BY <1>1, <1>3, <1>4, <1>5 DEF QueueOK
<1> QED
  BY <1>6 DEF p

LEMMA QueuePop ==
  ASSUME NEW q \in Seq(Nat), NEW g \in Nat, NEW S \in SUBSET Nat,
         QueueOK(q, g, S), g + 1 \in S
  PROVE  /\ Head(q) = g + 1 /\ Tail(q) \in Seq(Nat)
         /\ QueueOK(Tail(q), g + 1, S \ {g + 1})
<1> DEFINE n == Len(q)
           t == Tail(q)
<1>1. PICK i \in 1..n : q[i] = g + 1
  BY DEF QueueOK
<1>2. i = 1
  <2>1. g + i <= q[i]
    BY <1>1 DEF QueueOK
  <2> QED
    BY <1>1, <2>1
<1>3. q # <<>> /\ q[1] = g + 1 /\ Head(q) = g + 1
  BY <1>1, <1>2
<1>4. n \in Nat /\ n >= 1 /\ t \in Seq(Nat) /\ Len(t) = n - 1
  BY <1>3
<1>a. ASSUME NEW j \in Nat, j >= 1, j <= n - 1
      PROVE  t[j] = q[j + 1] /\ q[j + 1] \in Nat
  BY <1>3, <1>a
<1> HIDE DEF t, n
<1>5. \A j \in 1..n - 1 : /\ g + 1 + j <= t[j] /\ t[j] \in S \ {g + 1}
  <2> TAKE j \in 1..n - 1
  <2>0. j \in Nat /\ j >= 1 /\ j <= n - 1 /\ j + 1 \in 1..n
    BY <1>4
  <2>1. t[j] = q[j + 1] /\ q[j + 1] \in Nat
    BY <1>a, <2>0, Zenon
  <2>2. g + (j + 1) <= q[j + 1] /\ q[j + 1] \in S
    BY <2>0 DEF QueueOK, n
  <2> QED
    BY <2>0, <2>1, <2>2
<1>6. ASSUME NEW j \in 1..n - 1, NEW k \in 1..n - 1, j < k
      PROVE  t[j] + (k - j) <= t[k]
  <2>1. /\ j + 1 \in 1..n /\ k + 1 \in 1..n /\ j + 1 < k + 1
        /\ j \in Nat /\ j >= 1 /\ j <= n - 1
        /\ k \in Nat /\ k >= 1 /\ k <= n - 1
    BY <1>4, <1>6
  <2>2. t[j] = q[j + 1] /\ t[k] = q[k + 1]
    BY <1>a, <2>1, Zenon
  <2>3. q[j + 1] + ((k + 1) - (j + 1)) <= q[k + 1]
    BY <2>1 DEF QueueOK, n
  <2> QED
    BY <2>1, <2>2, <2>3
<1>7. ASSUME NEW k \in S \ {g + 1}
      PROVE  \E j \in 1..n - 1 : t[j] = k
  <2>1. PICK j \in 1..n : q[j] = k
    BY DEF QueueOK, n
  <2>2. j # 1
    BY <1>3, <2>1
  <2>3. PICK i1 \in 1..n - 1 : j = i1 + 1
    BY <1>4, <2>1, <2>2
  <2>4. t[i1] = q[i1 + 1]
    BY <1>a, <1>4, <2>3
  <2> QED
    BY <2>1, <2>3, <2>4
<1>8. QueueOK(t, g + 1, S \ {g + 1})
  BY <1>4, <1>5, <1>6, <1>7 DEF QueueOK
<1> QED
  BY <1>3, <1>4, <1>8 DEF t

\* A number that is not in the queue can be passed over.
LEMMA QueueSkip ==
  ASSUME NEW q \in Seq(Nat), NEW g \in Nat, NEW S \in SUBSET Nat,
         QueueOK(q, g, S), g + 1 \notin S
  PROVE  QueueOK(q, g + 1, S)
<1>1. ASSUME NEW i \in 1..Len(q)
      PROVE  g + 1 + i <= q[i]
  <2>1. 1 \in 1..Len(q) /\ q[1] \in Nat /\ q[i] \in Nat
    OBVIOUS
  <2>2. g + 1 <= q[1] /\ q[1] # g + 1
    BY <2>1 DEF QueueOK
  <2>3. 1 < i => q[1] + (i - 1) <= q[i]
    BY <2>1 DEF QueueOK
  <2> QED
    BY SMTT(30), <2>1, <2>2, <2>3
<1> QED
  BY <1>1 DEF QueueOK


(***************************************************************************)
(* The invariant holds at the beginning; facts that several actions use.   *)
(***************************************************************************)

USE RingAssumption DEF Overflow

LEMMA InitInv == Init => IInv
<1> SUFFICES ASSUME Init PROVE IInv
  OBVIOUS
<1> USE DEF Init, Readers, Torn
<1>1. Types
  BY DEF Types, Chunks
<1>2. Slot(0) = 0
  BY SlotSmall DEF Chunks
<1> QED
  BY <1>1, <1>2 DEF IInv, WriterOK, ReadersOK, ReaderOK, RingOK,
     SocketsOK, SocketOK, Published, Writing, Taken, InRing, Pending,
     SocketSent, QueueOK

\* A step that does not touch the sockets.
LEMMA SocketsSame ==
  ASSUME SocketsOK, UNCHANGED <<sock, big, got>>,
         SocketSent' = SocketSent
  PROVE  SocketsOK'
<1>1. \A r \in Local : Pending(r)' = Pending(r)
  BY DEF Pending
<1> QED
  BY <1>1 DEF SocketsOK, SocketOK

\* While the writer has a chunk, no object of the ring is in that chunk.
LEMMA RingStable ==
  ASSUME Types, WriterOK, Writing, NEW k \in Nat, InRing(k)
  PROVE  Slot(k) # widx /\ Slot(k) \in Chunks
<1>1. Published \in Nat /\ k < Published /\ Published < k + MaxChunks
  BY DEF Types, WriterOK, InRing, Published, Writing
<1> QED
  BY <1>1, SlotInjective, SlotType DEF WriterOK

\* A step that changes nothing a reader looks at leaves the readers as they are.
LEMMA ReadersSame ==
  ASSUME ReadersOK, UNCHANGED <<rpc, ridx, buf, readFlag, big, got>>,
         Published' = Published, Writing' <=> Writing
  PROVE  ReadersOK'
  BY Zenon DEF ReadersOK, ReaderOK, Taken, Encoded

\* So is the ring after a step that touches neither chunks nor flags.
LEMMA RingUntouched ==
  ASSUME RingOK, UNCHANGED <<data, written, readFlag, rpc, big, got>>,
         Published' = Published, Writing' <=> Writing
  PROVE  RingOK'
  BY Zenon DEF RingOK, InRing, Taken, Encoded

\* While the writer has a chunk, what it writes there is no object of the ring.
LEMMA RingSame ==
  ASSUME Types, WriterOK, RingOK, Writing, Writing', Published' = Published,
         UNCHANGED <<written, readFlag, rpc, big, got>>,
         NEW x, data' = [data EXCEPT ![widx] = x]
  PROVE  RingOK'
<1>1. /\ \A k \in Nat : InRing(k)' <=> InRing(k)
      /\ \A k : Encoded(k)' = Encoded(k)
      /\ \A r : Taken(r)' = Taken(r)
  BY DEF InRing, Encoded, Taken
<1>2. ASSUME NEW k \in Nat, InRing(k)
      PROVE  data'[Slot(k)] = data[Slot(k)]
  BY <1>2, RingStable DEF Types
<1> QED
  BY <1>1, <1>2 DEF RingOK

(***************************************************************************)
(* The steps of the writer: enqueue and acquire_write.                     *)
(***************************************************************************)

LEMMA EnqueueInv ==
  ASSUME IInv, Enqueue
  PROVE  IInv'
<1> USE DEF IInv, Enqueue, StartScan, readerVars
<1>1. /\ big' \in SUBSET Nat
      /\ \A k \in Nat : k <= sent => (k \in big' <=> k \in big)
      /\ \A k \in big' : k \in 1..sent'
  <2>1. CASE big' = big \cup {sent + 1}
    BY <2>1 DEF Types, WriterOK
  <2>2. CASE big' = big
    BY <2>2 DEF Types, WriterOK
  <2> QED
    BY <2>1, <2>2
<1>2. Types'
  BY <1>1 DEF Types
<1>3. /\ Published' = Published /\ Published \in Nat /\ Published <= sent
      /\ ~Writing /\ ~Writing'
      /\ \A r \in Readers : Taken(r)' = Taken(r)
  BY DEF Types, Published, Writing, Taken
<1>4. WriterOK'
  BY <1>1, <1>3 DEF Types, WriterOK, Writing
<1>5. ReadersOK'
  <2>1. ASSUME NEW r \in Local PROVE ReaderOK(r)'
    <3>1. Taken(r) \in Nat /\ Taken(r)' = Taken(r) /\ Taken(r) <= Published
      BY <1>3 DEF Types, Taken, ReadersOK, ReaderOK, Readers
    <3>2. Taken(r) < Published => Encoded(Taken(r) + 1)' = Encoded(Taken(r) + 1)
      BY <1>1, <1>3, <3>1 DEF Encoded, Types
    <3>3. Taken(r) \in big => Taken(r) \in big'
      BY <1>1, <1>3, <3>1 DEF Types
    <3> QED
      BY <1>3, <3>1, <3>2, <3>3 DEF ReadersOK, ReaderOK
  <2> QED
    BY <2>1 DEF ReadersOK
<1>6. RingOK'
  <2>1. \A k \in Nat : InRing(k)' <=> InRing(k)
    BY <1>3 DEF InRing
  <2>2. \A k \in Nat : InRing(k) => Encoded(k + 1)' = Encoded(k + 1)
    BY <1>1, <1>3 DEF InRing, Encoded, Types
  <2> QED
    BY <1>3, <2>1, <2>2 DEF RingOK, Readers
<1>7. SocketsOK'
  <2> SUFFICES ASSUME Local # {} PROVE SocketsOK'
    BY DEF SocketsOK
  <2>1. SocketSent' = SocketSent /\ SocketSent = sent
    BY DEF Types, SocketSent
  <2>2. \A r \in Local : Pending(r)' = Pending(r)
    BY <1>1, <2>1 DEF Types, Pending
  <2> QED
    BY <2>1, <2>2 DEF SocketsOK, SocketOK, Types
<1> QED
  BY <1>2, <1>4, <1>5, <1>6, <1>7

LEMMA ScanFlagInv ==
  ASSUME IInv, NEW q \in Local, ScanFlag(q)
  PROVE  IInv'
<1> USE DEF IInv, ScanFlag, readerVars
<1>1. Types'
  BY DEF Types
<1>2. /\ Published' = Published /\ Published \in Nat
      /\ ~Writing /\ ~Writing'
      /\ \A r \in Readers : Taken(r)' = Taken(r) /\ Taken(r) \in Nat
      /\ \A k \in Nat : Encoded(k)' = Encoded(k)
  BY DEF Types, WriterOK, Published, Writing, Taken, Encoded
<1>3. WriterOK'
  BY <1>2 DEF Types, WriterOK
<1>4. ReadersOK'
  BY <1>2, ReadersSame
<1>5. RingOK'
  BY <1>2, RingUntouched, Zenon
<1>6. SocketsOK'
  BY SocketsSame DEF SocketSent
<1> QED
  BY <1>1, <1>3, <1>4, <1>5, <1>6

LEMMA RescanInv ==
  ASSUME IInv, Rescan
  PROVE  IInv'
<1> USE DEF IInv, Rescan, StartScan, readerVars
<1>1. Types'
  BY DEF Types
<1>2. /\ Published' = Published /\ Published \in Nat
      /\ ~Writing /\ ~Writing'
      /\ \A r \in Readers : Taken(r)' = Taken(r) /\ Taken(r) \in Nat
      /\ \A k \in Nat : Encoded(k)' = Encoded(k)
  BY DEF Types, WriterOK, Published, Writing, Taken, Encoded
<1>3. WriterOK'
  BY <1>2 DEF Types, WriterOK
<1>4. ReadersOK'
  BY <1>2, ReadersSame
<1>5. RingOK'
  BY <1>2, RingUntouched, Zenon
<1>6. SocketsOK'
  BY SocketsSame DEF SocketSent
<1> QED
  BY <1>1, <1>3, <1>4, <1>5, <1>6

LEMMA TakeChunkInv ==
  ASSUME IInv, TakeChunk
  PROVE  IInv'
<1> USE DEF IInv, TakeChunk, readerVars
<1>1. Types'
  BY DEF Types
<1>a. Local # {}
  BY DEF WriterOK
<1>2. /\ Published' = Published /\ Published \in Nat
      /\ ~Writing /\ Writing'
      /\ \A r \in Readers : Taken(r)' = Taken(r) /\ Taken(r) \in Nat
      /\ \A k \in Nat : Encoded(k)' = Encoded(k)
  BY DEF Types, WriterOK, Published, Writing, Taken, Encoded
<1>3. WriterOK'
  <2>1. written'[widx] = FALSE
    BY DEF Types
  <2> QED
    BY <1>2, <1>a, <2>1 DEF WriterOK
<1>4. ASSUME NEW r \in Local PROVE Published < Taken(r) + MaxChunks
  <2>1. Taken(r) \in Nat
    BY <1>2 DEF Readers
  <2>2. CASE Published < MaxChunks
    BY <1>2, <2>1, <2>2
  <2>3. CASE Published >= MaxChunks
    <3> DEFINE k == Published - MaxChunks
    <3>1. k \in Nat /\ InRing(k) /\ Slot(k) = widx
      BY <1>2, <2>3, SlotWrap DEF InRing, WriterOK
    <3>2. written[widx] /\ (readFlag[widx][r] <=> k < Taken(r))
      BY <3>1 DEF RingOK
    <3>3. readFlag[widx][r]
      BY <3>2 DEF WriterOK
    <3> QED
      BY <3>2, <3>3, <2>1, <1>2
  <2> QED
    BY <1>2, <2>2, <2>3
<1>5. ReadersOK'
  BY <1>2, <1>4 DEF Types, ReadersOK, ReaderOK, Readers
<1>6. RingOK'
  <2>1. ASSUME NEW k \in Nat, InRing(k)'
        PROVE  InRing(k) /\ Slot(k) # widx
    <3>1. k < Published /\ Published < k + MaxChunks
      BY <1>2, <2>1 DEF InRing
    <3> QED
      BY <1>2, <3>1, SlotInjective DEF InRing, WriterOK
  <2>2. ASSUME NEW k \in Nat, InRing(k)'
        PROVE  written'[Slot(k)] <=> written[Slot(k)]
    BY <2>1, <2>2, SlotType DEF Types
  <2>3. \A c \in Chunks : ~written[c] => ~written'[c]
    BY DEF Types
  <2> QED
    BY <1>2, <2>1, <2>2, <2>3 DEF RingOK, Readers
<1>7. SocketsOK'
  BY SocketsSame DEF SocketSent
<1> QED
  BY <1>1, <1>3, <1>5, <1>6, <1>7

LEMMA BeginWriteInv ==
  ASSUME IInv, BeginWrite
  PROVE  IInv'
<1> USE DEF IInv, BeginWrite, readerVars
<1>1. Types'
  BY DEF Types, Torn
<1>2. /\ Published' = Published /\ Published \in Nat
      /\ Local # {} /\ Writing /\ Writing'
      /\ \A r \in Readers : Taken(r)' = Taken(r) /\ Taken(r) \in Nat
      /\ \A k \in Nat : Encoded(k)' = Encoded(k)
  BY DEF Types, WriterOK, Published, Writing, Taken, Encoded
<1>3. WriterOK'
  BY <1>2 DEF Types, WriterOK
<1>4. ReadersOK'
  BY <1>2, ReadersSame
<1>5. RingOK'
  BY <1>2, RingSame, Zenon
<1>6. SocketsOK'
  BY SocketsSame DEF SocketSent
<1> QED
  BY <1>1, <1>3, <1>4, <1>5, <1>6

LEMMA EndWriteInv ==
  ASSUME IInv, EndWrite
  PROVE  IInv'
<1> USE DEF IInv, EndWrite, readerVars
<1>1. Types'
  BY DEF Types
<1>2. /\ Published' = Published /\ Published \in Nat
      /\ Local # {} /\ Writing /\ Writing'
      /\ \A r \in Readers : Taken(r)' = Taken(r) /\ Taken(r) \in Nat
      /\ \A k \in Nat : Encoded(k)' = Encoded(k)
  BY DEF Types, WriterOK, Published, Writing, Taken, Encoded
<1>3. WriterOK'
  BY <1>2 DEF Types, WriterOK, Encoded
<1>4. ReadersOK'
  BY <1>2, ReadersSame
<1>5. RingOK'
  BY <1>2, RingSame, Zenon
<1>6. SocketsOK'
  BY SocketsSame DEF SocketSent
<1> QED
  BY <1>1, <1>3, <1>4, <1>5, <1>6

LEMMA ResetFlagInv ==
  ASSUME IInv, NEW q \in Local, ResetFlag(q)
  PROVE  IInv'
<1> USE DEF IInv, ResetFlag, readerVars
<1>1. Types'
  BY DEF Types
<1>2. /\ Published' = Published /\ Published \in Nat
      /\ Local # {} /\ Writing /\ Writing'
      /\ \A r \in Readers : Taken(r)' = Taken(r) /\ Taken(r) \in Nat
      /\ \A k \in Nat : Encoded(k)' = Encoded(k)
  BY DEF Types, WriterOK, Published, Writing, Taken, Encoded
<1>a. \A c \in Chunks, r \in Local :
          readFlag'[c][r] <=> readFlag[c][r] /\ ~(c = widx /\ r = q)
  BY DEF Types
<1>3. WriterOK'
  BY <1>2, <1>a DEF Types, WriterOK
<1>4. ReadersOK'
  <2>1. ASSUME NEW r \in Local PROVE ReaderOK(r)'
    <3>1. ridx[r] \in Chunks /\ Taken(r)' = Taken(r) /\ Taken(r) \in Nat
      BY <1>2 DEF Types, Readers
    <3> QED
      BY <1>2, <1>a, <3>1 DEF ReadersOK, ReaderOK
  <2> QED
    BY <2>1 DEF ReadersOK
<1>5. RingOK'
  <2>1. ASSUME NEW k \in Nat, InRing(k)'
        PROVE  InRing(k) /\ Slot(k) # widx /\ Slot(k) \in Chunks
    BY <1>2, <2>1, RingStable DEF InRing
  <2> QED
    BY <1>2, <1>a, <2>1 DEF RingOK, Readers
<1>6. SocketsOK'
  BY SocketsSame DEF SocketSent
<1> QED
  BY <1>1, <1>3, <1>4, <1>5, <1>6

LEMMA PublishInv ==
  ASSUME IInv, Publish
  PROVE  IInv'
<1> USE DEF IInv, Publish, AfterPublish, readerVars
<1>1. /\ Published' = Published + 1 /\ Published \in Nat /\ sent = Published + 1
      /\ Local # {} /\ Writing /\ ~Writing'
      /\ \A r \in Readers : Taken(r)' = Taken(r) /\ Taken(r) \in Nat
      /\ \A k \in Nat : Encoded(k)' = Encoded(k)
  BY DEF Types, WriterOK, Published, Writing, Taken, Encoded
<1>2. widx' = Slot(Published')
  BY <1>1, SlotNext DEF WriterOK
<1>3. Types'
  BY ZenonT(30), <1>1, <1>2, SlotType DEF Types
<1>4. WriterOK'
  BY <1>1, <1>2 DEF Types, WriterOK
<1>5. ReadersOK'
  <2>1. ASSUME NEW r \in Local PROVE ReaderOK(r)'
    <3>1. ReaderOK(r) /\ Taken(r)' = Taken(r) /\ Taken(r) \in Nat
      BY <1>1 DEF ReadersOK, Readers
    <3> QED
      BY <1>1, <3>1 DEF ReaderOK
  <2> QED
    BY <2>1 DEF ReadersOK
<1>6. RingOK'
  <2>1. ASSUME NEW k \in Nat, InRing(k)', k # Published
        PROVE  InRing(k) /\ Slot(k) # widx /\ Slot(k) \in Chunks
    <3>1. InRing(k)
      BY <1>1, <2>1 DEF InRing
    <3> QED
      BY <1>1, <3>1, RingStable
  <2>2. ASSUME NEW k \in Nat, k = Published, NEW r \in Local
        PROVE  ~readFlag[Slot(k)][r] /\ ~(k < Taken(r))
    <3>1. ~readFlag[widx][r] /\ widx = Slot(Published)
      BY DEF WriterOK
    <3>2. Taken(r) <= Published /\ Taken(r) \in Nat
      BY <1>1 DEF ReadersOK, ReaderOK, Readers
    <3> QED
      BY <1>1, <2>2, <3>1, <3>2
  <2>3. ASSUME NEW c \in Chunks, Published' <= c
        PROVE  ~written'[c]
    <3>1. c # widx
      <4>1. Published \in Chunks
        BY <1>1, <2>3 DEF Chunks
      <4> QED
        BY <1>1, <4>1, <2>3, SlotSmall DEF WriterOK, Chunks
    <3>2. Published <= c
      BY <1>1, <2>3 DEF Chunks
    <3> QED
      BY <3>1, <3>2 DEF RingOK, Types
  <2>4. \A k \in Nat : k = Published =>
             data[Slot(k)] = Encoded(k + 1) /\ written'[Slot(k)]
    BY <1>1 DEF WriterOK, Types
  <2>5. ASSUME NEW k \in Nat, InRing(k)', k # Published
        PROVE  written'[Slot(k)] <=> written[Slot(k)]
    BY <2>1, <2>5 DEF Types
  <2>6. ASSUME NEW k \in Nat, InRing(k)'
        PROVE  /\ data'[Slot(k)] = Encoded(k + 1)'
               /\ written'[Slot(k)]
               /\ \A r \in Local : readFlag'[Slot(k)][r] <=> k < Taken(r)'
    <3>1. CASE k = Published
      BY <1>1, <2>2, <2>4, <3>1 DEF Readers
    <3>2. CASE k # Published
      BY <1>1, <2>1, <2>5, <2>6, <3>2 DEF RingOK, Readers
    <3> QED
      BY <3>1, <3>2
  <2> QED
    BY <2>3, <2>6 DEF RingOK
<1>7. SocketsOK'
  <2>1. \A r \in Local : Pending(r)' = Pending(r)
    BY DEF Types, Pending, SocketSent, WriterOK
  <2>2. SocketSent <= SocketSent'
    BY DEF Types, SocketSent
  <2> QED
    BY <2>1, <2>2 DEF SocketsOK, SocketOK, Types, SocketSent
<1> QED
  BY <1>3, <1>4, <1>5, <1>6, <1>7

LEMMA SendLocalInv ==
  ASSUME IInv, SendLocal
  PROVE  IInv'
<1> USE DEF IInv, SendLocal, readerVars
<1>1. Types'
  <2>1. \A r \in Readers : Push(sock[r]) \in Seq(Nat)
    BY DEF Push, Types
  <2> QED
    BY <2>1 DEF Types, Readers
<1>2. /\ Published' = Published /\ Published \in Nat
      /\ ~Writing /\ ~Writing'
      /\ \A r \in Readers : Taken(r)' = Taken(r) /\ Taken(r) \in Nat
      /\ \A k \in Nat : Encoded(k)' = Encoded(k)
  BY DEF Types, WriterOK, Published, Writing, Taken, Encoded
<1>3. WriterOK'
  BY <1>2 DEF Types, WriterOK
<1>4. ReadersOK'
  BY <1>2, ReadersSame
<1>5. RingOK'
  BY <1>2, RingUntouched, Zenon
<1>6. SocketsOK'
  <2>1. ASSUME NEW r \in Local PROVE SocketOK(r)'
    <3>1. /\ r \in Readers /\ SocketOK(r) /\ sock'[r] = Push(sock[r])
          /\ sent \in big
          /\ sock[r] \in Seq(Nat) /\ Len(sock[r]) \in Nat /\ Len(got[r]) \in Nat
      BY DEF Readers, SocketsOK, Types, WriterOK
    <3>2. SocketSent = sent - 1 /\ SocketSent' = sent /\ sent - 1 \in Nat
      BY DEF SocketSent, WriterOK, Types
    <3>3. /\ Pending(r) \in SUBSET Nat /\ \A k \in Pending(r) : k <= sent - 1
          /\ Len(got[r]) <= sent - 1
          /\ Pending(r)' = Pending(r) \cup {sent}
      BY <3>1, <3>2 DEF Pending, SocketOK, Types
    <3>4. Len(sock[r]) < SendHWM
      <4>0. PICK m \in Nat : m = sent - 1
        BY <3>2
      <4>1. Len(sock[r]) <= m - Len(got[r])
        BY SMTT(30), <3>1, <3>3, <4>0, QueueLen DEF SocketOK
      <4>2. Published = sent /\ sent <= Len(got[r]) + 1 + MaxChunks
        <5>1. Published = sent
          BY DEF Published, Writing, WriterOK
        <5>2. Published <= Taken(r) + MaxChunks
          BY DEF ReadersOK, ReaderOK
        <5> QED
          BY <3>1, <5>1, <5>2 DEF Taken, Types
      <4> QED
        BY <3>1, <3>3, <4>0, <4>1, <4>2 DEF Types
    <3>5. sock'[r] = Append(sock[r], sent)
      BY <3>1, <3>4 DEF Push
    <3>6. QueueOK(Append(sock[r], sent), Len(got[r]), Pending(r) \cup {sent})
      <4>1. sent \in Nat /\ Len(got[r]) < sent /\ \A k \in Pending(r) : k < sent
        BY <3>1, <3>2, <3>3 DEF Types
      <4> QED
        BY <3>1, <3>3, <4>1, QueuePush DEF SocketOK
    <3>7. Len(got[r])' = Len(got[r]) /\ Len(got[r])' <= SocketSent'
      BY <3>1, <3>2, <3>3 DEF Types
    <3>8. QueueOK(sock'[r], Len(got'[r]), Pending(r)')
      <4>1. Len(got'[r]) = Len(got[r])
        OBVIOUS
      <4> QED
        BY <3>3, <3>5, <3>6, <4>1, Zenon
    <3> QED
      BY <3>7, <3>8 DEF SocketOK
  <2> QED
    BY <2>1 DEF SocketsOK
<1> QED
  BY <1>1, <1>3, <1>4, <1>5, <1>6

LEMMA SendRemoteInv ==
  ASSUME IInv, SendRemote
  PROVE  IInv'
<1> USE DEF IInv, SendRemote, readerVars
<1>1. Types'
  <2>1. \A r \in Readers : Push(sock[r]) \in Seq(Nat)
    BY DEF Push, Types
  <2> QED
    BY <2>1 DEF Types, Readers
<1>2. /\ Published' = Published /\ Published \in Nat
      /\ ~Writing /\ ~Writing'
      /\ \A r \in Readers : Taken(r)' = Taken(r) /\ Taken(r) \in Nat
      /\ \A k \in Nat : Encoded(k)' = Encoded(k)
  BY SMTT(30) DEF Types, WriterOK, Published, Writing, Taken, Encoded
<1>3. WriterOK'
  BY <1>2 DEF WriterOK
<1>4. ReadersOK'
  BY <1>2, ReadersSame
<1>5. RingOK'
  BY <1>2, RingUntouched, Zenon
<1>6. SocketsOK'
  <2>1. ASSUME NEW r \in Local PROVE SocketOK(r)'
    <3>1. SocketOK(r) /\ sock'[r] = sock[r]
      BY DEF SocketsOK, Readers, Types
    <3>2. SocketSent' = SocketSent /\ Pending(r)' = Pending(r)
      BY <3>1 DEF SocketSent, Pending
    <3> QED
      BY <3>1, <3>2 DEF SocketOK
  <2> QED
    BY <2>1 DEF SocketsOK
<1> QED
  BY <1>1, <1>3, <1>4, <1>5, <1>6
=============================================================================
