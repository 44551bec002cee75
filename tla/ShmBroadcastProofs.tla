------------------------- MODULE ShmBroadcastProofs -------------------------
(* For every number of readers, chunks and objects: the ring of ShmBroadcast *)
(* implements the safety part of Broadcast, readers keep their chunks, and   *)
(* no large object meets a full publish socket.                              *)
EXTENDS ShmBroadcastInvariant, SequenceTheorems

USE RingAssumption DEF Overflow

(***************************************************************************)
(* The steps of a reader: dequeue and acquire_read.                        *)
(***************************************************************************)

LEMMA ReadOwnFlagInv ==
  ASSUME IInv, NEW q \in Readers, ReadOwnFlag(q)
  PROVE  IInv'
<1> USE DEF IInv, ReadOwnFlag, writerVars
<1>1. Types'
  BY DEF Types
<1>2. /\ Published' = Published /\ Published \in Nat /\ Writing' = Writing
      /\ \A r \in Readers : Taken(r)' = Taken(r) /\ Taken(r) \in Nat
      /\ \A k \in Nat : Encoded(k)' = Encoded(k)
  BY SMTT(30) DEF Types, WriterOK, Published, Writing, Taken, Encoded
<1>3. WriterOK'
  BY <1>2 DEF Types, WriterOK, Writing
<1>4. q \in Local
  BY DEF ReadersOK, Readers
<1>5. ReadersOK'
  <2>1. ASSUME NEW r \in Local, r # q PROVE ReaderOK(r)'
    <3>1. /\ r \in Readers /\ rpc'[r] = rpc[r] /\ ridx'[r] = ridx[r]
          /\ buf'[r] = buf[r]
      BY <2>1 DEF Types, Readers
    <3> QED
      BY <1>2, <3>1 DEF ReadersOK, ReaderOK, Writing
  <2>2. ReaderOK(q)'
    BY <1>2, <1>4 DEF ReadersOK, ReaderOK, Writing, Types
  <2>3. \A r \in Remote : rpc'[r] = "idle"
    BY <1>4 DEF ReadersOK, Types, Readers
  <2> QED
    BY <2>1, <2>2, <2>3 DEF ReadersOK
<1>6. RingOK'
  <2>1. \A k \in Nat : InRing(k)' <=> InRing(k)
    BY <1>2 DEF InRing, Writing
  <2> QED
    BY <1>2, <2>1 DEF RingOK, Readers
<1>7. SocketsOK'
  BY SocketsSame DEF SocketSent
<1> QED
  BY <1>1, <1>3, <1>5, <1>6, <1>7

LEMMA ReadWrittenFlagInv ==
  ASSUME IInv, NEW q \in Readers, ReadWrittenFlag(q)
  PROVE  IInv'
<1> USE DEF IInv, ReadWrittenFlag, writerVars
<1>1. Types'
  BY DEF Types
<1>2. /\ Published' = Published /\ Published \in Nat /\ Writing' = Writing
      /\ \A r \in Readers : Taken(r)' = Taken(r) /\ Taken(r) \in Nat
      /\ \A k \in Nat : Encoded(k)' = Encoded(k)
  BY DEF Types, WriterOK, Published, Writing, Taken, Encoded
<1>3. WriterOK'
  BY <1>2 DEF Types, WriterOK, Writing
<1>4. q \in Local
  BY DEF ReadersOK, Readers
<1>a. ReaderOK(q) /\ Taken(q) \in Nat
  BY <1>2, <1>4 DEF ReadersOK
<1>b. written[ridx[q]] => Taken(q) < Published
  <2> SUFFICES ASSUME written[ridx[q]], Taken(q) = Published
               PROVE  FALSE
    BY <1>2, <1>a DEF ReaderOK
  <2>1. ridx[q] = widx /\ ~Writing /\ ~readFlag[widx][q]
    BY <1>a DEF ReaderOK, WriterOK
  <2>2. CASE Published < MaxChunks
    <3>1. Published \in Chunks
      BY <1>2, <2>2 DEF Chunks
    <3>2. widx = Published
      BY <3>1, SlotSmall DEF WriterOK
    <3> QED
      BY <1>2, <2>1, <3>1, <3>2 DEF RingOK
  <2>3. CASE Published >= MaxChunks
    <3>1. PICK k \in Nat : Published = k + MaxChunks
      BY <1>2, <2>3
    <3>2. InRing(k) /\ Slot(k) = widx /\ k < Taken(q)
      BY <1>2, <2>1, <3>1, SlotWrap DEF InRing, WriterOK
    <3> QED
      BY <1>4, <2>1, <3>2 DEF RingOK
  <2> QED
    BY <1>2, <2>2, <2>3
<1>5. ReadersOK'
  <2>1. ASSUME NEW r \in Local, r # q PROVE ReaderOK(r)'
    <3>1. /\ r \in Readers /\ rpc'[r] = rpc[r] /\ ridx'[r] = ridx[r]
          /\ buf'[r] = buf[r]
      BY <2>1 DEF Types, Readers
    <3> QED
      BY <1>2, <3>1 DEF ReadersOK, ReaderOK, Writing
  <2>2. ReaderOK(q)'
    BY <1>2, <1>4, <1>a, <1>b DEF ReaderOK, Writing, Types
  <2>3. \A r \in Remote : rpc'[r] = "idle"
    BY <1>4 DEF ReadersOK, Types, Readers
  <2> QED
    BY <2>1, <2>2, <2>3 DEF ReadersOK
<1>6. RingOK'
  <2>1. \A k \in Nat : InRing(k)' <=> InRing(k)
    BY <1>2 DEF InRing, Writing
  <2> QED
    BY <1>2, <2>1 DEF RingOK, Readers
<1>7. SocketsOK'
  BY SocketsSame DEF SocketSent
<1> QED
  BY <1>1, <1>3, <1>5, <1>6, <1>7

LEMMA CopyChunkInv ==
  ASSUME IInv, NEW q \in Readers, CopyChunk(q)
  PROVE  IInv'
<1> USE DEF IInv, CopyChunk, writerVars
<1>1. Types'
  BY DEF Types
<1>2. /\ Published' = Published /\ Published \in Nat /\ Writing' = Writing
      /\ \A r \in Readers : Taken(r)' = Taken(r) /\ Taken(r) \in Nat
      /\ \A k \in Nat : Encoded(k)' = Encoded(k)
  BY DEF Types, WriterOK, Published, Writing, Taken, Encoded
<1>3. WriterOK'
  BY <1>2 DEF Types, WriterOK, Writing
<1>4. q \in Local
  BY DEF ReadersOK, Readers
<1>a. ReaderOK(q) /\ Taken(q) \in Nat
  BY <1>2, <1>4 DEF ReadersOK
<1>b. data[ridx[q]] = Encoded(Taken(q) + 1)
  <2>1. InRing(Taken(q))
    BY <1>2, <1>a DEF ReaderOK, InRing
  <2> QED
    BY <1>a, <2>1 DEF RingOK, ReaderOK
<1>5. ReadersOK'
  <2>1. ASSUME NEW r \in Local, r # q PROVE ReaderOK(r)'
    <3>1. /\ r \in Readers /\ rpc'[r] = rpc[r] /\ ridx'[r] = ridx[r]
          /\ buf'[r] = buf[r]
      BY <2>1 DEF Types, Readers
    <3> QED
      BY <1>2, <3>1 DEF ReadersOK, ReaderOK, Writing
  <2>2. ReaderOK(q)'
    BY <1>2, <1>4, <1>a, <1>b DEF ReaderOK, Writing, Types
  <2>3. \A r \in Remote : rpc'[r] = "idle"
    BY <1>4 DEF ReadersOK, Types, Readers
  <2> QED
    BY <2>1, <2>2, <2>3 DEF ReadersOK
<1>6. RingOK'
  <2>1. \A k \in Nat : InRing(k)' <=> InRing(k)
    BY <1>2 DEF InRing, Writing
  <2> QED
    BY <1>2, <2>1 DEF RingOK, Readers
<1>7. SocketsOK'
  BY SocketsSame DEF SocketSent
<1> QED
  BY <1>1, <1>3, <1>5, <1>6, <1>7

LEMMA MarkReadInv ==
  ASSUME IInv, NEW q \in Readers, MarkRead(q)
  PROVE  IInv'
<1> USE DEF IInv, MarkRead, writerVars
<1> DEFINE t == Taken(q)
<1>1. q \in Local
  BY DEF ReadersOK, Readers
<1>2. /\ ReaderOK(q) /\ t \in Nat /\ t < Published /\ t = Len(got[q])
      /\ buf[q] = Encoded(t + 1) /\ ridx[q] = Slot(t) /\ ridx[q] \in Chunks
  BY <1>1 DEF ReadersOK, ReaderOK, Taken, Types
<1>3. /\ Published' = Published /\ Published \in Nat /\ (Writing' <=> Writing)
      /\ \A k \in Nat : Encoded(k)' = Encoded(k)
  BY DEF Types, WriterOK, Published, Writing, Encoded
<1>4. InRing(t)
  BY <1>2, <1>3 DEF ReaderOK, InRing
<1>5. ridx'[q] = Slot(t + 1) /\ Slot(t + 1) \in Chunks
  BY <1>2, SlotNext, SlotType DEF Types
<1>6. Types'
  <2>1. ridx' \in [Readers -> Chunks]
    BY <1>5 DEF Types
  <2>2. readFlag' \in [Chunks -> [Local -> BOOLEAN]]
    BY <1>1, <1>2 DEF Types
  <2>3. got' \in [Readers -> Seq(Nat)]
    <3>1. got' = got \/ got' = [got EXCEPT ![q] = Append(got[q], buf[q])]
      OBVIOUS
    <3>2. Append(got[q], buf[q]) \in Seq(Nat) /\ got \in [Readers -> Seq(Nat)]
      BY DEF Types
    <3> HIDE DEF MarkRead
    <3> QED
      BY ZenonT(30), <3>1, <3>2
  <2>4. rpc' \in [Readers -> {"idle", "check", "read", "mark", "recv"}]
    <3>1. PICK x \in {"recv", "idle"} : rpc' = [rpc EXCEPT ![q] = x]
      OBVIOUS
    <3> QED
      BY <3>1 DEF Types
  <2> QED
    BY <2>1, <2>2, <2>3, <2>4 DEF Types
<1>7. /\ Taken(q)' = t + 1 /\ rpc'[q] \in {"idle", "recv"}
      /\ rpc'[q] = "recv" => t + 1 \in big
  <2>1. CASE buf[q] = Overflow
    BY <1>2, <2>1 DEF Taken, Types, Encoded
  <2>2. CASE buf[q] # Overflow
    BY <1>2, <2>2 DEF Taken, Types
  <2> QED
    BY <2>1, <2>2
<1>8. \A r \in Readers : r # q =>
          /\ rpc'[r] = rpc[r] /\ ridx'[r] = ridx[r] /\ got'[r] = got[r]
          /\ Taken(r)' = Taken(r)
  BY SMTT(30) DEF Taken, Types
<1>9. \A c \in Chunks, r \in Local :
          readFlag'[c][r] <=> readFlag[c][r] \/ (c = ridx[q] /\ r = q)
  BY <1>1, <1>2 DEF Types
<1>10. WriterOK'
  <2>1. Writing => ridx[q] # widx
    BY <1>2, <1>4, RingStable
  <2> QED
    BY <1>1, <1>3, <1>9, <2>1 DEF WriterOK, Writing, Types
<1>11. ReadersOK'
  <2>1. ASSUME NEW r \in Local, r # q PROVE ReaderOK(r)'
    <3>1. /\ ReaderOK(r) /\ r \in Readers /\ ridx[r] \in Chunks
          /\ Taken(r) \in Nat
      BY DEF ReadersOK, Readers, Types, Taken
    <3> QED
      BY <1>3, <1>8, <1>9, <2>1, <3>1 DEF ReaderOK
  <2>2. ReaderOK(q)'
    BY SMTT(30), <1>2, <1>3, <1>5, <1>7 DEF ReaderOK
  <2>3. \A r \in Remote : rpc'[r] = "idle"
    BY <1>1, <1>8 DEF ReadersOK, Readers
  <2> QED
    BY <2>1, <2>2, <2>3 DEF ReadersOK
<1>12. RingOK'
  <2>1. \A k \in Nat : InRing(k)' <=> InRing(k)
    BY <1>3 DEF InRing
  <2>2. ASSUME NEW k \in Nat, InRing(k), Slot(k) = Slot(t) PROVE k = t
    <3>1. Published <= k + MaxChunks /\ Published <= t + MaxChunks
      BY <1>2, <1>3, <1>4, <2>2 DEF InRing
    <3>2. k < Published
      BY <2>2 DEF InRing
    <3>3. ~(k < t)
      BY <1>2, <1>3, <2>2, <3>1, SlotInjective
    <3>4. ~(t < k)
      BY <1>2, <1>3, <2>2, <3>1, <3>2, SlotInjective
    <3> QED
      BY <1>2, <3>3, <3>4
  <2>3. ASSUME NEW k \in Nat, InRing(k), NEW r \in Local
        PROVE  readFlag'[Slot(k)][r] <=> k < Taken(r)'
    <3>0. readFlag[Slot(k)][r] <=> k < Taken(r)
      BY <2>3 DEF RingOK
    <3>1. CASE r # q
      BY <1>8, <1>9, <3>0, <3>1, SlotType DEF Readers
    <3>2. CASE r = q
      BY <1>1, <1>2, <1>7, <1>9, <2>2, <2>3, <3>0, <3>2, SlotType
    <3> QED
      BY <3>1, <3>2
  <2> QED
    BY <1>3, <2>1, <2>3 DEF RingOK
<1>13. SocketsOK'
  <2>1. CASE buf[q] = Overflow
    BY <2>1, SocketsSame DEF SocketSent
  <2>2. CASE buf[q] # Overflow
    <3>1. ASSUME NEW r \in Local, r # q PROVE SocketOK(r)'
      <4>1. SocketOK(r) /\ SocketSent' = SocketSent /\ got'[r] = got[r]
        BY <1>8, <3>1 DEF SocketsOK, SocketSent, Readers
      <4>2. Pending(r)' = Pending(r)
        BY <4>1 DEF Pending
      <4> QED
        BY <4>1, <4>2 DEF SocketOK
    <3>2. /\ Len(got'[q]) = t + 1 /\ SocketSent' = SocketSent
          /\ t + 1 \notin big /\ SocketOK(q) /\ sock[q] \in Seq(Nat)
      BY <1>1, <1>2, <2>2 DEF Types, SocketSent, SocketsOK, Encoded
    <3>3. Pending(q)' = Pending(q) /\ Pending(q) \in SUBSET Nat /\ t + 1 \notin Pending(q)
      BY SMTT(30), <1>1, <1>2, <3>2 DEF Pending
    <3>4. QueueOK(sock[q], t + 1, Pending(q))
      <4>1. QueueOK(sock[q], t, Pending(q))
        BY <1>2, <3>2, Zenon DEF SocketOK
      <4> QED
        BY <1>2, <3>2, <3>3, <4>1, QueueSkip, Zenon
    <3>5. t + 1 <= SocketSent
      BY <1>1, <1>2, <1>3, <3>2 DEF SocketSent, Published, Writing, Types, WriterOK
    <3>6. SocketOK(q)'
      BY <3>2, <3>3, <3>4, <3>5 DEF SocketOK
    <3> QED
      BY <3>1, <3>6 DEF SocketsOK
  <2> QED
    BY <2>1, <2>2
<1> QED
  BY <1>6, <1>10, <1>11, <1>12, <1>13

\* After an overflow marker MessageQueue.recv gets the object it stands for.
LEMMA RecvNext ==
  ASSUME IInv, NEW q \in Local, Recv(q)
  PROVE  /\ Len(got[q]) \in Nat /\ Len(got[q]) + 1 \in Pending(q)
         /\ Len(got[q]) < sent
         /\ Head(sock[q]) = Len(got[q]) + 1 /\ Tail(sock[q]) \in Seq(Nat)
         /\ QueueOK(Tail(sock[q]), Len(got[q]) + 1, Pending(q) \ {Len(got[q]) + 1})
<1> USE DEF IInv, Recv, writerVars
<1> DEFINE n == Len(got[q])
<1>1. /\ n \in Nat /\ sock[q] \in Seq(Nat) /\ sock[q] # <<>> /\ SocketOK(q)
      /\ sock[q][1] \in Nat /\ Pending(q) \in SUBSET Nat
  BY DEF Types, SocketsOK, Pending, Readers
<1>2. n + 1 \in Pending(q) /\ n < sent
  <2>1. sock[q][1] \in Pending(q)
    BY <1>1 DEF SocketOK, QueueOK
  <2>2. n + 1 <= SocketSent /\ SocketSent <= sent
    BY SMTT(30), <1>1, <2>1 DEF Pending, SocketSent, Types
  <2>3. n + 1 \in big
    BY DEF ReadersOK, ReaderOK, Taken
  <2> QED
    BY SMTT(30), <1>1, <2>2, <2>3 DEF Pending, Types, SocketSent
<1>3. QueueOK(sock[q], n, Pending(q))
  BY <1>1 DEF SocketOK
<1> QED
  BY <1>1, <1>2, <1>3, QueuePop, Zenon

LEMMA RecvInv ==
  ASSUME IInv, NEW q \in Readers, Recv(q)
  PROVE  IInv'
<1> USE DEF IInv, Recv, writerVars
<1> DEFINE n == Len(got[q])
<1>1. n \in Nat /\ sock[q] \in Seq(Nat) /\ sock[q] # <<>>
  BY DEF Types
<1>2. Head(sock[q]) \in Nat /\ Tail(sock[q]) \in Seq(Nat)
  BY <1>1
<1>4. Types'
  BY SMTT(30), <1>1, <1>2 DEF Types
<1>5. /\ Len(got'[q]) = n + 1 /\ sock'[q] = Tail(sock[q]) /\ rpc'[q] = "idle"
  BY <1>1, <1>2 DEF Types
<1>6. \A r \in Readers : r # q =>
          rpc'[r] = rpc[r] /\ sock'[r] = sock[r] /\ got'[r] = got[r]
  BY DEF Types
<1>7. /\ Published' = Published /\ Published \in Nat /\ (Writing' <=> Writing)
      /\ \A r \in Local : Taken(r)' = Taken(r) /\ Taken(r) \in Nat
      /\ \A k \in Nat : Encoded(k)' = Encoded(k)
      /\ SocketSent' = SocketSent
  <2>1. \A r \in Local : Taken(r)' = Taken(r) /\ Taken(r) \in Nat
    BY SMTT(30), <1>1, <1>5, <1>6 DEF Taken, Readers, Types
  <2> QED
    BY <2>1 DEF Types, WriterOK, Published, Writing, Encoded, SocketSent
<1>8. WriterOK'
  BY <1>7 DEF WriterOK, Writing, Types
<1>9. ReadersOK'
  <2>1. ASSUME NEW r \in Local PROVE ReaderOK(r)'
    BY <1>5, <1>6, <1>7 DEF ReadersOK, ReaderOK, Readers
  <2>2. \A r \in Remote : rpc'[r] = "idle"
    BY <1>5, <1>6 DEF ReadersOK, Readers
  <2> QED
    BY SMTT(30), <2>1, <2>2 DEF ReadersOK
<1>10. RingOK'
  <2>1. \A k \in Nat : InRing(k)' <=> InRing(k)
    BY <1>7 DEF InRing
  <2> QED
    BY <1>7, <2>1 DEF RingOK
<1>11. SocketsOK'
  <2>1. ASSUME NEW r \in Local, r # q PROVE SocketOK(r)'
    <3>1. /\ SocketOK(r) /\ sock'[r] = sock[r] /\ got'[r] = got[r]
          /\ SocketSent' = SocketSent
      BY <1>6, <1>7, <2>1 DEF SocketsOK, Readers
    <3>2. big' = big
      OBVIOUS
    <3> HIDE DEF Recv
    <3>3. Pending(r)' = Pending(r)
      BY <3>1, <3>2 DEF Pending
    <3> QED
      BY <3>1, <3>3 DEF SocketOK
  <2>2. ASSUME q \in Local PROVE SocketOK(q)'
    <3>1. n + 1 \in Pending(q)
      BY ZenonT(30), <2>2, RecvNext
    <3>2. QueueOK(Tail(sock[q]), n + 1, Pending(q) \ {n + 1})
      BY <2>2, RecvNext, Zenon
    <3>3. Pending(q)' = Pending(q) \ {n + 1}
      BY <1>1, <1>5, <1>7 DEF Pending
    <3>4. QueueOK(sock'[q], Len(got'[q]), Pending(q)')
      BY <1>5, <3>2, <3>3, Zenon
    <3>5. Len(got'[q]) <= SocketSent'
      BY <1>5, <1>7, <3>1 DEF Pending
    <3> QED
      BY <3>4, <3>5 DEF SocketOK
  <2> QED
    BY <2>1, <2>2 DEF SocketsOK
<1> QED
  BY <1>4, <1>8, <1>9, <1>10, <1>11

LEMMA NextInv == IInv /\ [Next]_vars => IInv'
<1> SUFFICES ASSUME IInv, [Next]_vars PROVE IInv'
  OBVIOUS
<1>1. CASE Enqueue
  BY <1>1, EnqueueInv
<1>2. CASE Write
  BY <1>2, RescanInv, TakeChunkInv, BeginWriteInv, EndWriteInv, PublishInv,
     SendLocalInv, SendRemoteInv, ScanFlagInv, ResetFlagInv DEF Write
<1>3. CASE \E r \in Readers : Dequeue(r)
  BY <1>3, ReadOwnFlagInv, ReadWrittenFlagInv, CopyChunkInv, MarkReadInv, RecvInv
     DEF Dequeue
<1>4. CASE UNCHANGED vars
  <2>1. Types' /\ WriterOK'
    BY ZenonT(30), <1>4
      DEF vars, writerVars, readerVars, IInv, Types, WriterOK, Published,
       Writing, Encoded
  <2>2. ReadersOK'
    BY <1>4 DEF vars, writerVars, readerVars, IInv, ReadersOK, ReaderOK, Published,
       Writing, Taken, Encoded
  <2>3. RingOK'
    BY <1>4 DEF vars, writerVars, readerVars, IInv, RingOK, InRing, Published,
       Writing, Taken, Encoded
  <2>4. SocketsOK'
    BY <1>4, Zenon DEF vars, writerVars, readerVars, IInv, SocketsOK, SocketOK,
       Pending, SocketSent
  <2> QED
    BY <2>1, <2>2, <2>3, <2>4 DEF IInv
<1> QED
  BY <1>1, <1>2, <1>3, <1>4 DEF Next

LEMMA RingInvariant == SafeSpec => []IInv
  BY InitInv, NextInv, PTL DEF SafeSpec

(***************************************************************************)
(* The theorems.                                                           *)
(***************************************************************************)

\* No send_multipart of a large object to the local readers meets a full
\* publish socket: the markers of the objects that wait in it are in the ring,
\* except one that was just read.
THEOREM SocketBounded == SafeSpec => []SocketNeverFull
<1>1. IInv => SocketNeverFull
  <2> SUFFICES ASSUME IInv, wpc = "send", NEW r \in Local
               PROVE  Len(sock[r]) < SendHWM
    BY ZenonT(30) DEF SocketNeverFull
  <2>1. /\ r \in Readers /\ sock[r] \in Seq(Nat) /\ Len(got[r]) \in Nat
        /\ Pending(r) \in SUBSET Nat
    BY DEF IInv, Types, Readers, Pending
  <2>2. PICK m \in Nat : m = SocketSent /\ sent = m + 1
    BY DEF IInv, Types, WriterOK, SocketSent
  <2>3. QueueOK(sock[r], Len(got[r]), Pending(r)) /\ Len(got[r]) <= m
    BY <2>1, <2>2 DEF IInv, SocketsOK, SocketOK
  <2>4. \A k \in Pending(r) : k <= m
    BY <2>2 DEF Pending
  <2>5. Len(sock[r]) <= m - Len(got[r])
    BY ZenonT(30), <2>1, <2>3, <2>4, QueueLen
  <2>6. Published = m + 1 /\ Published <= Taken(r) + MaxChunks
    BY <2>2 DEF IInv, Types, WriterOK, Published, Writing, ReadersOK, ReaderOK
  <2>7. Taken(r) <= Len(got[r]) + 1 /\ Taken(r) \in Nat
    BY <2>1 DEF Taken, IInv, Types
  <2>8. PICK l, g, t \in Nat : l = Len(sock[r]) /\ g = Len(got[r]) /\ t = Taken(r)
    BY <2>1, <2>7
  <2>9. l <= m - g /\ m + 1 <= t + MaxChunks /\ t <= g + 1
    BY <2>5, <2>6, <2>7, <2>8, Zenon
  <2>10. l < SendHWM
    BY <2>9, RingAssumption
  <2> QED
    BY <2>8, <2>10, Zenon
<1> QED
  BY <1>1, RingInvariant, PTL

\* The chunk a reader of acquire_read has been given is not written before the
\* reader sets its flag.
THEOREM ChunkKept == SafeSpec => ReaderKeepsChunk
<1>1. ASSUME IInv, [Next]_vars, NEW r \in Local, rpc[r] \in {"read", "mark"}
      PROVE  data'[ridx[r]] = data[ridx[r]] /\ written'[ridx[r]]
  <2>0. ReaderOK(r) /\ r \in Readers /\ MaxChunks \in Nat \ {0}
    BY <1>1, RingAssumption DEF IInv, ReadersOK, Readers
  <2>1. /\ r \in Readers /\ Taken(r) \in Nat /\ Published \in Nat
        /\ ridx[r] = Slot(Taken(r)) /\ InRing(Taken(r))
    <3>1. Taken(r) \in Nat /\ Published \in Nat
      BY <1>1, <2>0 DEF IInv, Types, WriterOK, Taken, Published, Writing
    <3> QED
      BY <1>1, <2>0, <3>1 DEF ReaderOK, InRing
  <2>2. written[ridx[r]] /\ ridx[r] \in Chunks
    BY <1>1, <2>1, SlotType DEF IInv, RingOK
  <2>3. Writing => ridx[r] # widx
    BY <1>1, <2>1, RingStable DEF IInv
  <2>4. CASE TakeChunk
    <3>1. Published < Taken(r) + MaxChunks
      BY ZenonT(30), <1>1, <2>1, <2>4, TakeChunkInv
         DEF TakeChunk, IInv, ReadersOK, ReaderOK, Taken, Published, Writing,
             readerVars, Types, WriterOK
    <3>2. ridx[r] # widx
      BY <1>1, <2>1, <3>1, SlotInjective
        DEF IInv, ReadersOK, ReaderOK, WriterOK
    <3> QED
      BY <1>1, <2>2, <2>4, <3>2 DEF TakeChunk, IInv, Types
  <2>5. CASE BeginWrite \/ EndWrite \/ Publish
    <3>1. ridx[r] # widx
      BY <2>3, <2>5 DEF BeginWrite, EndWrite, Publish, Writing
    <3> QED
      BY <1>1, <2>2, <2>5, <3>1 DEF BeginWrite, EndWrite, Publish, IInv, Types
  <2>6. CASE UNCHANGED <<data, written>>
    BY <2>2, <2>6
  <2> QED
    BY ZenonT(30), <1>1, <2>4, <2>5, <2>6
      DEF Next, Write, Enqueue, Rescan, SendLocal,
       SendRemote, ScanFlag, ResetFlag, Dequeue, ReadOwnFlag, ReadWrittenFlag,
       CopyChunk, MarkRead, Recv, vars
<1>2. IInv /\ [Next]_vars =>
        [\A r \in Local : rpc[r] \in {"read", "mark"} =>
            data'[ridx[r]] = data[ridx[r]] /\ written'[ridx[r]]]_vars
  BY <1>1
<1> QED
  BY <1>2, RingInvariant, PTL DEF SafeSpec, ReaderKeepsChunk

\* Removing the last element of a queue, and its first.
LEMMA QueueEnds ==
  ASSUME NEW q \in Seq(Nat), NEW x \in Nat
  PROVE  /\ SubSeq(Append(q, x), 1, Len(Append(q, x)) - 1) = q
         /\ Len(Append(q, x)) = Len(q) + 1 /\ Append(q, x) # <<>>
         /\ q # <<>> => /\ Head(Append(q, x)) = Head(q)
                        /\ Tail(Append(q, x)) = Append(Tail(q), x)
<1>1. /\ Append(q, x) \in Seq(Nat) /\ Append(q, x) # <<>>
      /\ Len(Append(q, x)) = Len(q) + 1
  OBVIOUS
<1>2. Len(Append(q, x)) - 1 = Len(q) /\ Len(q) \in Nat
  BY <1>1
<1>3. SubSeq(Append(q, x), 1, Len(q)) = q
  <2> DEFINE s == SubSeq(Append(q, x), 1, Len(q))
  <2>1. /\ s \in Seq(Nat) /\ Len(s) = Len(q)
        /\ \A i \in 1..Len(q) : s[i] = Append(q, x)[i]
    BY <1>1, <1>2, SubSeqProperties
  <2>2. \A i \in 1..Len(q) : s[i] = q[i]
    BY <2>1
  <2> HIDE DEF s
  <2>3. s = q
    BY <2>1, <2>2
  <2> QED
    BY <2>3 DEF s
<1>4. q # <<>> => Head(Append(q, x)) = Head(q)
  OBVIOUS
<1>5. q # <<>> => Tail(Append(q, x)) = Append(Tail(q), x)
  OBVIOUS
<1> QED
  BY <1>1, <1>2, <1>3, <1>4, <1>5

\* Every step of the ring is a step of the broadcast, or changes nothing a
\* caller of enqueue and dequeue can see: objects arrive once, in order and
\* whole, at every local reader, the writer is at most MaxChunks + 2 ahead of
\* it, and a remote reader misses only objects sent while SendHWM others were
\* waiting for it.
THEOREM ImplementsBroadcast == SafeSpec => B!SafeSpec
<1> DEFINE due == [r \in Remote |-> Due(r)]
<1>1. Init => B!Init
  <2> SUFFICES ASSUME Init PROVE B!Init
    OBVIOUS
  <2>1. due = [r \in Remote |-> <<>>]
    BY DEF Init, Due, Readers
  <2> QED
    BY <2>1 DEF Init, B!Init, Readers, B!Readers
<1>2. IInv /\ [Next]_vars => [B!Next]_B!vars
  <2> SUFFICES ASSUME IInv, [Next]_vars
               PROVE  B!Next \/ UNCHANGED <<sent, got, due>>
    BY DEF B!vars
  <2>0. \A r \in Remote : sock[r] \in Seq(Nat) /\ sent \in Nat
    BY DEF IInv, Types, Readers
  <2>1. CASE Enqueue
    <3>1. ASSUME NEW r \in Local PROVE sent < Len(got[r]) + (MaxChunks + 2)
      <4>1. ReaderOK(r) /\ MaxChunks \in Nat /\ Len(got[r]) \in Nat /\ sent \in Nat
        BY RingAssumption DEF IInv, ReadersOK, Types, Readers
      <4>2. Published = sent
        BY <2>1 DEF Published, Writing, Enqueue
      <4>3. Published <= Taken(r) + MaxChunks /\ Taken(r) \in {Len(got[r]), Len(got[r]) + 1}
        BY <4>1 DEF ReaderOK, Taken
      <4>4. \A g, s, m \in Nat : \A t \in {g, g + 1} :
               s <= t + m => s < g + (m + 2)
        OBVIOUS
      <4> QED
        BY <4>1, <4>2, <4>3, <4>4, Zenon
    <3>2. wpc = "idle" /\ wpc' # "idle" /\ sent' = sent + 1 /\ UNCHANGED <<sock, got>>
      BY <2>1 DEF Enqueue, StartScan
    <3>3. due' = [r \in Remote |-> Append(due[r], sent + 1)]
      BY <3>2 DEF Due
    <3>4. B!Enqueue
      BY <3>1, <3>2, <3>3, Zenon DEF B!Enqueue
    <3> QED
      BY <3>4 DEF B!Next
  <2>2. ASSUME NEW r \in Readers, MarkRead(r)
        PROVE  B!Next \/ UNCHANGED <<sent, got, due>>
    <3>0. due' = due
      BY <2>2 DEF MarkRead, Due, writerVars
    <3>1. /\ r \in Local /\ Taken(r) = Len(got[r]) /\ Len(got[r]) \in Nat
          /\ buf[r] = Encoded(Len(got[r]) + 1) /\ Len(got[r]) < sent
      <4>1. /\ r \in Local /\ rpc[r] = "mark" /\ Taken(r) = Len(got[r])
            /\ Len(got[r]) \in Nat /\ sent \in Nat
        BY <2>2 DEF MarkRead, IInv, ReadersOK, Readers, Taken, Types
      <4>2. ReaderOK(r) /\ Published <= sent /\ Published \in Nat
        BY <4>1 DEF IInv, ReadersOK, Published, Writing, WriterOK
      <4> QED
        BY <4>1, <4>2 DEF ReaderOK
    <3>2. CASE buf[r] = Overflow
      BY <2>2, <3>0, <3>2 DEF MarkRead
    <3>3. CASE buf[r] # Overflow
      <4>1. buf[r] = Len(got[r]) + 1
        BY <3>1, <3>3 DEF Encoded
      <4>2. sent' = sent /\ got' = [got EXCEPT ![r] = Append(@, Len(@) + 1)]
        BY <2>2, <3>3, <4>1 DEF MarkRead, IInv, Types
      <4>3. B!DeliverLocal(r)
        BY <3>0, <3>1, <4>2 DEF B!DeliverLocal
      <4> QED
        BY <3>1, <4>3 DEF B!Next
    <3> QED
      BY <3>2, <3>3
  <2>3. ASSUME NEW r \in Local, Recv(r)
        PROVE  B!Next
    <3>1. Head(sock[r]) = Len(got[r]) + 1 /\ Len(got[r]) < sent
      BY ZenonT(30), <2>3, RecvNext
    <3>2. sent' = sent /\ got' = [got EXCEPT ![r] = Append(@, Len(@) + 1)]
      BY <2>3, <3>1 DEF Recv, IInv, Types, Readers
    <3>3. \A p \in Remote : sock'[p] = sock[p]
      BY <2>3 DEF Recv, IInv, Types, Readers
    <3>4. due' = due
      BY <2>3, <3>3 DEF Recv, Due, writerVars
    <3>5. B!DeliverLocal(r)
      BY <3>1, <3>2, <3>4 DEF B!DeliverLocal
    <3> QED
      BY <3>5 DEF B!Next
  <2>4. ASSUME NEW r \in Remote, Recv(r)
        PROVE  B!Next
    <3>1. /\ sock[r] # <<>> /\ UNCHANGED <<wpc, sent>>
          /\ got' = [got EXCEPT ![r] = Append(@, Head(sock[r]))]
          /\ sock' = [sock EXCEPT ![r] = Tail(@)]
      BY <2>4 DEF Recv, writerVars
    <3>2. /\ Due(r) # <<>> /\ Head(Due(r)) = Head(sock[r])
          /\ Due(r)' = Tail(Due(r))
      <4>1. sock'[r] = Tail(sock[r])
        BY <3>1 DEF IInv, Types, Readers
      <4> QED
        BY <2>0, <3>1, <4>1, QueueEnds DEF Due
    <3>3. \A p \in Remote : p # r => Due(p)' = Due(p)
      BY <3>1 DEF Due, IInv, Types, Readers
    <3>4. due[r] = Due(r) /\ due' = [due EXCEPT ![r] = Tail(@)]
      BY <3>2, <3>3
    <3>5. B!DeliverRemote(r)
      BY <3>1, <3>2, <3>4, Zenon DEF B!DeliverRemote
    <3> QED
      BY <3>5 DEF B!Next
  <2>5. CASE SendRemote
    <3> DEFINE S == {r \in Remote : ~(Len(sock[r]) < SendHWM)}
    <3>1. wpc = "remote" /\ wpc' = "idle" /\ UNCHANGED <<sent, got>>
      BY <2>5 DEF SendRemote
    <3>2. \A r \in Remote : Due(r) = Append(sock[r], sent) /\ Due(r)' = Push(sock[r])
      BY <2>5, <3>1 DEF SendRemote, Due, Readers
    <3>3. \A r \in S : Len(Due(r)) > SendHWM
      BY <2>0, <3>2, QueueEnds
    <3>4. \A r \in S : Due(r)' = SubSeq(Due(r), 1, Len(Due(r)) - 1)
      <4> TAKE r \in S
      <4>1. Due(r)' = sock[r] /\ Due(r) = Append(sock[r], sent)
        BY <3>2 DEF Push
      <4>2. SubSeq(Append(sock[r], sent), 1, Len(Append(sock[r], sent)) - 1) = sock[r]
        BY <2>0, QueueEnds
      <4> QED
        BY <4>1, <4>2, Zenon
    <3>5. \A r \in Remote : r \notin S => Due(r)' = Due(r)
      BY <3>2 DEF Push
    <3>6. \A r \in S : Len(due[r]) > SendHWM
      BY <3>3
    <3>7. due' = [r \in Remote |-> IF r \in S
                     THEN SubSeq(due[r], 1, Len(due[r]) - 1) ELSE due[r]]
      BY <3>4, <3>5
    <3> HIDE DEF S, due
    <3>8. B!Lose(S)
      BY <3>1, <3>6, <3>7, Zenon DEF B!Lose, due
    <3> QED
      BY <3>8 DEF B!Next, S
  <2>7. CASE SendLocal
    <3>1. \A r \in Remote : sock'[r] = sock[r]
      BY <2>7 DEF SendLocal, Readers
    <3>2. due' = due
      BY <2>7, <3>1 DEF SendLocal, Due
    <3> QED
      BY <2>7, <3>2 DEF SendLocal
  <2>8. ASSUME UNCHANGED <<sent, got, sock>>, wpc # "idle", wpc' # "idle"
        PROVE  UNCHANGED <<sent, got, due>>
    BY <2>8 DEF Due
  <2>9. ASSUME UNCHANGED <<sent, got, sock, wpc>>
        PROVE  UNCHANGED <<sent, got, due>>
    BY <2>9 DEF Due
  <2>10. CASE Write
    <3>1. CASE \E r \in Local : ScanFlag(r) \/ ResetFlag(r)
      BY <2>9, <3>1 DEF ScanFlag, ResetFlag
    <3>2. CASE Rescan \/ TakeChunk \/ BeginWrite \/ EndWrite \/ Publish
      BY <2>8, <3>2 DEF Rescan, StartScan, TakeChunk, BeginWrite, EndWrite,
         Publish, AfterPublish
    <3> QED
      BY <2>5, <2>7, <2>10, <3>1, <3>2 DEF Write
  <2>11. ASSUME NEW r \in Readers, Dequeue(r)
         PROVE  B!Next \/ UNCHANGED <<sent, got, due>>
    <3>1. CASE ReadOwnFlag(r) \/ ReadWrittenFlag(r) \/ CopyChunk(r)
      BY <2>9, <3>1 DEF ReadOwnFlag, ReadWrittenFlag, CopyChunk, writerVars
    <3> QED
      BY <2>2, <2>3, <2>4, <2>11, <3>1 DEF Dequeue, Readers
  <2>12. CASE UNCHANGED vars
    BY <2>9, <2>12 DEF vars, writerVars
  <2> QED
    BY <2>1, <2>10, <2>11, <2>12 DEF Next
<1> QED
  BY <1>1, <1>2, RingInvariant, PTL DEF SafeSpec, B!SafeSpec
=============================================================================
