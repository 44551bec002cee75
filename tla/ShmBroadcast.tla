---------------------------- MODULE ShmBroadcast ----------------------------
(* MessageQueue over ShmRingBuffer: one writer and several local readers    *)
(* share a ring of chunks, each with a written flag and one flag per reader.*)
(* Every access to a flag is a step of its own; memory_fence makes them     *)
(* visible in program order.  An object that does not fit into a chunk goes *)
(* through a publish socket while a marker takes its place in the ring;     *)
(* remote readers get everything through another socket.  The objects are   *)
(* numbered in the order of the enqueue calls.                              *)
EXTENDS Naturals, Sequences

CONSTANTS Local,       \* n_local_reader readers, by local_reader_rank
          Remote,      \* the other n_remote_reader readers
          MaxChunks,   \* max_chunks
          SendHWM,     \* messages a publish socket keeps for one subscriber
          MaxObjects   \* bound: calls of enqueue

ASSUME RingAssumption ==
    /\ MaxChunks \in Nat \ {0}
    /\ SendHWM \in Nat
    /\ SendHWM > MaxChunks
    /\ MaxObjects \in Nat
    /\ Local \cap Remote = {}

VARIABLES
    data,      \* chunk -> what its bytes hold: an object's number or
               \* Overflow, Torn while they are being written
    written,   \* chunk -> written_flag
    readFlag,  \* chunk -> flags of the readers
    wpc,       \* where the writer is in enqueue and acquire_write
    widx,      \* its current_idx
    left,      \* readers whose flag the writer's loop has not reached
    readCount, \* readers whose flag the sum has found set (read_count)
    rpc,       \* where each reader is in dequeue and acquire_read
    ridx,      \* its current_idx
    buf,       \* what it has read from the chunk
    sock,      \* what the publish sockets keep for each reader
    big,       \* the objects that overflow a chunk
    sent,      \* number of enqueue calls
    got        \* what each reader's dequeue calls have returned

writerVars == <<wpc, widx, left, readCount>>
readerVars == <<rpc, ridx, buf>>
vars == <<data, written, readFlag, writerVars, readerVars, sock, big, sent, got>>

Readers == Local \cup Remote
Chunks == 0..MaxChunks - 1
Overflow == 0
Torn == MaxObjects + 1

Init ==
    /\ data = [c \in Chunks |-> Torn]
    /\ written = [c \in Chunks |-> FALSE]
    /\ readFlag = [c \in Chunks |-> [r \in Local |-> FALSE]]
    /\ wpc = "idle" /\ widx = 0 /\ left = {} /\ readCount = {}
    /\ rpc = [r \in Readers |-> "idle"]
    /\ ridx = [r \in Readers |-> 0]
    /\ buf = [r \in Readers |-> Torn]
    /\ sock = [r \in Readers |-> <<>>]
    /\ big = {}
    /\ sent = 0
    /\ got = [r \in Readers |-> <<>>]

NextIdx(i) == (i + 1) % MaxChunks

(***************************************************************************)
(* The writer.                                                             *)
(***************************************************************************)

\* The wait loop of acquire_write begins again: read all flags of the chunk.
StartScan == wpc' = "scan" /\ left' = Local /\ readCount' = {}

\* enqueue is called; the pickled object may or may not fit into a chunk.
Enqueue ==
    /\ wpc = "idle"
    /\ sent < MaxObjects
    /\ sent' = sent + 1
    /\ \/ big' = big \cup {sent + 1}
       \/ UNCHANGED big
    /\ IF Local # {}
         THEN StartScan
         ELSE wpc' = "remote" /\ UNCHANGED <<left, readCount>>
    /\ UNCHANGED <<data, written, readFlag, widx, readerVars, sock, got>>

\* read_count = sum(metadata_buffer[1:]), flag by flag.
ScanFlag(r) ==
    /\ wpc = "scan" /\ r \in left
    /\ left' = left \ {r}
    /\ readCount' = IF readFlag[widx][r] THEN readCount \cup {r} ELSE readCount
    /\ UNCHANGED <<data, written, readFlag, wpc, widx, readerVars, sock, big,
                   sent, got>>

\* The block is written and not read by all readers: yield and look again.
Rescan ==
    /\ wpc = "scan" /\ left = {}
    /\ written[widx] /\ readCount # Local
    /\ StartScan
    /\ UNCHANGED <<data, written, readFlag, widx, readerVars, sock, big, sent,
                   got>>

\* Mutant: the chunk is free as soon as one reader has read it.
TakeChunkReadOnce ==
    /\ wpc = "scan" /\ left = {}
    /\ ~written[widx] \/ readCount # {}
    /\ written' = [written EXCEPT ![widx] = FALSE]
    /\ wpc' = "write"
    /\ UNCHANGED <<data, readFlag, widx, left, readCount, readerVars, sock, big,
                   sent, got>>

\* The block is free: mark it as not written.
TakeChunk ==
    /\ wpc = "scan" /\ left = {}
    /\ ~written[widx] \/ readCount = Local
    /\ written' = [written EXCEPT ![widx] = FALSE]
    /\ wpc' = "write"
    /\ UNCHANGED <<data, readFlag, widx, left, readCount, readerVars, sock, big,
                   sent, got>>

\* The caller writes the bytes of the chunk: not at once.
BeginWrite ==
    /\ wpc = "write"
    /\ data' = [data EXCEPT ![widx] = Torn]
    /\ wpc' = "writing"
    /\ UNCHANGED <<written, readFlag, widx, left, readCount, readerVars, sock,
                   big, sent, got>>

\* Mutant: the block is marked as written before the read flags are reset.
EndWriteMarksWritten ==
    /\ wpc = "writing"
    /\ data' = [data EXCEPT ![widx] = IF sent \in big THEN Overflow ELSE sent]
    /\ written' = [written EXCEPT ![widx] = TRUE]
    /\ wpc' = "reset"
    /\ left' = Local
    /\ UNCHANGED <<readFlag, widx, readCount, readerVars, sock, big, sent, got>>

EndWrite ==
    /\ wpc = "writing"
    /\ data' = [data EXCEPT ![widx] = IF sent \in big THEN Overflow ELSE sent]
    /\ wpc' = "reset"
    /\ left' = Local
    /\ UNCHANGED <<written, readFlag, widx, readCount, readerVars, sock, big,
                   sent, got>>

\* First set the read flags to 0, one after the other ...
ResetFlag(r) ==
    /\ wpc = "reset" /\ r \in left
    /\ readFlag' = [readFlag EXCEPT ![widx][r] = FALSE]
    /\ left' = left \ {r}
    /\ UNCHANGED <<data, written, wpc, widx, readCount, readerVars, sock, big,
                   sent, got>>

AfterPublish == IF sent \in big THEN "send" ELSE "remote"

\* ... then mark the block as written and go to the next one.
Publish ==
    /\ wpc = "reset" /\ left = {}
    /\ written' = [written EXCEPT ![widx] = TRUE]
    /\ widx' = NextIdx(widx)
    /\ wpc' = AfterPublish
    /\ UNCHANGED <<data, readFlag, left, readCount, readerVars, sock, big, sent,
                   got>>

\* send_multipart on a publish socket never blocks: a subscriber that has
\* fallen SendHWM messages behind loses the message.
Push(q) == IF Len(q) < SendHWM THEN Append(q, sent) ELSE q

\* The object itself, after the marker is in the ring.
SendLocal ==
    /\ wpc = "send"
    /\ sock' = [r \in Readers |-> IF r \in Local THEN Push(sock[r]) ELSE sock[r]]
    /\ wpc' = "remote"
    /\ UNCHANGED <<data, written, readFlag, widx, left, readCount, readerVars,
                   big, sent, got>>

\* Remote readers, if there are any; enqueue returns.
SendRemote ==
    /\ wpc = "remote"
    /\ sock' = [r \in Readers |-> IF r \in Remote THEN Push(sock[r]) ELSE sock[r]]
    /\ wpc' = "idle"
    /\ UNCHANGED <<data, written, readFlag, widx, left, readCount, readerVars,
                   big, sent, got>>

\* The writer's steps inside enqueue.
Write ==
    \/ Rescan \/ TakeChunk \/ BeginWrite \/ EndWrite \/ Publish
    \/ SendLocal \/ SendRemote
    \/ \E r \in Local : ScanFlag(r) \/ ResetFlag(r)

(***************************************************************************)
(* A reader: dequeue with acquire_read around the copy of the chunk.       *)
(***************************************************************************)

\* read_flag is read first; a set flag sends the loop round again.
ReadOwnFlag(r) ==
    /\ r \in Local /\ rpc[r] = "idle"
    /\ ~readFlag[ridx[r]][r]
    /\ rpc' = [rpc EXCEPT ![r] = "check"]
    /\ UNCHANGED <<data, written, readFlag, writerVars, ridx, buf, sock, big,
                   sent, got>>

\* Mutant: the block is marked as read before the caller has read it.
ReadWrittenFlagMarks(r) ==
    /\ rpc[r] = "check"
    /\ rpc' = [rpc EXCEPT ![r] = IF written[ridx[r]] THEN "read" ELSE "idle"]
    /\ readFlag' = [readFlag EXCEPT ![ridx[r]][r] = written[ridx[r]]]
    /\ UNCHANGED <<data, written, writerVars, ridx, buf, sock, big, sent, got>>

\* Then written_flag.
ReadWrittenFlag(r) ==
    /\ rpc[r] = "check"
    /\ rpc' = [rpc EXCEPT ![r] = IF written[ridx[r]] THEN "read" ELSE "idle"]
    /\ UNCHANGED <<data, written, readFlag, writerVars, ridx, buf, sock, big,
                   sent, got>>

\* The caller reads the chunk and unpickles the object.
CopyChunk(r) ==
    /\ rpc[r] = "read"
    /\ buf' = [buf EXCEPT ![r] = data[ridx[r]]]
    /\ rpc' = [rpc EXCEPT ![r] = "mark"]
    /\ UNCHANGED <<data, written, readFlag, writerVars, ridx, sock, big, sent,
                   got>>

\* Mutant: a chunk with the overflow marker is left without marking it.
MarkReadUnlessOverflow(r) ==
    /\ rpc[r] = "mark"
    /\ readFlag' = [readFlag EXCEPT ![ridx[r]][r] = buf[r] # Overflow]
    /\ ridx' = [ridx EXCEPT ![r] = NextIdx(@)]
    /\ IF buf[r] = Overflow
         THEN /\ rpc' = [rpc EXCEPT ![r] = "recv"]
              /\ UNCHANGED got
         ELSE /\ rpc' = [rpc EXCEPT ![r] = "idle"]
              /\ got' = [got EXCEPT ![r] = Append(@, buf[r])]
    /\ UNCHANGED <<data, written, writerVars, buf, sock, big, sent>>

\* Set the read flag and go to the next block; dequeue returns the object,
\* or goes on to the socket when the chunk held the overflow marker.
MarkRead(r) ==
    /\ rpc[r] = "mark"
    /\ readFlag' = [readFlag EXCEPT ![ridx[r]][r] = TRUE]
    /\ ridx' = [ridx EXCEPT ![r] = NextIdx(@)]
    /\ IF buf[r] = Overflow
         THEN /\ rpc' = [rpc EXCEPT ![r] = "recv"]
              /\ UNCHANGED got
         ELSE /\ rpc' = [rpc EXCEPT ![r] = "idle"]
              /\ got' = [got EXCEPT ![r] = Append(@, buf[r])]
    /\ UNCHANGED <<data, written, writerVars, buf, sock, big, sent>>

\* MessageQueue.recv: of a local reader after a marker, of a remote reader
\* always.
Recv(r) ==
    /\ rpc[r] = IF r \in Local THEN "recv" ELSE "idle"
    /\ sock[r] # <<>>
    /\ got' = [got EXCEPT ![r] = Append(@, Head(sock[r]))]
    /\ sock' = [sock EXCEPT ![r] = Tail(@)]
    /\ rpc' = [rpc EXCEPT ![r] = "idle"]
    /\ UNCHANGED <<data, written, readFlag, writerVars, ridx, buf, big, sent>>

Dequeue(r) ==
    \/ ReadOwnFlag(r) \/ ReadWrittenFlag(r) \/ CopyChunk(r) \/ MarkRead(r)
    \/ Recv(r)

Next == Enqueue \/ Write \/ \E r \in Readers : Dequeue(r)

SafeSpec == Init /\ [][Next]_vars

\* The loops of the writer and of each reader run whenever they can; nobody
\* has to call enqueue.
Spec ==
    /\ SafeSpec
    /\ WF_vars(Write)
    /\ \A r \in Readers : WF_vars(Dequeue(r))

(***************************************************************************)
(* Properties.                                                             *)
(***************************************************************************)

\* What waits for a remote reader: the content of its socket and the object
\* whose enqueue has not returned yet.
Due(r) == IF wpc = "idle" THEN sock[r] ELSE Append(sock[r], sent)

B == INSTANCE Broadcast WITH Capacity <- MaxChunks + 2, Backlog <- SendHWM,
                             due <- [r \in Remote |-> Due(r)]

\* The flag protocol of acquire_write and acquire_read, together with the
\* socket for large objects, implements a broadcast: each dequeue of a local
\* reader returns the next object, none is lost, torn, repeated or paired
\* with the wrong overflow marker, and every object gets to every local
\* reader.  A remote reader gets the objects in order, and all except those
\* sent while SendHWM others were waiting for it.
IsBroadcast == B!Spec

\* The publish socket drops messages when a subscriber is SendHWM behind.  The
\* ring prevents that: a marker is in a chunk or is the one just read, so no
\* send_multipart of a large object ever meets a full queue.
SocketNeverFull == wpc = "send" => \A r \in Local : Len(sock[r]) < SendHWM

\* A reader between its look at the flags and marking the chunk as read
\* (acquire_read's yield) has the chunk for itself: the writer's acquire_write
\* waits for its flag and writes neither data nor flags of that chunk.
ReaderKeepsChunk ==
    [][\A r \in Local : rpc[r] \in {"read", "mark"} =>
          data'[ridx[r]] = data[ridx[r]] /\ written'[ridx[r]]]_vars

\* An enqueue that has begun returns: writer and readers never wait for each
\* other in a circle.
EnqueueReturns == wpc # "idle" ~> wpc = "idle"
=============================================================================
