------------------------------ MODULE FreeQueue ------------------------------
(***************************************************************************)
(* What BlockPool expects of its free queue: an ordered list from which it *)
(* takes the first block or a given one, and to which it appends blocks.   *)
(* BlockPool.tla uses such a list; FreeBlockQueue.tla implements it with   *)
(* the linked list of the code.                                            *)
(***************************************************************************)
EXTENDS Integers, Sequences, FiniteSets

CONSTANT Blocks

VARIABLES
    queue,      \* the free blocks, the next one to evict first
    held        \* the blocks the pool has handed out

InitQueue == Len(queue) = Cardinality(Blocks) /\ held = {}

PopFirst ==
    /\ queue # <<>>
    /\ queue' = Tail(queue)
    /\ held' = held \cup {Head(queue)}

TakeOut(b) ==
    /\ \E i \in DOMAIN queue :
          /\ queue[i] = b
          /\ queue' = SubSeq(queue, 1, i - 1) \o SubSeq(queue, i + 1, Len(queue))
    /\ held' = held \cup {b}

PutLast(b) ==
    /\ b \in held
    /\ queue' = Append(queue, b)
    /\ held' = held \ {b}

QueueNext == PopFirst \/ \E b \in Blocks : TakeOut(b) \/ PutLast(b)

QueueSpec == InitQueue /\ [][QueueNext]_<<queue, held>>
=============================================================================
