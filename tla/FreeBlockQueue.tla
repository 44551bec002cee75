---------------------------- MODULE FreeBlockQueue ----------------------------
(***************************************************************************)
(* FreeKVCacheBlockQueue of vllm/v1/core/kv_cache_utils.py: the free blocks *)
(* as a doubly linked list between a fake head and a fake tail, with the   *)
(* links kept in the blocks.  The caller is BlockPool: it removes only     *)
(* blocks of the list and appends only blocks that it holds.  popleft_n    *)
(* and append_n take one action per iteration of their loop; they do not   *)
(* interleave with other calls.                                            *)
(***************************************************************************)
EXTENDS Integers, Sequences, FiniteSets, Functions

CONSTANTS
    Blocks,
    Order,      \* the blocks by block_id
    First,      \* fake_free_list_head
    Last,       \* fake_free_list_tail
    None

ASSUME NodesAssumption ==
    /\ Order \in Seq(Blocks) /\ Range(Order) = Blocks
    /\ \A i, j \in DOMAIN Order : Order[i] = Order[j] => i = j
    /\ Cardinality({First, Last, None}) = 3
    /\ {First, Last, None} \cap Blocks = {}

VARIABLES
    nxt,        \* next_free_block of every node
    prv,        \* prev_free_block of every node
    num,        \* num_free_blocks
    held,       \* the blocks the caller has
    loop,       \* pc, curr (curr_block or last_block) and todo of a loop
    err         \* an assertion or an exception was raised

vars == <<nxt, prv, num, held, loop, err>>

Nodes == Blocks \cup {First, Last}
NoLoop == [pc |-> "idle", curr |-> None, todo |-> 0]

\* __init__.
Init ==
    LET s == <<First>> \o Order \o <<Last>>
        at(b) == CHOOSE i \in DOMAIN s : s[i] = b
    IN  /\ nxt = [b \in Nodes |-> IF b = Last THEN None ELSE s[at(b) + 1]]
        /\ prv = [b \in Nodes |-> IF b = First THEN None ELSE s[at(b) - 1]]
        /\ num = Len(Order)
        /\ held = {}
        /\ loop = NoLoop
        /\ err = FALSE

\* popleft: on an empty list the assertion on num is followed by a ValueError,
\* so the caller asks only while num is not 0.
Popleft ==
    /\ loop.pc = "idle"
    /\ num > 0
    /\ LET b == nxt[First]
       IN  IF b = Last \/ nxt[b] = None
           THEN err' = TRUE /\ UNCHANGED <<nxt, prv, num, held>>
           ELSE /\ nxt' = [nxt EXCEPT ![First] = nxt[b], ![b] = None]
                /\ prv' = [prv EXCEPT ![nxt[b]] = First, ![b] = None]
                /\ num' = num - 1
                /\ held' = held \cup {b}
                /\ UNCHANGED err
    /\ UNCHANGED loop

\* popleft_n for n blocks, at most num of them (get_new_blocks checks it).
BeginPop ==
    /\ loop.pc = "idle"
    /\ \E n \in 1..num :
          /\ num' = num - n
          /\ loop' = [pc |-> "pop", curr |-> nxt[First], todo |-> n]
    /\ UNCHANGED <<nxt, prv, held, err>>

\* One block of popleft_n.  (The code asserts only that the block is not None;
\* popping the fake tail would be as wrong.)
PopOne ==
    /\ loop.pc = "pop" /\ loop.todo > 0
    /\ LET b == loop.curr
       IN  IF b \notin Blocks
           THEN err' = TRUE /\ loop' = NoLoop /\ UNCHANGED <<nxt, prv, held>>
           ELSE /\ loop' = [loop EXCEPT !.curr = nxt[b], !.todo = @ - 1]
                /\ nxt' = [nxt EXCEPT ![b] = None]
                /\ prv' = [prv EXCEPT ![b] = None]
                /\ held' = held \cup {b}
                /\ UNCHANGED err
    /\ UNCHANGED num

\* Mutant of EndPop: the new first block keeps its link to a popped block.
EndPopHalf ==
    /\ loop.pc = "pop" /\ loop.todo = 0
    /\ nxt' = IF loop.curr # None THEN [nxt EXCEPT ![First] = loop.curr] ELSE nxt
    /\ loop' = NoLoop
    /\ UNCHANGED <<prv, num, held, err>>

EndPop ==
    /\ loop.pc = "pop" /\ loop.todo = 0
    /\ IF loop.curr # None
       THEN /\ nxt' = [nxt EXCEPT ![First] = loop.curr]
            /\ prv' = [prv EXCEPT ![loop.curr] = First]
       ELSE UNCHANGED <<nxt, prv>>
    /\ loop' = NoLoop
    /\ UNCHANGED <<num, held, err>>

\* remove.
Remove(b) ==
    /\ loop.pc = "idle"
    /\ b \in Blocks \ held
    /\ IF prv[b] = None \/ nxt[b] = None
       THEN err' = TRUE /\ UNCHANGED <<nxt, prv, num, held>>
       ELSE /\ nxt' = [nxt EXCEPT ![prv[b]] = nxt[b], ![b] = None]
            /\ prv' = [prv EXCEPT ![nxt[b]] = prv[b], ![b] = None]
            /\ num' = num - 1
            /\ held' = held \cup {b}
            /\ UNCHANGED err
    /\ UNCHANGED loop

\* append_n for n blocks that the caller holds.
BeginAppend ==
    /\ loop.pc = "idle"
    /\ \E n \in 1..Cardinality(held) :
          /\ loop' = [pc |-> "append", curr |-> prv[Last], todo |-> n]
          /\ num' = num + n
    /\ err' = (err \/ prv[Last] = None)
    /\ UNCHANGED <<nxt, prv, held>>

AppendOne(b) ==
    /\ loop.pc = "append" /\ loop.todo > 0
    /\ b \in held
    /\ prv' = [prv EXCEPT ![b] = loop.curr]
    /\ nxt' = [nxt EXCEPT ![loop.curr] = b]
    /\ loop' = [loop EXCEPT !.curr = b, !.todo = @ - 1]
    /\ held' = held \ {b}
    /\ UNCHANGED <<num, err>>

\* Mutant of EndAppend: the fake tail is not linked back.
EndAppendHalf ==
    /\ loop.pc = "append" /\ loop.todo = 0
    /\ nxt' = [nxt EXCEPT ![loop.curr] = Last]
    /\ loop' = NoLoop
    /\ UNCHANGED <<prv, num, held, err>>

EndAppend ==
    /\ loop.pc = "append" /\ loop.todo = 0
    /\ nxt' = [nxt EXCEPT ![loop.curr] = Last]
    /\ prv' = [prv EXCEPT ![Last] = loop.curr]
    /\ loop' = NoLoop
    /\ UNCHANGED <<num, held, err>>

\* append.
AppendBlock(b) ==
    /\ loop.pc = "idle"
    /\ b \in held
    /\ nxt' = [nxt EXCEPT ![prv[Last]] = b, ![b] = Last]
    /\ prv' = [prv EXCEPT ![b] = prv[Last], ![Last] = b]
    /\ num' = num + 1
    /\ held' = held \ {b}
    /\ UNCHANGED <<loop, err>>

Next ==
    \/ Popleft \/ BeginPop \/ PopOne \/ EndPop \/ BeginAppend \/ EndAppend
    \/ \E b \in Blocks : Remove(b) \/ AppendOne(b) \/ AppendBlock(b)

Spec == Init /\ [][Next]_vars

-----------------------------------------------------------------------------
(* Properties. *)

Seqs == INSTANCE SequencesExt

\* The blocks met on the way from node b along the links f, at most one more
\* than there are; a list that ends before the node end has None behind it.
Follow(f, b, end) ==
    LET at[i \in 1 .. Cardinality(Blocks) + 1] ==
            IF i = 1 THEN b
            ELSE IF at[i - 1] \in {end, None} THEN end ELSE f[at[i - 1]]
        on == {i \in DOMAIN at : at[i] # end}
    IN  [i \in 1..Cardinality(on) |-> at[i]]

\* get_all_free_blocks.  While popleft_n runs the list begins at curr_block,
\* while append_n runs it ends at last_block.
GetAllFreeBlocks ==
    IF loop.pc = "append"
    THEN Seqs!Reverse(Follow(prv, loop.curr, First))
    ELSE Follow(nxt, IF loop.pc = "pop" THEN loop.curr ELSE nxt[First], Last)

\* Between two calls the list reads the same in both directions, the counter is
\* its length, and it holds exactly the blocks the caller does not have.  "The
\* fake head and tail are NEVER got popped": no call has met a block without
\* links or run off the list, and no assertion of the class has failed.
ListConsistent ==
    /\ ~err
    /\ loop.pc = "idle" =>
        /\ Follow(prv, prv[Last], First) = Seqs!Reverse(GetAllFreeBlocks)
        /\ num = Len(GetAllFreeBlocks)
        /\ Range(GetAllFreeBlocks) = Blocks \ held

\* The linked list implements a queue: blocks leave it at its head or from the
\* middle, join its tail, and otherwise keep their order.
Queue == INSTANCE FreeQueue WITH queue <- GetAllFreeBlocks

IsQueue == Queue!QueueSpec
=============================================================================
