------------------------------ MODULE MCScheduler ------------------------------
(* Scheduler on small instances. *)
EXTENDS Scheduler, TLC

CONSTANTS b1, b2, b3, b4, b5, b6, b7, r1, r2, r3

Order4 == <<b1, b2, b3, b4>>
Order7 == <<b1, b2, b3, b4, b5, b6, b7>>

\* Two requests with the same prompt and one that differs from them.
MCPrompt == [r \in Reqs |-> IF r = r3 THEN <<4, 2, 3>> ELSE <<1, 2, 3>>]
MCOutLimit == [r \in Reqs |-> 3]
MCEos == [r \in Reqs |-> IF r = r2 THEN 1 ELSE 9]
MCPriority == [r \in Reqs |-> CASE r = r1 -> 1 [] r = r2 -> 2 [] r = r3 -> 3]

\* Lengths for which a request of high priority needs a block in a step in
\* which one of low priority is scheduled already.
MCPrioPrompt ==
    [r \in Reqs |-> CASE r = r1 -> <<1, 2>> [] r = r2 -> <<1, 2, 3>>
                      [] r = r3 -> <<4, 2, 3, 5>>]

\* A long prompt of low priority and a short one of high priority.
LongAndShort == [r \in Reqs |-> IF r = r1 THEN <<1, 2, 3, 4, 5, 6>> ELSE <<4>>]
MCReverse == [r \in Reqs |-> CASE r = r1 -> 3 [] r = r2 -> 2 [] r = r3 -> 1]

MCHashes == {SubSeq(Text(r, n), 1, i * BlockSize) :
               r \in Reqs, n \in {MaxModelLen}, i \in 1 .. MaxModelLen \div BlockSize}
=============================================================================
