------------------------------ MODULE Broadcast ------------------------------
(* What MessageQueue promises.  A reader in shared memory gets every object, *)
(* once and in the order of the enqueue calls, and the writer is never more  *)
(* than Capacity objects ahead of it.  A remote reader gets its objects once *)
(* and in order too, but nothing holds the writer back for it: an object     *)
(* enqueued while Backlog earlier ones wait can be lost to that reader.      *)
EXTENDS Naturals, Sequences

CONSTANTS Local,     \* readers that share memory with the writer
          Remote,    \* readers on other nodes
          Capacity,  \* how far the writer gets ahead of a local reader
          Backlog    \* how many objects can wait for a remote reader

VARIABLES sent,      \* number of objects for which enqueue was called
          got,       \* the objects each reader's dequeue returned, in order
          due        \* the objects that wait for each remote reader

Readers == Local \cup Remote
vars == <<sent, got, due>>

Init ==
    /\ sent = 0
    /\ got = [r \in Readers |-> <<>>]
    /\ due = [r \in Remote |-> <<>>]

Enqueue ==
    /\ \A r \in Local : sent < Len(got[r]) + Capacity
    /\ sent' = sent + 1
    /\ due' = [r \in Remote |-> Append(due[r], sent + 1)]
    /\ UNCHANGED got

DeliverLocal(r) ==
    /\ Len(got[r]) < sent
    /\ got' = [got EXCEPT ![r] = Append(@, Len(@) + 1)]
    /\ UNCHANGED <<sent, due>>

DeliverRemote(r) ==
    /\ due[r] # <<>>
    /\ got' = [got EXCEPT ![r] = Append(@, Head(due[r]))]
    /\ due' = [due EXCEPT ![r] = Tail(@)]
    /\ UNCHANGED sent

\* The newest object is lost to the readers S, each of them too far behind.
Lose(S) ==
    /\ \A r \in S : Len(due[r]) > Backlog
    /\ due' = [r \in Remote |->
                  IF r \in S THEN SubSeq(due[r], 1, Len(due[r]) - 1) ELSE due[r]]
    /\ UNCHANGED <<sent, got>>

Next ==
    \/ Enqueue
    \/ \E r \in Local : DeliverLocal(r)
    \/ \E r \in Remote : DeliverRemote(r)
    \/ \E S \in SUBSET Remote : Lose(S)

SafeSpec == Init /\ [][Next]_vars

Spec ==
    /\ SafeSpec
    /\ \A r \in Local : WF_vars(DeliverLocal(r))
    /\ \A r \in Remote : WF_vars(DeliverRemote(r))
=============================================================================
