------------------------ MODULE KVCacheManagerProofs ------------------------
(* The invariant of KVCacheManager: every action preserves it, and what      *)
(* follows from it.                                                          *)
EXTENDS KVAllocationProofs

-----------------------------------------------------------------------------
(* The invariant of the specification. *)

\* The inductive invariant: the record is consistent, and every request in the
\* system has tokens and as many hashes as full blocks of tokens.
IInv ==
    /\ KVOK(kv)
    /\ status \in [Reqs -> Statuses]
    /\ ntok \in [Reqs -> Nat]
    /\ ncomp \in [Reqs -> Nat]
    /\ bh \in [Reqs -> Chains]
    /\ \A r \in Reqs : /\ Len(bh[r]) = ntok[r] \div BlockSize
                       /\ status[r] # "absent" => ntok[r] # 0

\* The initial record is consistent: every block is free, none is cached.
LEMMA InitOK == Init => IInv
<1> SUFFICES ASSUME Init PROVE IInv
    OBVIOUS
<1> DEFINE m == Cardinality(Blocks)
<1>1. PICK q \in {s \in [1..m -> Blocks] : NoDup(s)} :
         kv = [free |-> q,
               ref |-> [b \in Blocks |-> 0],
               hash |-> [b \in Blocks |-> NoHash],
               map |-> [h \in Hashes |-> <<>>],
               pub |-> {},
               err |-> FALSE,
               table |-> [r \in Reqs |-> <<>>],
               ncached |-> [r \in Reqs |-> Absent]]
    BY DEF Init, KVInit, FreshKV
<1>2. q \in [1..m -> Blocks] /\ NoDup(q)
    OBVIOUS
<1>3. m \in Nat
    BY BlocksFinite, FS_CardinalityType
<1> HIDE DEF m
<1>4. q \in Seq(Blocks)
    BY <1>2, <1>3
<1>5. Range(q) = Blocks
    <2>1. IsFiniteSet(1..m) /\ Cardinality(1..m) = m
        BY <1>3, FS_Interval, 1 \in Int, m \in Int
    <2>2. q \in Injection(1..m, Blocks)
        BY <1>2 DEF Injection, IsInjective, NoDup
    <2>3. q \in Surjection(1..m, Blocks)
        BY <2>1, <2>2, BlocksFinite, FS_Injection DEF m
    <2> QED BY <1>2, <2>3 DEF Surjection, Range
<1>6. /\ kv.free = q
      /\ \A b \in Blocks : kv.ref[b] = 0 /\ kv.hash[b] = NoHash
      /\ \A h \in Hashes : kv.map[h] = <<>>
      /\ \A r \in Reqs : kv.table[r] = <<>>
    BY <1>1
<1>7. kv \in KVRecord
    <2>1. <<>> \in Seq(Blocks) /\ <<>> \in Seq(Blocks \cup {Null})
        OBVIOUS
    <2> QED BY <1>1, <1>4, <2>1 DEF KVRecord
<1>8. QueueOK(kv)
    BY <1>2, <1>5, <1>6 DEF QueueOK
<1>9. MapOK(kv)
    BY <1>6, NullFresh DEF MapOK, NoDup, Range
<1>10. TablesOK(kv)
    <2>1. \A b \in Blocks : Holders(kv, b) = {}
        BY <1>6 DEF Holders, Range
    <2>2. \A r \in Reqs : Distinct(kv.table[r])
        BY <1>6 DEF Distinct
    <2> QED BY ZenonT(30), <1>6, <2>1, <2>2, FS_EmptySet DEF TablesOK
<1>11. PrivateOK(kv)
    BY <1>6 DEF PrivateOK
<1>12. Len(<<>>) = 0 \div BlockSize
    BY SizesAssumption
<1> QED BY <1>7, <1>8, <1>9, <1>10, <1>11, <1>12, ChainAssumption
        DEF Init, IInv, KVOK, Statuses

\* Every step preserves the invariant.
LEMMA StepOK == IInv /\ [Next]_vars => IInv'
<1> SUFFICES ASSUME IInv, [Next]_vars PROVE IInv'
    OBVIOUS
<1>1. /\ KVOK(kv)
      /\ status \in [Reqs -> Statuses] /\ ntok \in [Reqs -> Nat]
      /\ ncomp \in [Reqs -> Nat] /\ bh \in [Reqs -> Chains]
    BY DEF IInv
<1>2. \A r \in Reqs : Len(bh[r]) = ntok[r] \div BlockSize /\ (status[r] # "absent" => ntok[r] # 0)
    BY DEF IInv
<1>3. ASSUME NEW r \in Reqs, status[r] = "waiting"
      PROVE  HitsOK(kv, GetComputedBlocks(kv, bh[r], ntok[r]))
    BY <1>1, <1>2, <1>3, ComputedBlocksOK
<1>4. HitsOK(kv, <<>>)
    BY DEF HitsOK, Distinct, Range
<1>5. ASSUME NEW r \in Reqs, NEW hits, HitsOK(kv, hits), NEW ext \in Nat,
             NEW new \in Nat, NEW look \in Nat, NEW delay
      PROVE  KVOK(AllocateSlots(kv, r, Call(r, hits, ext, new, look, delay)))
    <2>1. CallOK(kv, Call(r, hits, ext, new, look, delay))
        BY <1>1, <1>5 DEF CallOK, Call
    <2> QED BY <1>1, <2>1, AllocateSlotsOK
<1>6. ASSUME NEW r \in Reqs, NEW hits, HitsOK(kv, hits)
      PROVE  Len(hits) * BlockSize \in Nat
    <2>1. Len(hits) \in Nat
        BY <1>6 DEF HitsOK
    <2> QED BY <2>1, SizesAssumption
<1>7. ASSUME NEW r \in Reqs, NEW n \in Nat PROVE KVOK(CacheBlocksIfEnabled(kv, r, bh[r], n))
    BY <1>1, CacheOK DEF CacheBlocksIfEnabled
<1>8. ASSUME NEW r \in Reqs, AddRequest(r) PROVE IInv'
    <2>1. PICK n \in 1..MaxTokens : \E hs \in HashLists(<<>>, n) :
             ntok' = [ntok EXCEPT ![r] = n] /\ bh' = [bh EXCEPT ![r] = hs]
        BY ZenonT(30), <1>8 DEF AddRequest
    <2>2. PICK hs \in HashLists(<<>>, n) :
             ntok' = [ntok EXCEPT ![r] = n] /\ bh' = [bh EXCEPT ![r] = hs]
        BY ZenonT(30), <2>1
    <2>3. n \in Nat \ {0} /\ hs \in Chains /\ Len(hs) = n \div BlockSize
        BY ClientAssumption DEF HashLists
    <2> QED BY <1>1, <1>2, <1>8, <2>2, <2>3 DEF AddRequest, IInv, Statuses
<1>9. ASSUME NEW r \in Reqs, StartRequest(r) PROVE IInv'
    <2> DEFINE hits == GetComputedBlocks(kv, bh[r], ntok[r])
               local == Len(hits) * BlockSize
    <2>1. HitsOK(kv, hits) /\ local \in Nat
        BY <1>3, <1>6, <1>9 DEF StartRequest
    <2>2. PICK ext \in {0} \cup (IF Connector THEN ExternalTokens(r, local) ELSE {}) :
            \E new \in 1 .. ntok[r] - local - ext :
             /\ kv' = AllocateSlots(kv, r, Call(r, hits, ext, new, 0, FALSE))
             /\ \/ status' = [status EXCEPT ![r] = "running"]
                   /\ ncomp' = [ncomp EXCEPT ![r] = local + ext + new]
                \/ UNCHANGED <<status, ncomp>>
        BY ZenonT(30), <1>9 DEF StartRequest
    <2> HIDE DEF hits, local
    <2>3. PICK new \in 1 .. ntok[r] - local - ext :
             /\ kv' = AllocateSlots(kv, r, Call(r, hits, ext, new, 0, FALSE))
             /\ \/ status' = [status EXCEPT ![r] = "running"]
                   /\ ncomp' = [ncomp EXCEPT ![r] = local + ext + new]
                \/ UNCHANGED <<status, ncomp>>
        BY ZenonT(30), <2>2
    <2>4. ext \in Nat
        BY DEF ExternalTokens
    <2>5. new \in Nat
        BY <1>1, <2>1, <2>4
    <2>6. KVOK(kv')
        BY ZenonT(30), <1>5, <2>1, <2>3, <2>4, <2>5
    <2>7. ntok' = ntok /\ bh' = bh /\ status[r] = "waiting"
        BY <1>9 DEF StartRequest
    <2>8. ncomp' \in [Reqs -> Nat]
        <3>1. local + ext + new \in Nat
            BY <2>1, <2>4, <2>5
        <3> QED BY <1>1, <2>3, <3>1
    <2>9. /\ status' \in [Reqs -> Statuses]
          /\ \A q \in Reqs : status'[q] # "absent" => ntok[q] # 0
        BY <1>1, <1>2, <2>3, <2>7 DEF Statuses
    <2> QED BY SMTT(30), <1>1, <1>2, <2>6, <2>7, <2>8, <2>9 DEF IInv
<1>10. ASSUME NEW r \in Reqs, StartLoad(r) PROVE IInv'
    <2> DEFINE hits == GetComputedBlocks(kv, bh[r], ntok[r])
               local == Len(hits) * BlockSize
    <2>1. HitsOK(kv, hits) /\ local \in Nat
        BY <1>3, <1>6, <1>10 DEF StartLoad
    <2>2. PICK ext \in ExternalTokens(r, local) :
             /\ kv' = AllocateSlots(kv, r, Call(r, hits, ext, 0, 0, TRUE))
             /\ status' = [status EXCEPT ![r] = "remote"] \/ status' = status
        BY ZenonT(30), <1>10 DEF StartLoad
    <2> HIDE DEF hits, local
    <2>3. ext \in Nat
        BY DEF ExternalTokens
    <2>4. KVOK(kv')
        BY ZenonT(30), <1>5, <2>1, <2>2, <2>3
    <2>5. ntok' = ntok /\ bh' = bh /\ ncomp' = ncomp /\ status[r] = "waiting"
        BY <1>10 DEF StartLoad
    <2> QED BY ZenonT(30), <1>1, <1>2, <2>2, <2>4, <2>5 DEF IInv, Statuses
<1>11. ASSUME NEW r \in Reqs, LoadDone(r) PROVE IInv'
    <2> DEFINE slots == Min2(Len(kv.table[r]) * BlockSize, ntok[r])
               n == IF slots = ntok[r] THEN slots - 1 ELSE slots
    <2>1. kv.table[r] \in Seq(Blocks \cup {Null})
        BY <1>1 DEF KVOK, KVRecord
    <2>2. Len(kv.table[r]) * BlockSize \in Nat
        BY <2>1, SizesAssumption
    <2>3. n \in Nat
        <3>1. ntok[r] \in Nat \ {0}
            BY <1>1, <1>2, <1>11 DEF LoadDone
        <3> QED BY <2>2, <3>1 DEF Min2
    <2>4. /\ kv' = CacheBlocksIfEnabled(kv, r, bh[r], n)
          /\ ncomp' = [ncomp EXCEPT ![r] = n]
          /\ status' = [status EXCEPT ![r] = "waiting"]
          /\ ntok' = ntok /\ bh' = bh /\ status[r] = "remote"
        BY <1>11 DEF LoadDone
    <2> HIDE DEF n
    <2>5. KVOK(kv')
        BY <1>7, <2>3, <2>4
    <2> QED BY <1>1, <1>2, <2>3, <2>4, <2>5 DEF IInv, Statuses
<1>12. ASSUME NEW r \in Reqs, LoadFailed(r) PROVE IInv'
    <2>1. PICK valid \in Max2(0, kv.ncached[r]) .. Len(kv.table[r]) - 1 :
             /\ kv' = IF valid > 0
                      THEN CacheBlocksIfEnabled(kv, r, bh[r], valid * BlockSize)
                      ELSE Free(kv, r)
             /\ ncomp' = [ncomp EXCEPT ![r] = valid * BlockSize]
        BY ZenonT(30), <1>12 DEF LoadFailed
    <2>2. kv.table[r] \in Seq(Blocks \cup {Null}) /\ kv.ncached[r] \in Nat \cup {Absent}
        BY <1>1 DEF KVOK, KVRecord
    <2>3. Max2(0, kv.ncached[r]) \in Nat /\ Len(kv.table[r]) \in Nat
        BY <2>2 DEF Max2, Absent
    <2>4. valid \in Nat
        BY <2>1, <2>3
    <2>5. valid * BlockSize \in Nat
        BY <2>4, SizesAssumption
    <2>6. KVOK(kv')
        BY SMTT(30), <1>1, <1>7, <2>1, <2>5, FreeOK
    <2>7. status' = [status EXCEPT ![r] = "waiting"] /\ ntok' = ntok /\ bh' = bh /\ status[r] = "remote"
        BY <1>12 DEF LoadFailed
    <2> QED BY SMTT(30), <1>1, <1>2, <2>1, <2>5, <2>6, <2>7 DEF IInv, Statuses
<1>13. ASSUME NEW r \in Reqs, StartLoaded(r) PROVE IInv'
    <2>1. PICK new \in 1 .. ntok[r] - ncomp[r] :
             /\ kv' = AllocateSlots(kv, r, Call(r, <<>>, 0, new, Lookahead, FALSE))
             /\ \/ status' = [status EXCEPT ![r] = "running"]
                   /\ ncomp' = [ncomp EXCEPT ![r] = @ + new]
                \/ UNCHANGED <<status, ncomp>>
        BY ZenonT(30), <1>13 DEF StartLoaded
    <2>2. new \in Nat
        BY <1>1
    <2>3. KVOK(kv')
        BY ZenonT(30), <1>4, <1>5, <2>1, <2>2, ClientAssumption
    <2>4. ntok' = ntok /\ bh' = bh /\ status[r] = "waiting"
        BY <1>13 DEF StartLoaded
    <2>5. ncomp' \in [Reqs -> Nat]
        <3>1. ncomp[r] + new \in Nat
            BY <1>1, <2>2
        <3> QED BY SMTT(30), <1>1, <2>1, <3>1
    <2>6. /\ status' \in [Reqs -> Statuses]
          /\ \A q \in Reqs : status'[q] # "absent" => ntok[q] # 0
        BY <1>1, <1>2, <2>1, <2>4 DEF Statuses
    <2> QED BY SMTT(30), <1>1, <1>2, <2>3, <2>4, <2>5, <2>6 DEF IInv
<1>14. ASSUME NEW r \in Reqs, ContinueRequest(r) PROVE IInv'
    <2>1. PICK new \in 1 .. Min2(ntok[r] + MaxPlaceholders + NumSpec, MaxModelLen - 1)
                          - ncomp[r] :
             /\ kv' = AllocateSlots(kv, r, Call(r, <<>>, 0, new, Lookahead, FALSE))
             /\ ncomp' = [ncomp EXCEPT ![r] = @ + new] \/ ncomp' = ncomp
        BY ZenonT(30), <1>14 DEF ContinueRequest
    <2>2. new \in Nat
        BY <1>1, ClientAssumption, SizesAssumption DEF Min2
    <2>3. KVOK(kv')
        BY ZenonT(30), <1>4, <1>5, <2>1, <2>2, ClientAssumption
    <2>4. ntok' = ntok /\ bh' = bh /\ status' = status
        BY <1>14 DEF ContinueRequest
    <2>5. ncomp' \in [Reqs -> Nat]
        <3>1. ncomp[r] + new \in Nat
            BY <1>1, <2>2
        <3> QED BY <1>1, <2>1, <3>1
    <2> QED BY SMTT(30), <1>1, <1>2, <2>3, <2>4, <2>5 DEF IInv
<1>15. ASSUME NEW r \in Reqs, Output(r) PROVE IInv'
    <2>1. PICK accepted \in 0 .. ncomp[r] - ntok[r] :
             LET n == ntok[r] + accepted + 1
             IN  /\ ntok' = [ntok EXCEPT ![r] = n]
                 /\ ncomp' = [ncomp EXCEPT ![r] = n - 1]
                 /\ \E hs \in HashLists(bh[r], n) : bh' = [bh EXCEPT ![r] = hs]
        BY ZenonT(30), <1>15 DEF Output
    <2> DEFINE n == ntok[r] + accepted + 1
    <2>2. n \in Nat \ {0} /\ n - 1 \in Nat
        BY <1>1
    <2>3. PICK hs \in Chains : Len(hs) = n \div BlockSize /\ bh' = [bh EXCEPT ![r] = hs]
        BY ZenonT(30), <2>1 DEF HashLists
    <2>4. ntok' = [ntok EXCEPT ![r] = n] /\ ncomp' = [ncomp EXCEPT ![r] = n - 1]
        BY <2>1
    <2> HIDE DEF n
    <2>5. kv' = kv /\ status' = status
        BY <1>15 DEF Output
    <2> QED BY SMTT(30), <1>1, <1>2, <2>2, <2>3, <2>4, <2>5 DEF IInv
<1>16. ASSUME NEW r \in Reqs, Preempt(r) PROVE IInv'
    <2>1. KVOK(kv')
        BY <1>1, <1>16, FreeOK DEF Preempt
    <2> QED BY <1>1, <1>2, <1>16, <2>1 DEF Preempt, IInv, Statuses
<1>17. ASSUME NEW r \in Reqs, KVOK(kv'), Forget(r) PROVE IInv'
    <2>1. Len(<<>>) = 0 \div BlockSize /\ <<>> \in Chains
        BY SizesAssumption, ChainAssumption
    <2> QED BY <1>1, <1>2, <1>17, <2>1 DEF Forget, IInv, Statuses
<1>18. ASSUME Reset PROVE IInv'
    <2>1. KVOK(kv')
        BY <1>1, <1>18, ResetOK DEF Reset
    <2> QED BY <1>1, <1>2, <1>18, <2>1 DEF Reset, IInv
<1>19. ASSUME NEW r \in Reqs, SendDone(r) PROVE IInv'
    BY <1>1, <1>17, <1>19, FreeOK DEF SendDone
<1>20. CASE UNCHANGED vars
    BY SMTT(30), <1>1, <1>2, <1>20 DEF vars, IInv
<1>21. ASSUME NEW r \in Reqs, AsyncOutput(r) PROVE IInv'
    <2>1. PICK accepted \in 0 .. NumSpec :
             \E rejected \in 0 .. NumSpec - accepted :
                LET n == ntok[r] + accepted + 1
                IN  /\ n - 1 <= ncomp[r] - rejected
                    /\ ntok' = [ntok EXCEPT ![r] = n]
                    /\ ncomp' = [ncomp EXCEPT ![r] = @ - rejected]
                    /\ \E hs \in HashLists(bh[r], n) :
                          /\ bh' = [bh EXCEPT ![r] = hs]
                          /\ kv' = CacheBlocksIfEnabled(kv, r, hs, n - 1)
        BY ZenonT(30), <1>21 DEF AsyncOutput
    <2> DEFINE n == ntok[r] + accepted + 1
    <2>2. PICK rejected \in 0 .. NumSpec - accepted :
                /\ n - 1 <= ncomp[r] - rejected
                /\ ntok' = [ntok EXCEPT ![r] = n]
                /\ ncomp' = [ncomp EXCEPT ![r] = @ - rejected]
                /\ \E hs \in HashLists(bh[r], n) :
                      /\ bh' = [bh EXCEPT ![r] = hs]
                      /\ kv' = CacheBlocksIfEnabled(kv, r, hs, n - 1)
        BY ZenonT(30), <2>1
    <2>3. PICK hs \in Chains : /\ Len(hs) = n \div BlockSize
                               /\ bh' = [bh EXCEPT ![r] = hs]
                               /\ kv' = CacheBlocksIfEnabled(kv, r, hs, n - 1)
        BY ZenonT(30), <2>2 DEF HashLists
    <2>4. n \in Nat \ {0} /\ n - 1 \in Nat
        BY <1>1, ClientAssumption
    <2>5. ncomp[r] - rejected \in Nat
        BY <1>1, <2>2, <2>4, ClientAssumption
    <2> HIDE DEF n
    <2>6. KVOK(kv')
        BY SMTT(30), <1>1, <2>3, <2>4, CacheOK DEF CacheBlocksIfEnabled
    <2>7. status' = status
        BY <1>21 DEF AsyncOutput
    <2> QED BY SMTT(30), <1>1, <1>2, <2>2, <2>3, <2>4, <2>5, <2>6, <2>7 DEF IInv
<1>22. ASSUME NEW r \in Reqs, LateOutput(r) PROVE IInv'
    <2>1. PICK n \in ntok[r] + 1 .. Min2(ntok[r] + 1 + NumSpec, MaxTokens) :
             /\ ntok' = [ntok EXCEPT ![r] = n]
             /\ \E hs \in HashLists(bh[r], n) : bh' = [bh EXCEPT ![r] = hs]
        BY ZenonT(30), <1>22 DEF LateOutput
    <2>2. PICK hs \in Chains : Len(hs) = n \div BlockSize /\ bh' = [bh EXCEPT ![r] = hs]
        BY ZenonT(30), <2>1 DEF HashLists
    <2>3. n \in Nat \ {0}
        BY <1>1, ClientAssumption DEF Min2
    <2>4. kv' = kv /\ status' = status /\ ncomp' = ncomp
        BY <1>22 DEF LateOutput
    <2> QED BY SMTT(30), <1>1, <1>2, <2>1, <2>2, <2>3, <2>4 DEF IInv
<1>23. ASSUME NEW r \in Reqs, status[r] # "absent", NEW s, KVOK(s), NEW n \in Nat,
              FreeRequest(r, s, n)
       PROVE  IInv'
    <2> DEFINE s1 == IF Connector THEN RemoveSkippedBlocks(s, r, ntok[r]) ELSE s
    <2>1. KVOK(s1)
        BY <1>1, <1>23, RemoveSkippedOK
    <2>2. KVOK(Free(s1, r))
        BY SMTT(30), <2>1, FreeOK
    <2> HIDE DEF s1
    <2>3. \/ kv' = Free(s1, r) /\ Forget(r)
          \/ /\ kv' = s1
             /\ status' = [status EXCEPT ![r] = "sending"]
             /\ ncomp' = [ncomp EXCEPT ![r] = n]
             /\ ntok' = ntok /\ bh' = bh
        BY <1>23 DEF FreeRequest, s1
    <2>4. CASE kv' = Free(s1, r) /\ Forget(r)
        BY <1>17, <2>2, <2>4
    <2>5. CASE /\ kv' = s1
               /\ status' = [status EXCEPT ![r] = "sending"]
               /\ ncomp' = [ncomp EXCEPT ![r] = n]
               /\ ntok' = ntok /\ bh' = bh
        BY SMTT(30), <1>1, <1>2, <1>23, <2>1, <2>5 DEF IInv, Statuses
    <2> QED BY <2>3, <2>4, <2>5
<1>24. ASSUME NEW r \in Reqs, Finish(r) PROVE IInv'
    BY <1>1, <1>23, <1>24 DEF Finish
<1>26. ASSUME NEW r \in Reqs, FailLoad(r) PROVE IInv'
    <2>1. PICK k \in MayBeInvalid(r) :
             LET bad == {kv.table[r][i] : i \in k..Len(kv.table[r])} \ {Null}
             IN  FreeRequest(r, EvictBlocks(kv, bad), (k - 1) * BlockSize)
        BY ZenonT(30), <1>26 DEF FailLoad
    <2> DEFINE bad == {kv.table[r][i] : i \in k..Len(kv.table[r])} \ {Null}
    <2>2. kv.table[r] \in Seq(Blocks \cup {Null})
        BY <1>1 DEF KVOK, KVRecord
    <2>3. k \in 1..Len(kv.table[r])
        BY <2>2 DEF MayBeInvalid
    <2>4. bad \subseteq Blocks
        <3>1. \A i \in k..Len(kv.table[r]) : kv.table[r][i] \in Blocks \cup {Null}
            BY <2>2, <2>3
        <3> QED BY <3>1
    <2>5. FreeRequest(r, EvictBlocks(kv, bad), (k - 1) * BlockSize)
        BY <2>1
    <2>6. (k - 1) * BlockSize \in Nat
        <3>1. k - 1 \in Nat
            BY <2>2, <2>3
        <3> QED BY <3>1, SizesAssumption
    <2> HIDE DEF bad
    <2>7. KVOK(EvictBlocks(kv, bad))
        BY <1>1, <2>4, EvictOK
    <2>8. status[r] # "absent"
        BY <1>26 DEF FailLoad
    <2> QED BY <1>23, <2>5, <2>6, <2>7, <2>8
<1>25. ASSUME NEW r \in Reqs, RecomputeLoad(r) PROVE IInv'
    <2>1. PICK k \in MayBeInvalid(r) : ncomp' = [ncomp EXCEPT ![r] = (k - 1) * BlockSize]
        BY ZenonT(30), <1>25 DEF RecomputeLoad
    <2>2. kv.table[r] \in Seq(Blocks \cup {Null})
        BY <1>1 DEF KVOK, KVRecord
    <2>3. k - 1 \in Nat
        BY <2>2 DEF MayBeInvalid
    <2>4. (k - 1) * BlockSize \in Nat
        BY <2>3, SizesAssumption
    <2> QED BY <1>1, <1>2, <1>25, <2>1, <2>4 DEF RecomputeLoad, IInv
<1> QED BY SMTT(30), <1>8, <1>9, <1>10, <1>11, <1>12, <1>13, <1>14, <1>15, <1>16, <1>18,
           <1>19, <1>20, <1>21, <1>22, <1>24, <1>25, <1>26 DEF Next

-----------------------------------------------------------------------------
(* The theorems. *)

LEMMA Invariance == Spec => []IInv
<1> QED BY InitOK, StepOK, PTL DEF Spec

\* Whatever the requests, block sizes, windows and hash chains are, the state
\* of the manager and its client stays of its type: in particular reference
\* counts never become negative in free_blocks.
THEOREM TypeCorrect == Spec => []TypeOK
<1>1. IInv => TypeOK
    BY DEF IInv, KVOK, TypeOK
<1> QED BY <1>1, Invariance, PTL

\* A block is in the free queue, once, if and only if no table holds it, and
\* its reference count is the number of tables that hold it: touch,
\* get_new_blocks and free_blocks neither leak a block nor hand out a used one.
THEOREM ReferenceCounting == Spec => []RefCountsExact
<1>1. ASSUME IInv PROVE RefCountsExact
    <2>1. KVOK(kv)
        BY <1>1 DEF IInv
    <2>2. ASSUME NEW b \in Blocks PROVE kv.ref[b] = 0 <=> Holders(kv, b) = {}
        <3>1. IsFiniteSet(Holders(kv, b)) /\ kv.ref[b] = Cardinality(Holders(kv, b))
            BY SMTT(30), <2>1, HoldersFinite DEF KVOK, TablesOK
        <3> QED BY SMTT(30), <3>1, FS_EmptySet
    <2> QED BY <2>1, <2>2 DEF KVOK, QueueOK, TablesOK, RefCountsExact
<1> QED BY <1>1, Invariance, PTL

\* The hash map of the prefix cache and the hashes of the blocks agree.
THEOREM CacheConsistent == Spec => []CacheMapExact
<1>1. IInv => CacheMapExact
    BY SMTT(30) DEF IInv, KVOK, MapOK, CacheMapExact
<1> QED BY <1>1, Invariance, PTL

\* A block that a request writes is shared with no other request and cannot be
\* found through the prefix cache.
THEOREM WritesArePrivate == Spec => []WritableBlocksPrivate
<1>1. IInv => WritableBlocksPrivate
    BY DEF IInv, KVOK, PrivateOK, WritableBlocksPrivate
<1> QED BY <1>1, Invariance, PTL
=============================================================================
