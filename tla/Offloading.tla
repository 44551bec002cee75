----------------------------- MODULE Offloading ------------------------------
(* Offloading of KV cache blocks to the memory of the CPU: the scheduler    *)
(* half of the OffloadingConnector with its manager, the steps on their way *)
(* to the worker, the worker half of the connector, and the copies that run *)
(* beside the forward passes.  A token is a block: the block size is one,   *)
(* and the contents of a block are the hash of the tokens it was computed   *)
(* for.  GPU prefix caching is off.  The worker launches the pass of a step  *)
(* and may begin the next step before the GPU has executed it.              *)
EXTENDS OffloadingManager

CONSTANTS Reqs,      \* requests
          Chain,     \* request -> the hashes of its blocks
          GpuBlocks, \* blocks of the GPU
          Arrival,   \* request -> when it arrived; used only by FcfsSpec
          MaxChunk,  \* bound: tokens of a request in one step
          Depth,     \* steps that are scheduled and not yet processed
          Junk       \* contents that belong to no hash

ASSUME OffloadingAssumption ==
    /\ Arrival \in [Reqs -> Nat] /\ IsInjective(Arrival)
    /\ GpuBlocks \subseteq Nat /\ MaxChunk \in Nat \ {0} /\ Depth \in Nat \ {0}
    /\ \A r \in Reqs : Len(Chain[r]) > 1 /\ Junk \notin ToSet(Chain[r])

VARIABLES
    status,      \* request -> "waiting", "loading", "running", "held", "gone"
    computed,    \* request -> num_computed_tokens
    table,       \* request -> its GPU blocks
    free,        \* the queue of free GPU blocks
    step,        \* the scheduler output under construction
    finishedIds, \* scheduler: finished_req_ids
    received,    \* scheduler: finished_recving_kv_req_ids
    mgr,         \* the OffloadingManager
    blockIds,    \* connector: _request_block_ids
    nextIdx,     \* connector: _next_stored_block_idx
    storing,     \* connector: _reqs_being_stored (a partial function)
    loading,     \* connector: _reqs_being_loaded
    inflight,    \* steps sent to the worker
    launched,    \* passes on the GPU, in the order in which they run
    results,     \* outputs of the worker
    phase,       \* worker: "idle", "wait"ing for preempted stores, "forward"
    deferred,    \* worker: _unsubmitted_store_jobs
    stores,      \* copies to the CPU, in the order in which they run
    loads,       \* copies to the GPU, in the order in which they run
    finished,    \* copies that ran and were not collected
    storeKeys,   \* worker: the keys of _store_jobs
    waitStore,   \* worker: _finished_reqs_waiting_for_store
    gpu, cpu,    \* contents of the blocks
    raised,      \* an assertion or a lookup failed
    stray        \* history: the ways in which a load came at a wrong time

schedVars == <<status, computed, table, free, step, finishedIds, received>>
connVars == <<mgr, blockIds, nextIdx, storing, loading>>
workVars == <<phase, deferred, storeKeys, waitStore>>
copyVars == <<stores, loads, finished, gpu, cpu>>
\* What only the scheduler, or only the worker and the GPU, leave alone.
engineVars == <<schedVars, connVars>>
deviceVars == <<launched, workVars, copyVars>>
vars == <<engineVars, inflight, results, deviceVars, raised, stray>>

EmptyStep ==
    [sched |-> <<>>, num |-> [r \in Reqs |-> 0], ids |-> [r \in Reqs |-> <<>>],
     preempted |-> {}, loads |-> <<>>, admitting |-> FALSE]

Init ==
    /\ status = [r \in Reqs |-> "waiting"]
    /\ computed = [r \in Reqs |-> 0]
    /\ table = [r \in Reqs |-> <<>>]
    /\ free = SetToSortSeq(GpuBlocks, <)
    /\ step = EmptyStep
    /\ finishedIds = {} /\ received = {}
    /\ mgr = EmptyManager
    /\ blockIds = [r \in Reqs |-> <<>>]
    /\ nextIdx = [r \in Reqs |-> 0]
    /\ storing = <<>>
    /\ loading = [r \in Reqs |-> {}]
    /\ inflight = <<>> /\ launched = <<>> /\ results = <<>>
    /\ phase = "idle" /\ deferred = <<>>
    /\ stores = <<>> /\ loads = <<>> /\ finished = {}
    /\ storeKeys = {} /\ waitStore = {}
    /\ gpu = [b \in GpuBlocks |-> Junk]
    /\ cpu = [c \in 0..NumCpuBlocks - 1 |-> Junk]
    /\ raised = FALSE /\ stray = {}

(***************************************************************************)
(* Scheduler.schedule, one request at a time.                              *)
(***************************************************************************)

\* The next n free blocks, and r with these blocks added to its own.  Blocks
\* are freed from the last one to the first.
Popped(n) == SubSeq(free, 1, n)
Allocated(r, n) ==
    /\ n <= Len(free)
    /\ table' = [table EXCEPT ![r] = @ \o Popped(n)]
    /\ free' = SubSeq(free, n + 1, Len(free))
Freed(R) ==
    /\ table' = [r \in Reqs |-> IF r \in R THEN <<>> ELSE table[r]]
    /\ free' = free \o FlattenSeq([i \in 1..Cardinality(R) |->
                                      Reverse(table[SetToSeq(R)[i]])])

Fits(r, n) == computed[r] + n <= Len(Chain[r])
BlocksNeeded(r, n) == computed[r] + n - Len(table[r])
Scheduled(r) == r \in ToSet(step.sched)

\* schedule is called when the batch queue has room, and takes the running
\* requests first.
HasRoom == Len(inflight) + Len(launched) + Len(results) < Depth
Runs(r) == status[r] = "running" /\ HasRoom /\ ~step.admitting /\ ~Scheduled(r)

\* r computes n tokens in this step; ids are the blocks the connector hears of.
InStep(r, n, ids) ==
    [step EXCEPT !.sched = Append(@, r), !.num[r] = n, !.ids[r] = ids]

\* A running request gets its next tokens.
ScheduleRunning(r, n) ==
    /\ Runs(r) /\ Fits(r, n)
    /\ Allocated(r, BlocksNeeded(r, n))
    /\ step' = InStep(r, n, Popped(BlocksNeeded(r, n)))
    /\ UNCHANGED <<status, computed, finishedIds, received, connVars, inflight,
                   results, deviceVars, raised, stray>>

\* The request r has no room for n tokens: victim is preempted.  The first come
\* first served policy takes the last running request; the priority policy takes
\* any, and undoes what the step holds for it.
Preempt(r, n, victim) ==
    /\ Runs(r) /\ Fits(r, n)
    /\ BlocksNeeded(r, n) > Len(free)
    /\ status[victim] = "running"
    /\ status' = [status EXCEPT ![victim] = "waiting"]
    /\ computed' = [computed EXCEPT ![victim] = 0]
    /\ Freed({victim})
    /\ step' = [step EXCEPT !.preempted = @ \cup {victim},
                            !.sched = SelectSeq(@, LAMBDA q : q # victim),
                            !.num[victim] = 0, !.ids[victim] = <<>>]
    /\ UNCHANGED <<finishedIds, received, connVars, inflight, results, deviceVars,
                   raised, stray>>

\* get_num_new_matched_tokens: blocks that can be loaded for a request that
\* holds none; the lookup also makes them the most recently used ones.
Hits(r) == Lookup(mgr, Chain[r])
Touched(r) == Touch(mgr, Chain[r])

\* The waiting loop is left out of a step that preempted a request.
Waits(r) ==
    status[r] = "waiting" /\ HasRoom /\ step.preempted = {} /\ ~Scheduled(r)

\* Nothing to load: r starts with n tokens.
AdmitNew(r, n) ==
    /\ Waits(r) /\ computed[r] = 0 /\ Hits(r) = 0 /\ Fits(r, n)
    /\ Allocated(r, n)
    /\ step' = [InStep(r, n, table'[r]) EXCEPT !.admitting = TRUE]
    /\ status' = [status EXCEPT ![r] = "running"]
    /\ mgr' = Touched(r)
    /\ blockIds' = [blockIds EXCEPT ![r] = <<>>]
    /\ UNCHANGED <<computed, finishedIds, received, nextIdx, storing, loading,
                   inflight, results, deviceVars, raised, stray>>

\* update_state_after_alloc: the hits are loaded into new blocks.
AdmitLoad(r) ==
    LET hits == SubSeq(Chain[r], 1, Hits(r))
    IN  /\ Waits(r) /\ computed[r] = 0 /\ hits # <<>>
        /\ Allocated(r, Len(hits))
        /\ step' = [step EXCEPT !.admitting = TRUE, !.loads = Append(@,
               [kind |-> "load", req |-> r, hashes |-> hits, gpu |-> table'[r],
                cpu |-> [i \in DOMAIN hits |-> mgr.addr[hits[i]]]])]
        /\ status' = [status EXCEPT ![r] = "loading"]
        /\ mgr' = PrepareLoad(Touched(r), ToSet(hits))
        /\ raised' = (raised \/ ~CanPrepareLoad(mgr, ToSet(hits)))
        /\ loading' = [loading EXCEPT ![r] = @ \cup ToSet(hits)]
        /\ nextIdx' = [nextIdx EXCEPT ![r] = Len(hits)]
        /\ blockIds' = [blockIds EXCEPT ![r] = <<>>]
        /\ UNCHANGED <<computed, finishedIds, received, storing, inflight,
                       results, deviceVars, stray>>

\* A bug: the blocks of r are taken for loaded before the load is reported.
ReceivedEarly(r) ==
    /\ status[r] = "loading" /\ HasRoom /\ step.preempted = {}
    /\ received' = received \ {r}
    /\ computed' = [computed EXCEPT ![r] =
           IF Len(table[r]) = Len(Chain[r]) THEN Len(table[r]) - 1
           ELSE Len(table[r])]
    /\ status' = [status EXCEPT ![r] = "waiting"]
    /\ step' = [step EXCEPT !.admitting = TRUE]
    /\ UNCHANGED <<table, free, finishedIds, connVars, inflight, results,
                   deviceVars, raised, stray>>

\* _update_waiting_for_remote_kv: the blocks of r have arrived; the last token
\* of a request that was loaded completely is computed again.
Received(r) ==
    /\ status[r] = "loading" /\ HasRoom /\ r \in received /\ step.preempted = {}
    /\ received' = received \ {r}
    /\ computed' = [computed EXCEPT ![r] =
           IF Len(table[r]) = Len(Chain[r]) THEN Len(table[r]) - 1
           ELSE Len(table[r])]
    /\ status' = [status EXCEPT ![r] = "waiting"]
    /\ step' = [step EXCEPT !.admitting = TRUE]
    /\ UNCHANGED <<table, free, finishedIds, connVars, inflight, results,
                   deviceVars, raised, stray>>

\* A request whose blocks have arrived goes on with n tokens.
AdmitLoaded(r, n) ==
    /\ Waits(r) /\ computed[r] > 0 /\ Fits(r, n)
    /\ Allocated(r, BlocksNeeded(r, n))
    /\ step' = [InStep(r, n, table'[r]) EXCEPT !.admitting = TRUE]
    /\ status' = [status EXCEPT ![r] = "running"]
    /\ blockIds' = [blockIds EXCEPT ![r] = <<>>]
    /\ UNCHANGED <<computed, finishedIds, received, mgr, nextIdx, storing,
                   loading, inflight, results, deviceVars, raised, stray>>

\* No room for r: only the recency of its blocks has changed.
AdmitBlocked(r, n) ==
    /\ Waits(r) /\ computed[r] = 0 /\ Fits(r, n)
    /\ Len(free) < IF Hits(r) > 0 THEN Hits(r) ELSE n
    /\ mgr' = Touched(r)
    /\ step' = [step EXCEPT !.admitting = TRUE]
    /\ UNCHANGED <<status, computed, table, free, finishedIds, received,
                   blockIds, nextIdx, storing, loading, inflight, results,
                   deviceVars, raised, stray>>

\* _get_reqs_to_store for the request r of the step; c holds the state of the
\* connector and the store jobs so far.
StoreRequest(c, r) ==
    LET ids == c.blockIds[r] \o step.ids[r]
        first == c.nextIdx[r] + 1
        total == computed[r] + step.num[r]
        hashes == SubSeq(Chain[r], first, total)
        new == NewHashes(c.mgr, hashes)
        known == [c EXCEPT !.blockIds[r] = ids]
        prepared == PrepareStore(c.mgr, hashes)
        Index(h) == CHOOSE i \in first..total : Chain[r][i] = h
    IN  IF hashes = <<>> \/ ~CanPrepareStore(c.mgr, hashes) THEN known
        ELSE IF new = <<>> THEN [known EXCEPT !.nextIdx[r] = total]
        ELSE [blockIds |-> known.blockIds,
              nextIdx |-> [c.nextIdx EXCEPT ![r] = total],
              mgr |-> Touch(prepared, SubSeq(Chain[r], 1, total)),
              storing |-> (r :> (ToSet(new) \cup IF r \in DOMAIN c.storing
                                   THEN c.storing[r] ELSE {})) @@ c.storing,
              raised |-> c.raised \/ total > Len(ids),
              jobs |-> Append(c.jobs,
                  [kind |-> "store", req |-> r, hashes |-> new,
                   gpu |-> [i \in DOMAIN new |-> ids[Index(new[i])]],
                   cpu |-> [i \in DOMAIN new |-> prepared.addr[new[i]]]])]

\* A bug: the stores that count as completed are not cleared.
CompletePreemptedTwice(c) ==
    LET hashes == UNION {c.storing[r] : r \in step.preempted \cap DOMAIN c.storing}
    IN  [c EXCEPT !.mgr = CompleteStore(@, hashes)]

\* build_connector_meta: what preempted requests are storing counts as stored,
\* because the worker waits for it before the step.
CompletePreempted(c) ==
    LET gone == step.preempted \cap DOMAIN c.storing
        hashes == UNION {c.storing[r] : r \in gone}
    IN  [c EXCEPT !.mgr = CompleteStore(@, hashes),
                  !.raised = @ \/ ~CanCompleteStore(c.mgr, hashes),
                  !.storing = [r \in DOMAIN @ |-> IF r \in gone THEN {} ELSE @[r]]]

\* A bug: the engine does not step while all its requests wait for loads.
MayDispatchUnlessLoading ==
    /\ HasRoom
    /\ finishedIds # {} \/ \E r \in Reqs : status[r] \in {"waiting", "running"}

\* A step is made while there are requests or requests to report as finished.
MayDispatch ==
    /\ HasRoom
    /\ \/ finishedIds # {}
       \/ \E r \in Reqs : status[r] \in {"waiting", "loading", "running"}

\* The end of schedule: the connector adds its part and the step is sent.
Dispatch ==
    LET before == [mgr |-> mgr, blockIds |-> blockIds, nextIdx |-> nextIdx,
                   storing |-> storing, raised |-> raised, jobs |-> <<>>]
        sched == ToSet(step.sched)
        Pairs(r, from, to) == {<<table[r][i], Chain[r][i]>> : i \in from..to}
        end == [r \in Reqs |-> computed[r] + step.num[r]]
    IN  /\ MayDispatch
        /\ \E c \in {CompletePreempted(FoldLeft(StoreRequest, before, step.sched))} :
            /\ inflight' = Append(inflight,
                   [last |-> {r \in sched : end[r] = Len(Chain[r])},
                    preempted |-> step.preempted,
                    reads |-> UNION {Pairs(r, 1, computed[r]) : r \in sched},
                    writes |-> UNION {Pairs(r, computed[r] + 1, end[r]) : r \in sched},
                    loads |-> step.loads, stores |-> c.jobs,
                    finished |-> finishedIds])
            /\ mgr' = c.mgr /\ blockIds' = c.blockIds /\ nextIdx' = c.nextIdx
            /\ storing' = c.storing /\ raised' = c.raised
        /\ computed' = end
        /\ finishedIds' = {}
        /\ step' = EmptyStep
        /\ UNCHANGED <<status, table, free, received, loading, results,
                       deviceVars, stray>>

(***************************************************************************)
(* The end of a request, between two steps.                                *)
(***************************************************************************)

\* A bug: request_finished asks for the loads of the request.
KeepsWhileLoading(r) == loading[r] # {}

\* _free_request for the requests F: request_finished keeps the blocks of
\* those that are in _reqs_being_stored.  The connector forgets the request.
KeepsBlocks(r) == r \in DOMAIN storing
StatusWithout(F) ==
    [r \in Reqs |-> IF r \notin F THEN status[r]
                    ELSE IF KeepsBlocks(r) THEN "held" ELSE "gone"]
Forget(F) ==
    /\ finishedIds' = finishedIds \cup F
    /\ computed' = [r \in Reqs |-> IF r \in F THEN 0 ELSE computed[r]]
    /\ blockIds' = [r \in Reqs |-> IF r \in F THEN <<>> ELSE blockIds[r]]
    /\ nextIdx' = [r \in Reqs |-> IF r \in F THEN 0 ELSE nextIdx[r]]
\* Requests that have gone free their blocks.
FreeBlocks == Freed({r \in Reqs : status'[r] = "gone" /\ status[r] # "gone"})

\* finish_requests from outside, in any state of the request.
Alive(r) == status[r] \in {"waiting", "loading", "running"}
Abort(r) ==
    /\ step = EmptyStep
    /\ Alive(r)
    /\ status' = StatusWithout({r})
    /\ FreeBlocks /\ Forget({r})
    /\ UNCHANGED <<step, received, mgr, storing, loading, inflight, results,
                   deviceVars, raised, stray>>

MayUpdate == step = EmptyStep /\ results # <<>>

\* The output o brings the last token of these requests, some of which may have
\* been preempted, or be loading again, since.
Complete(o) == {r \in o.last : Alive(r)}

\* update_connector_output: the manager hears of the copies that ended.
Saved(o) == UNION {storing[r] : r \in o.sending \cap DOMAIN storing}
UpdateConnectorOutput(o) ==
    LET Release(m, r) == CompleteLoad(m, loading[r])
    IN  /\ mgr' = FoldLeft(Release, CompleteStore(mgr, Saved(o)),
                           SetToSeq(o.receiving))
        /\ storing' = [r \in DOMAIN storing \ o.sending |-> storing[r]]
        /\ loading' = [r \in Reqs |-> IF r \in o.receiving THEN {} ELSE loading[r]]
UpdateRaises(o) ==
    \/ ~CanCompleteStore(mgr, Saved(o))
    \/ \E r \in o.receiving :
           ~CanCompleteLoad(CompleteStore(mgr, Saved(o)), loading[r])

\* update_from_output: requests that are complete finish; then the connector
\* and, in _update_from_kv_xfer_finished, the scheduler hear of the copies.
UpdateFromOutput ==
    LET o == Head(results)
        done == StatusWithout(Complete(o))
    IN  /\ MayUpdate
        /\ results' = Tail(results)
        /\ status' = [r \in Reqs |-> IF r \in o.sending THEN "gone" ELSE done[r]]
        /\ FreeBlocks /\ Forget(Complete(o))
        /\ received' = received \cup o.receiving
        /\ UpdateConnectorOutput(o)
        /\ raised' = \/ raised \/ UpdateRaises(o)
                     \/ \E r \in o.sending : done[r] = "gone"
        /\ UNCHANGED <<step, inflight, deviceVars, stray>>

(***************************************************************************)
(* The worker, the passes and the copies.  The GPU runs passes one by one  *)
(* in the order in which they were launched, and so it does with the       *)
(* copies of one direction.                                                *)
(***************************************************************************)

\* transfer_async: a store waits for the passes that were launched before it.
Submitted(jobs) ==
    stores \o [i \in DOMAIN jobs |-> jobs[i] @@ ("after" :> Len(launched))]

\* handle_preemptions: submit the deferred stores and wait for the ones of the
\* requests the scheduler preempted.
HandlePreemptions ==
    /\ phase = "idle" /\ inflight # <<>> /\ Head(inflight).preempted # {}
    /\ phase' = "wait"
    /\ stores' = Submitted(deferred)
    /\ deferred' = <<>>
    /\ UNCHANGED <<engineVars, inflight, launched, results, storeKeys, waitStore,
                   loads, finished, gpu, cpu, raised, stray>>

WaitIsOver ==
    \A i \in DOMAIN stores : stores[i].req \notin Head(inflight).preempted

\* start_kv_transfers: submit the deferred stores and the loads of the step.
StartTransfers ==
    /\ inflight # <<>>
    /\ \/ phase = "idle" /\ Head(inflight).preempted = {}
       \/ phase = "wait" /\ WaitIsOver
    /\ phase' = "forward"
    /\ stores' = Submitted(deferred)
    /\ deferred' = <<>>
    /\ loads' = loads \o Head(inflight).loads
    /\ raised' = (raised \/ \E i \in DOMAIN Head(inflight).loads :
           \E j \in ToSet(loads) \cup finished :
               /\ j.kind = "load" /\ j.req = Head(inflight).loads[i].req)
    /\ UNCHANGED <<engineVars, inflight, launched, results, storeKeys, waitStore,
                   finished, gpu, cpu, stray>>

\* A copy to the CPU.
RunStore ==
    LET j == Head(stores)
    IN  /\ stores # <<>> /\ j.after = 0
        /\ cpu' = [c \in DOMAIN cpu |-> IF c \in ToSet(j.cpu)
               THEN gpu[j.gpu[CHOOSE i \in DOMAIN j.cpu : j.cpu[i] = c]]
               ELSE cpu[c]]
        /\ stores' = Tail(stores)
        /\ finished' = finished \cup {j}
        /\ UNCHANGED <<engineVars, inflight, launched, results, workVars, loads,
                       gpu, raised, stray>>

\* A copy to the GPU.  It waits for no pass, and for no request: it is stray
\* when its request no longer waits for it, or when a pass that was launched
\* before it still uses one of its blocks.
Uses(p) == {w[1] : w \in p.reads \cup p.writes}
StrayLoad(j) ==
    {k \in {"late", "early"} :
        \/ k = "late" /\ status[j.req] # "loading"
        \/ k = "early" /\ \E p \in ToSet(launched) : Uses(p) \cap ToSet(j.gpu) # {}}
RunLoad ==
    LET j == Head(loads)
    IN  /\ loads # <<>>
        /\ gpu' = [b \in DOMAIN gpu |-> IF b \in ToSet(j.gpu)
               THEN cpu[j.cpu[CHOOSE i \in DOMAIN j.gpu : j.gpu[i] = b]]
               ELSE gpu[b]]
        /\ loads' = Tail(loads)
        /\ finished' = finished \cup {j}
        /\ stray' = stray \cup StrayLoad(j)
        /\ UNCHANGED <<engineVars, inflight, launched, results, workVars, stores,
                       cpu, raised>>

\* get_finished: the requests whose stores have all ended are reported, once
\* the scheduler has reported them as finished; loads are reported at once.
Sent(over, pending) ==
    {r \in over : \A j \in ToSet(stores \o pending) : j.req # r}

\* prepare_store_kv defers the stores of the step s to the next one.
Deferred(s) == deferred \o s.stores

\* The forward pass is launched; then the stores of the step are prepared and
\* get_finished collects.
Forward ==
    LET s == Head(inflight)
        pending == Deferred(s)
        keys == storeKeys \cup {s.stores[i].req : i \in DOMAIN s.stores}
        over == (waitStore \cup s.finished) \cap keys
        sent == Sent(over, pending)
    IN  /\ phase = "forward"
        /\ phase' = "idle"
        /\ deferred' = pending
        /\ finished' = {}
        /\ storeKeys' = keys \ sent
        /\ waitStore' = over \ sent
        /\ launched' = Append(launched,
               [reads |-> s.reads, writes |-> s.writes,
                output |-> [last |-> s.last, sending |-> sent, receiving |->
                    {j.req : j \in {i \in finished : i.kind = "load"}}]])
        /\ inflight' = Tail(inflight)
        /\ UNCHANGED <<engineVars, results, stores, loads, gpu, cpu, raised, stray>>

\* The GPU executes the pass p: it writes its blocks, and the output is sent.
RunPass ==
    LET p == Head(launched)
    IN  /\ launched # <<>>
        /\ gpu' = [b \in DOMAIN gpu |->
               IF \E w \in p.writes : w[1] = b
               THEN (CHOOSE w \in p.writes : w[1] = b)[2] ELSE gpu[b]]
        /\ launched' = Tail(launched)
        /\ results' = Append(results, p.output)
        /\ stores' = [i \in DOMAIN stores |->
               [stores[i] EXCEPT !.after = IF @ = 0 THEN 0 ELSE @ - 1]]
        /\ UNCHANGED <<engineVars, inflight, workVars, loads, finished, cpu,
                       raised, stray>>

\* The thread of the worker: never are two of its actions enabled.
Work == HandlePreemptions \/ StartTransfers \/ Forward

Chunks == 1..MaxChunk
Next ==
    \/ \E r \in Reqs, n \in Chunks : ScheduleRunning(r, n)
    \/ \E r \in Reqs, n \in Chunks, victim \in Reqs : Preempt(r, n, victim)
    \/ \E r \in Reqs, n \in Chunks : AdmitNew(r, n)
    \/ \E r \in Reqs : AdmitLoad(r)
    \/ \E r \in Reqs : Received(r)
    \/ \E r \in Reqs, n \in Chunks : AdmitLoaded(r, n)
    \/ \E r \in Reqs, n \in Chunks : AdmitBlocked(r, n)
    \/ \E r \in Reqs : Abort(r)
    \/ Dispatch \/ UpdateFromOutput
    \/ Work \/ RunPass \/ RunStore \/ RunLoad

\* The engine loop goes on while there are requests, the worker executes what
\* it is sent, and passes and copies end.  Weak fairness of Dispatch and
\* UpdateFromOutput is spelled out: only they lengthen inflight and shorten
\* results.
SafeSpec == Init /\ [][Next]_vars
Spec ==
    /\ SafeSpec
    /\ []<>(~MayDispatch) \/ []<><<Len(inflight') > Len(inflight)>>_vars
    /\ []<>(~MayUpdate) \/ []<><<Len(results') < Len(results)>>_vars
    /\ WF_vars(Work) /\ WF_vars(RunPass) /\ WF_vars(RunStore) /\ WF_vars(RunLoad)

\* The steps of the first come first served policy that keep the running list
\* in the order of arrival: requests are scheduled in this order, none is
\* admitted while an earlier one waits or loads, and the last one is preempted.
Later(r) == {q \in Reqs : Arrival[q] > Arrival[r]}
InArrivalOrder ==
    \A r \in Reqs :
        /\ r \in ToSet(step'.sched) \ ToSet(step.sched) =>
               Later(r) \cap ToSet(step.sched) = {}
        /\ status[r] \in {"waiting", "loading"} /\ status'[r] = status[r] =>
               \A q \in Later(r) : status[q] = "waiting" =>
                   status'[q] \notin {"loading", "running"}
        /\ status[r] = "running" /\ status'[r] = "waiting" =>
               \A q \in Later(r) : status[q] # "running"
FcfsSpec == Init /\ [][Next /\ InArrivalOrder]_vars

(***************************************************************************)
(* Properties.                                                             *)
(***************************************************************************)

\* The data a store copies is in its blocks from the moment at which it may run.
\* It runs beside later forward passes, so its source blocks must not be given
\* away before it has ended, whether its request goes on, is preempted, finishes
\* or is aborted.  Only a load that outlived its request can spoil them.
SavedBeforeOverwritten ==
    "late" \notin stray =>
        \A j \in ToSet(stores) : j.after = 0 =>
            \A i \in DOMAIN j.hashes : gpu[j.gpu[i]] = j.hashes[i]

\* A forward pass reads what was computed or loaded for its requests, although
\* blocks change hands while steps are on the fly and copies run beside them.
PassesReadTheirContext ==
    launched # <<>> => \A p \in Head(launched).reads : gpu[p[1]] = p[2]

\* It does unless a stray write has come in between: blocks count as loaded when
\* the load was reported, CPU blocks are not evicted under a load, and a block
\* that was stored for a preempted request holds its data when it is loaded.
ContextKept == stray = {} => PassesReadTheirContext

\* The reference counts of offloaded blocks are those of the requests that load
\* or store them: no block is pinned for ever and none in use can be evicted.
CountsMatchTransfers ==
    \A h \in Stored(mgr) : mgr.ref[h] =
        IF \E r \in DOMAIN storing : h \in storing[r] THEN -1
        ELSE Cardinality({r \in Reqs : h \in loading[r]})

\* No assertion of the connector, its manager or the scheduler fails.
NeverRaises == ~raised

\* Every load is reported to the scheduler and releases the CPU blocks it reads,
\* also when its request has gone, and the blocks of a request that finished
\* while it was storing are freed in the end, unless the engine runs out of
\* requests first: an idle engine makes no step in which the worker could submit
\* a deferred store or report a copy that has ended.
Idle ==
    /\ finishedIds = {} /\ inflight = <<>> /\ launched = <<>> /\ results = <<>>
    /\ \A r \in Reqs : status[r] \in {"held", "gone"}
TransfersAreReported ==
    \A r \in Reqs :
        LET done == loading[r] = {} /\ status[r] # "held"
        IN  ~done ~> done \/ Idle
=============================================================================
