------------------------------ MODULE Scheduler ------------------------------
(***************************************************************************)
(* The scheduler of vllm/v1/core/sched/scheduler.py and async_scheduler.py *)
(* in the loop of vllm/v1/engine/core.py (step and step_with_batch_queue). *)
(*                                                                         *)
(* schedule(), update_from_output() and reset_prefix_cache() make several  *)
(* calls of the KV cache manager; each call is an action of its own, and   *)
(* the record step holds the local variables of the method in between.     *)
(* Nothing interleaves with them: requests arrive, are aborted and the     *)
(* cache is reset only where the engine loop reads its input.              *)
(*                                                                         *)
(* The worker is modelled by what it reads and writes.  The model answers  *)
(* a request deterministically: Token(r, p) is the token at position p of  *)
(* prompt and answer.  The KV entries of a block are modelled by mem[b],   *)
(* the token prefix up to the last position written in b: what is stored   *)
(* for a position depends on all tokens up to it.  Batches execute in the  *)
(* order in which they are submitted.                                      *)
(***************************************************************************)
EXTENDS SingleTypeKVCacheManager

CONSTANTS
    BlockOrder,     \* the blocks by block_id
    Prompt,         \* prompt_token_ids of every request
    OutLimit,       \* max_tokens of every request
    Eos,            \* the length of the answer the model ends with EOS
    Policy,         \* "fcfs" or "priority"
    Priority,       \* priority of every request, the arrival time included
    MaxNumSeqs,     \* max_num_running_reqs
    MaxBatchTokens, \* max_num_scheduled_tokens
    LongPrefill,    \* long_prefill_token_threshold, or 0
    Chunked,        \* enable_chunked_prefill
    Async,          \* AsyncScheduler instead of Scheduler
    UsePP,          \* pipeline_parallel_size > 1
    Depth,          \* batch_queue_size, or 1 without a batch queue
    MaxResets,      \* bound: calls of reset_prefix_cache
    ForcedResets    \* whether it is called with reset_running_requests

ASSUME SchedulerAssumption ==
    /\ Range(BlockOrder) = Blocks /\ NoDup(BlockOrder)
    /\ \A r \in Reqs : /\ Len(Prompt[r]) \in 1 .. MaxModelLen - 1
                       /\ OutLimit[r] >= 1
    /\ \A r, q \in Reqs : Priority[r] = Priority[q] => r = q
    /\ MaxNumSeqs >= 1 /\ MaxBatchTokens >= 1 /\ Depth >= 1

VARIABLES
    kv,         \* the KV cache manager
    status,     \* RequestStatus of every request
    toks,       \* _all_token_ids
    ncomp,      \* num_computed_tokens
    ph,         \* num_output_placeholders
    discard,    \* discard_latest_async_tokens
    running,    \* Scheduler.running
    waiting,    \* Scheduler.waiting, in the order in which it is popped
    inflight,   \* EngineCore.batch_queue, oldest batch first
    known,      \* num_tokens of the request in the worker
    mem,        \* the contents of the KV cache
    resets,     \* calls of reset_prefix_cache so far
    flush,      \* finished_req_ids is not empty
    step        \* the local variables of the method that is running

reqVars == <<status, toks, ncomp, ph, discard>>
queues == <<running, waiting>>
worker == <<inflight, known, mem>>
vars == <<kv, reqVars, queues, worker, resets, flush, step>>

NoToken == 0

\* Where the engine loop reads its input.
Idle == [pc |-> "idle", idx |-> 0, budget |-> 0, sched |-> [r \in Reqs |-> 0],
         preempted |-> FALSE, cur |-> Null, want |-> 0]

-----------------------------------------------------------------------------
(* Requests and queues. *)

\* The model: the token at position p of prompt and answer.
Token(r, p) == IF p <= Len(Prompt[r]) THEN Prompt[r][p] ELSE 100 + p
Text(r, n) == [p \in 1..n |-> Token(r, p)]

\* Request.block_hashes: a block hash stands for all tokens up to the end of
\* its block.
BlockHashes(s) == [i \in 1 .. Len(s) \div BlockSize |-> SubSeq(s, 1, i * BlockSize)]

\* check_stop for a request whose tokens are s.
CheckStop(r, s) ==
    LET out == Len(s) - Len(Prompt[r])
    IN  out = Eos[r] \/ Len(s) >= MaxModelLen \/ out >= OutLimit[r]

\* The heap of PriorityRequestQueue, as the sequence in which it is popped.
InsertByPriority(q, r) ==
    LET k == Cardinality({i \in DOMAIN q : Priority[q[i]] < Priority[r]})
    IN  SubSeq(q, 1, k) \o <<r>> \o SubSeq(q, k + 1, Len(q))

\* add_request and prepend_request of the queue.
Enqueue(q, r) == IF Policy = "fcfs" THEN Append(q, r) ELSE InsertByPriority(q, r)

\* Mutant of Requeue: a preempted request joins the tail.
RequeueLast(q, r) == Append(q, r)

Requeue(q, r) == IF Policy = "fcfs" THEN <<r>> \o q ELSE InsertByPriority(q, r)

\* The arguments of allocate_slots for request r.
Call(r, hits, new) ==
    [hs |-> BlockHashes(toks[r]), ntok |-> Len(toks[r]), comp |-> ncomp[r],
     hits |-> hits, ext |-> 0, new |-> new, look |-> 0, delay |-> FALSE]

Init ==
    /\ kv = FreshKV(BlockOrder)
    /\ status = [r \in Reqs |-> "absent"]
    /\ toks = [r \in Reqs |-> Prompt[r]]
    /\ ncomp = [r \in Reqs |-> 0]
    /\ ph = [r \in Reqs |-> 0]
    /\ discard = [r \in Reqs |-> FALSE]
    /\ running = <<>> /\ waiting = <<>>
    /\ inflight = <<>>
    /\ known = [r \in Reqs |-> 0]
    /\ mem = [b \in Blocks |-> <<>>]
    /\ resets = 0
    /\ flush = FALSE
    /\ step = Idle

-----------------------------------------------------------------------------
(* The worker. *)

\* A block nobody can find or use any more, and a block that is handed out
\* anew, holds nothing of use.
Forget(k, except) ==
    [b \in Blocks |->
        IF \/ k.ref[b] = 0 /\ k.hash[b] = NoHash
           \/ k.ref[b] > 0 /\ kv.ref[b] = 0 /\ b \notin except
        THEN <<>> ELSE mem[b]]

\* The positions ncomp[r]+1 .. comp[r] of request r are computed and stored.
Written(comp) ==
    LET at(b) == {<<r, i>> \in Reqs \X (1..MaxModelLen) :
                    /\ i \in DOMAIN kv.table[r]
                    /\ kv.table[r][i] = b
                    /\ ncomp[r] < comp[r]
                    /\ ncomp[r] < i * BlockSize
                    /\ comp[r] > (i - 1) * BlockSize}
    IN  [b \in Blocks |->
            IF at(b) = {} THEN mem[b]
            ELSE LET w == CHOOSE w \in at(b) : TRUE
                 IN  Text(w[1], Min2(comp[w[1]], w[2] * BlockSize))]

-----------------------------------------------------------------------------
(* Input of the engine loop. *)

\* add_request.
AddRequest(r) ==
    /\ step.pc = "idle"
    /\ status[r] = "absent"
    /\ status' = [status EXCEPT ![r] = "waiting"]
    /\ waiting' = Enqueue(waiting, r)
    /\ UNCHANGED <<kv, toks, ncomp, ph, discard, running, worker, resets, flush, step>>

\* Mutant of Leave: only the running queue is cleaned.
LeaveRunning(r) ==
    /\ kv' = Free(kv, r)
    /\ status' = [status EXCEPT ![r] = "finished"]
    /\ ncomp' = [ncomp EXCEPT ![r] = 0]
    /\ ph' = [ph EXCEPT ![r] = 0]
    /\ discard' = [discard EXCEPT ![r] = FALSE]
    /\ known' = [known EXCEPT ![r] = 0]
    /\ mem' = Forget(kv', {})
    /\ flush' = TRUE
    /\ running' = Without(running, {r})
    /\ UNCHANGED waiting

\* _free_request and the removal from the queues.
Leave(r) ==
    /\ kv' = Free(kv, r)
    /\ status' = [status EXCEPT ![r] = "finished"]
    /\ ncomp' = [ncomp EXCEPT ![r] = 0]
    /\ ph' = [ph EXCEPT ![r] = 0]
    /\ discard' = [discard EXCEPT ![r] = FALSE]
    /\ known' = [known EXCEPT ![r] = 0]
    /\ mem' = Forget(kv', {})
    /\ flush' = TRUE
    /\ running' = Without(running, {r})
    /\ waiting' = Without(waiting, {r})

\* finish_requests, also from _process_aborts_queue just before an output is
\* processed.
Abort(r) ==
    /\ step.pc \in {"idle", "result"}
    /\ status[r] \notin {"absent", "finished"}
    /\ Leave(r)
    /\ UNCHANGED <<toks, inflight, resets, step>>

\* Mutants of PreemptRequest: num_computed_tokens is not reset; the blocks are
\* not freed.
PreemptKeepingCount(r) ==
    /\ kv' = Free(kv, r)
    /\ status' = [status EXCEPT ![r] = "preempted"]
    /\ mem' = Forget(kv', {})
    /\ running' = Without(running, {r})
    /\ waiting' = Requeue(waiting, r)
    /\ UNCHANGED ncomp

PreemptKeepingBlocks(r) ==
    /\ status' = [status EXCEPT ![r] = "preempted"]
    /\ ncomp' = [ncomp EXCEPT ![r] = 0]
    /\ running' = Without(running, {r})
    /\ waiting' = Requeue(waiting, r)
    /\ UNCHANGED <<kv, mem>>

\* _preempt_request, on a request that left the running queue.
PreemptRequest(r) ==
    /\ kv' = Free(kv, r)
    /\ status' = [status EXCEPT ![r] = "preempted"]
    /\ ncomp' = [ncomp EXCEPT ![r] = 0]
    /\ mem' = Forget(kv', {})
    /\ running' = Without(running, {r})
    /\ waiting' = Requeue(waiting, r)

\* reset_prefix_cache without reset_running_requests.
ResetCache ==
    /\ step.pc = "idle" /\ resets < MaxResets
    /\ resets' = resets + 1
    /\ kv' = ResetPrefixCache(kv)
    /\ mem' = Forget(kv', {})
    /\ UNCHANGED <<reqVars, queues, inflight, known, step, flush>>

\* reset_prefix_cache with reset_running_requests: the running requests are
\* preempted, the last one first, then the cache is reset.
BeginReset ==
    /\ step.pc = "idle" /\ resets < MaxResets /\ ForcedResets
    /\ resets' = resets + 1
    /\ step' = [step EXCEPT !.pc = "reset"]
    /\ UNCHANGED <<kv, reqVars, queues, worker, flush>>

ResetRunning ==
    /\ step.pc = "reset" /\ running # <<>>
    /\ LET r == running[Len(running)]
       IN  /\ PreemptRequest(r)
           /\ ph' = [ph EXCEPT ![r] = 0]
           /\ discard' = [discard EXCEPT ![r] = TRUE]
    /\ UNCHANGED <<toks, inflight, known, resets, flush, step>>

FinishReset ==
    /\ step.pc = "reset" /\ running = <<>>
    /\ kv' = ResetPrefixCache(kv)
    /\ mem' = Forget(kv', {})
    /\ step' = Idle
    /\ UNCHANGED <<reqVars, queues, inflight, known, resets, flush>>

-----------------------------------------------------------------------------
(* schedule(): the running requests. *)

\* has_requests: there are requests, or finished ones to tell the worker about.
HasRequests == running \o waiting # <<>> \/ flush

BeginSchedule ==
    /\ step.pc = "idle"
    /\ HasRequests
    /\ step' = [Idle EXCEPT !.pc = "running", !.idx = 1, !.budget = MaxBatchTokens]
    /\ UNCHANGED <<kv, reqVars, queues, worker, resets, flush>>

Threshold(n) == IF 0 < LongPrefill /\ LongPrefill < n THEN LongPrefill ELSE n

\* Mutant of NumNewTokens: the budget is not respected.
NumNewUnbounded(r) == Len(toks[r]) + ph[r] - ncomp[r]

\* num_new_tokens of a running request.
NumNewTokens(r) ==
    Min2(Min2(Threshold(Len(toks[r]) + ph[r] - ncomp[r]), step.budget),
         MaxModelLen - 1 - ncomp[r])

\* Mutant of LastTokenOnTheFly: the first conjunct is missing.
LastTokenSoon(r) == ncomp[r] + 2 - ph[r] >= Len(Prompt[r]) + OutLimit[r]

\* AsyncScheduler: the step on the fly reaches max_tokens.
LastTokenOnTheFly(r) ==
    ph[r] > 0 /\ ncomp[r] + 2 - ph[r] >= Len(Prompt[r]) + OutLimit[r]

Skipped(r) ==
    \/ UsePP /\ ph[r] > 0
    \/ LastTokenOnTheFly(r)
    \/ NumNewTokens(r) = 0

\* The next running request is skipped, or goes on to allocate_slots.
PickRunning ==
    /\ step.pc = "running"
    /\ step.idx <= Len(running) /\ step.budget > 0
    /\ LET r == running[step.idx]
       IN  step' = IF Skipped(r)
                   THEN [step EXCEPT !.idx = @ + 1]
                   ELSE [step EXCEPT !.pc = "allocate", !.cur = r,
                                     !.want = NumNewTokens(r)]
    /\ UNCHANGED <<kv, reqVars, queues, worker, resets, flush>>

\* allocate_slots for a running request; without room a request is preempted.
AllocateRunning ==
    /\ step.pc = "allocate"
    /\ LET r == step.cur
           a == Call(r, <<>>, step.want)
       IN  /\ kv' = AllocateSlots(kv, r, a)
           /\ mem' = Forget(kv', {})
           /\ step' = IF CanAllocate(kv, r, a)
                      THEN [step EXCEPT !.pc = "running", !.idx = @ + 1,
                                        !.budget = @ - step.want,
                                        !.sched[r] = step.want,
                                        !.cur = Null, !.want = 0]
                      ELSE [step EXCEPT !.pc = "preempt"]
    /\ UNCHANGED <<reqVars, queues, inflight, known, resets, flush>>

\* The request that has to make room.
Victim ==
    IF Policy = "fcfs"
    THEN running[Len(running)]
    ELSE CHOOSE r \in Range(running) :
            \A q \in Range(running) : Priority[q] <= Priority[r]

\* Mutant of PreemptRunning: the budget of the victim is lost.
PreemptWithoutRefund ==
    /\ step.pc = "preempt"
    /\ LET v == Victim
       IN  /\ PreemptRequest(v)
           /\ step' = [step EXCEPT !.pc = IF v = step.cur THEN "finish" ELSE "allocate",
                                   !.preempted = TRUE,
                                   !.sched[v] = 0,
                                   !.idx = IF step.sched[v] > 0 THEN @ - 1 ELSE @]
    /\ UNCHANGED <<toks, ph, discard, inflight, known, resets, flush>>

\* It loses what was scheduled for it in this step.  The loop tries again
\* unless the request has preempted itself.
PreemptRunning ==
    /\ step.pc = "preempt"
    /\ LET v == Victim
           undo == step.sched[v] > 0
           again == [step EXCEPT !.pc = IF v = step.cur THEN "finish" ELSE "allocate",
                                 !.preempted = TRUE,
                                 !.budget = @ + step.sched[v],
                                 !.sched[v] = 0,
                                 !.idx = IF undo THEN @ - 1 ELSE @]
       IN  /\ PreemptRequest(v)
           /\ step' = again
    /\ UNCHANGED <<toks, ph, discard, inflight, known, resets, flush>>

\* The loop ends; waiting requests are considered only when nothing was
\* preempted.
EndRunning ==
    /\ step.pc = "running"
    /\ step.idx > Len(running) \/ step.budget = 0
    /\ step' = [step EXCEPT !.pc = IF step.preempted THEN "finish" ELSE "waiting",
                            !.idx = 0]
    /\ UNCHANGED <<kv, reqVars, queues, worker, resets, flush>>

-----------------------------------------------------------------------------
(* schedule(): the waiting requests. *)

\* What a waiting request finds in the prefix cache, and the tokens it lacks.
Hits(r) == GetComputedBlocks(kv, BlockHashes(toks[r]), Len(toks[r]))
Missing(r) == Threshold(Len(toks[r]) - Len(Hits(r)) * BlockSize)
FirstCall(r) == Call(r, Hits(r), Min2(Missing(r), step.budget))

\* The first waiting request may start: its prompt fits into the budget (or may
\* be chunked) and there is room for it.
Admits ==
    /\ waiting # <<>> /\ step.budget > 0
    /\ Len(running) # MaxNumSeqs
    /\ Chunked \/ Missing(Head(waiting)) <= step.budget
    /\ CanAllocate(kv, Head(waiting), FirstCall(Head(waiting)))

StartWaiting ==
    /\ step.pc = "waiting" /\ Admits
    /\ LET r == Head(waiting)
           new == Min2(Missing(r), step.budget)
       IN  /\ kv' = AllocateSlots(kv, r, FirstCall(r))
           /\ mem' = Forget(kv', Range(Hits(r)))
           /\ waiting' = Tail(waiting)
           /\ running' = Append(running, r)
           /\ status' = [status EXCEPT ![r] = "running"]
           /\ ncomp' = [ncomp EXCEPT ![r] = Len(Hits(r)) * BlockSize]
           /\ known' = [known EXCEPT ![r] = Len(toks[r])]
           /\ step' = [step EXCEPT !.budget = @ - new, !.sched[r] = new]
    /\ UNCHANGED <<toks, ph, discard, inflight, resets, flush>>

\* Otherwise the loop ends.  (A failed allocate_slots changes nothing for a
\* request without blocks.)
EndWaiting ==
    /\ step.pc = "waiting" /\ ~Admits
    /\ step' = [step EXCEPT !.pc = "finish"]
    /\ UNCHANGED <<kv, reqVars, queues, worker, resets, flush>>

-----------------------------------------------------------------------------
(* schedule(): the end, and the submission of the batch. *)

Scheduled == {r \in Reqs : step.sched[r] > 0}
Computed == [r \in Reqs |-> ncomp[r] + step.sched[r]]

\* The worker samples a token for a request unless tokens it knows are left.
Samples(r) == Computed[r] >= known[r]

\* The requests of the batch with the tokens the model returns for them.
Batch ==
    LET on == Only(running, Scheduled)
    IN  [i \in DOMAIN on |->
            [req |-> on[i],
             tok |-> IF Samples(on[i]) THEN Token(on[i], Computed[on[i]] + 1)
                     ELSE NoToken]]

\* Mutant of Placeholders: a partial prefill gets a placeholder too.
AlwaysPlaceholder(r) ==
    IF Async /\ r \in Scheduled THEN ph[r] + 1 ELSE ph[r]

\* AsyncScheduler._update_after_schedule.
Placeholders(r) ==
    IF Async /\ r \in Scheduled /\ Computed[r] = Len(toks[r]) + ph[r]
    THEN ph[r] + 1 ELSE ph[r]

\* The batch queue is not full with the batch of this step.
QueueHasRoom == Scheduled # {} /\ Len(inflight) + 1 < Depth

\* _update_after_schedule, execute_model and the batch queue: the engine loop
\* goes on to an output unless the queue has room and the oldest batch is not
\* done.
FinishSchedule ==
    /\ step.pc = "finish"
    /\ ncomp' = Computed
    /\ ph' = [r \in Reqs |-> Placeholders(r)]
    /\ known' = [r \in Reqs |->
                   IF r \in Scheduled /\ Samples(r) THEN Computed[r] + 1 ELSE known[r]]
    /\ mem' = Written(Computed)
    /\ inflight' = Append(inflight, Batch)
    /\ flush' = FALSE
    /\ \E pc \in {"result"} \cup IF QueueHasRoom THEN {"idle"} ELSE {} :
          step' = [Idle EXCEPT !.pc = pc]
    /\ UNCHANGED <<kv, status, toks, discard, queues, resets>>

\* Without requests the loop only waits for outputs.
Drain ==
    /\ step.pc = "idle"
    /\ ~HasRequests /\ inflight # <<>>
    /\ step' = [step EXCEPT !.pc = "result"]
    /\ UNCHANGED <<kv, reqVars, queues, worker, resets, flush>>

-----------------------------------------------------------------------------
(* update_from_output(), for the oldest batch. *)

BeginOutput ==
    /\ step.pc = "result"
    /\ step' = [step EXCEPT !.pc = "output"]
    /\ UNCHANGED <<kv, reqVars, queues, worker, resets, flush>>

\* The next entry of the batch.
Entry == Head(Head(inflight))
NextEntry == inflight' = <<Tail(Head(inflight))>> \o Tail(inflight)

\* Mutant of Gone: a preempted request gets no output either.
GoneOrPreempted(r) == status[r] \in {"finished", "preempted"}

\* The request is no longer in Scheduler.requests.
Gone(r) == status[r] = "finished"

\* Nothing to do for a request that is gone or still in its prefill.
SkipEntry ==
    /\ step.pc = "output" /\ Head(inflight) # <<>>
    /\ Gone(Entry.req) \/ Entry.tok = NoToken
    /\ NextEntry
    /\ UNCHANGED <<kv, reqVars, queues, known, mem, resets, flush, step>>

Discards(r) == Async /\ discard[r]

\* _update_request_with_output: the token is dropped after a forced
\* preemption; otherwise it is appended, and AsyncScheduler caches the blocks
\* it fills.  Preempted requests get their tokens too.
ProcessEntry ==
    /\ step.pc = "output" /\ Head(inflight) # <<>>
    /\ ~Gone(Entry.req) /\ Entry.tok # NoToken
    /\ NextEntry
    /\ LET r == Entry.req
           s == Append(toks[r], Entry.tok)
           holders == IF Async THEN ph[r] - 1 ELSE ph[r]
       IN  IF Discards(r)
           THEN /\ discard' = [discard EXCEPT ![r] = FALSE]
                /\ UNCHANGED <<kv, toks, ph, step>>
           ELSE /\ toks' = [toks EXCEPT ![r] = s]
                /\ ph' = [ph EXCEPT ![r] = holders]
                /\ kv' = IF Async /\ status[r] = "running"
                         THEN CacheBlocksIfEnabled(kv, r, BlockHashes(s),
                                                   ncomp[r] - holders)
                         ELSE kv
                /\ step' = IF CheckStop(r, s)
                           THEN [step EXCEPT !.pc = "stop", !.cur = r] ELSE step
                /\ UNCHANGED discard
    /\ UNCHANGED <<status, ncomp, queues, known, mem, resets, flush>>

\* A request that stopped is freed and leaves its queue.  (The code cleans the
\* queues once, behind the last entry; nothing reads them before.)
StopRequest ==
    /\ step.pc = "stop"
    /\ Leave(step.cur)
    /\ step' = [Idle EXCEPT !.pc = "output"]
    /\ UNCHANGED <<toks, inflight, resets>>

EndOutput ==
    /\ step.pc = "output" /\ Head(inflight) = <<>>
    /\ inflight' = Tail(inflight)
    /\ step' = Idle
    /\ UNCHANGED <<kv, reqVars, queues, known, mem, resets, flush>>

Input == \E r \in Reqs : AddRequest(r) \/ Abort(r)
ResetCalls == ResetCache \/ BeginReset
EngineStep ==
    \/ ResetRunning \/ FinishReset
    \/ BeginSchedule \/ PickRunning \/ AllocateRunning \/ PreemptRunning
    \/ EndRunning \/ StartWaiting \/ EndWaiting \/ FinishSchedule
    \/ Drain \/ BeginOutput \/ SkipEntry \/ ProcessEntry \/ StopRequest \/ EndOutput

Next == Input \/ ResetCalls \/ EngineStep

Spec == Init /\ [][Next]_vars

\* There is work for the engine loop: EngineStep is enabled.
Busy == step.pc # "idle" \/ HasRequests \/ inflight # <<>>

\* The engine loop never rests while there is work, and the worker finishes
\* every batch: weak fairness of EngineStep.  (Spelled out with Busy, which TLC
\* evaluates faster than ENABLED EngineStep.)
FairSpec == Spec /\ ([]<>~Busy \/ []<><<EngineStep>>_vars)

-----------------------------------------------------------------------------
(* Properties. *)

Live == {r \in Reqs : status[r] \notin {"absent", "finished"}}

\* The tokens on the fly of request r.
OnTheFly(r) ==
    Cardinality({<<i, j>> \in (1..Depth) \X (1..Cardinality(Reqs)) :
        /\ i \in DOMAIN inflight /\ j \in DOMAIN inflight[i]
        /\ inflight[i][j].req = r /\ inflight[i][j].tok # NoToken})

\* Type correctness of the scheduler's state.
TypeOK ==
    /\ kv \in KVRecord
    /\ status \in [Reqs -> {"absent", "waiting", "preempted", "running", "finished"}]
    /\ ncomp \in [Reqs -> Nat] /\ ph \in [Reqs -> Nat]
    /\ discard \in [Reqs -> BOOLEAN]
    /\ running \in Seq(Reqs) /\ waiting \in Seq(Reqs)
    /\ step.budget \in 0..MaxBatchTokens

\* Whatever is preempted, resumed, shared, evicted and written again, every
\* position that a scheduled request attends to holds the KV entry of its own
\* tokens once the batch has stored its entries (a layer stores all of them
\* before it attends, so requests of one batch may share a block).
ContextComputed ==
    step.pc = "finish" =>
    \A r \in Scheduled : \A i \in 1..CDiv(Computed[r]) :
        LET n == Min2(i * BlockSize, Computed[r])
            b == kv.table[r][i]
        IN  i > NumSkippedBlocks(ncomp[r]) =>
            /\ b # Null
            /\ Len(Written(Computed)[b]) >= n
            /\ SubSeq(Written(Computed)[b], 1, n) = Text(r, n)

\* The tokens of a request are the ones the model answers: no output is lost,
\* repeated or applied out of order by preemption, reset or pipelining.
OutputExact == \A r \in Reqs : toks[r] = Text(r, Len(toks[r]))

\* A request is in the queue that its status says, once, and in no other.
QueuesExact ==
    /\ NoDup(running \o waiting)
    /\ Range(running) = {r \in Reqs : status[r] = "running"}
    /\ Range(waiting) = {r \in Reqs : status[r] \in {"waiting", "preempted"}}

\* The assertions at the end of schedule() and in update_from_output: budget
\* and number of requests are respected, every scheduled request runs and has
\* tokens to compute.
ScheduleAsserts ==
    step.pc = "finish" =>
        /\ step.budget >= 0
        /\ step.budget + FoldFunction(+, 0, step.sched) = MaxBatchTokens
        /\ Len(running) <= MaxNumSeqs
        /\ Scheduled \subseteq Range(running)
        /\ \A r \in Reqs : step.sched[r] >= 0

\* No assertion of the KV cache manager is raised on the scheduler's calls.
NeverRaises == ~kv.err

\* AsyncScheduler: the tokens on the fly of a request are its placeholders, and
\* the one that is going to be discarded.
PlaceholdersExact ==
    Async /\ step.pc = "idle" =>
    \A r \in Live : OnTheFly(r) = ph[r] + IF discard[r] THEN 1 ELSE 0

\* FCFS: whatever starts, is preempted, resumes or leaves, no two requests
\* change their order (running first, then waiting).
NoOvertaking ==
    [][LET old == running \o waiting
           new == running' \o waiting'
       IN  Only(old, Range(new)) = Only(new, Range(old))]_vars

\* reset_prefix_cache cannot fail once all running requests are preempted.
ResetSucceeds == step.pc = "reset" /\ running = <<>> => CanReset(kv)

\* The engine loop never starves a request: every request that arrives
\* finishes, although it may be preempted any number of times.
AllFinish == \A r \in Reqs : status[r] = "waiting" ~> status[r] = "finished"

\* The scheduler is a client of the KV cache manager as KVCacheManager.tla
\* describes them: a token counts as computed when it is scheduled.
KV == INSTANCE KVCacheManager WITH
        status <- [r \in Reqs |-> CASE status[r] = "running" -> "running"
                                    [] status[r] \in {"waiting", "preempted"} -> "waiting"
                                    [] OTHER -> "absent"],
        ntok <- [r \in Reqs |-> IF r \in Live THEN Len(toks[r]) ELSE 0],
        ncomp <- Computed,
        bh <- [r \in Reqs |-> IF r \in Live THEN BlockHashes(toks[r]) ELSE <<>>],
        Chains <- {BlockHashes(Text(r, n)) : r \in Reqs, n \in 0..MaxModelLen},
        MaxTokens <- MaxModelLen, NumSpec <- 0, Lookahead <- 0,
        MaxPlaceholders <- IF Async THEN Depth ELSE 0,
        Connector <- FALSE, FullLoads <- FALSE, LoadErrors <- "never",
        Pipelined <- Depth > 1

\* Every call of the scheduler on the KV cache manager is one that the
\* theorems about KVCacheManager cover.
CallsAllowed == KV!Spec
=============================================================================
