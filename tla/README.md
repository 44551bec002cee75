# A TLA+ model of the vLLM V1 engine

This directory holds TLA+ modules for the parts of the vLLM V1 engine that keep state and
run concurrently: the KV cache, the scheduler in its engine loop, offloading of KV blocks,
the shared-memory message queue between processes, and the waves of data parallel
engines. TLC configurations check them on small instances, and TLAPS proves the main
safety properties of the KV cache manager, the message queue and the waves for all values
of the constants. `PROJECT.json` says which lines of the source each definition models.

## The system

A request reaches `EngineCore`, which runs one loop. The loop reads its input, calls
`Scheduler.schedule()`, submits the resulting batch to the workers and hands the output
of the oldest batch to `Scheduler.update_from_output()`. With a batch queue (pipeline
parallelism, or asynchronous scheduling) several batches are on the fly, so a step is
scheduled before the outputs of the last ones are known.

The scheduler gives every request of a step slots in the KV cache.
`KVCacheManager` → `KVCacheCoordinator` → `SingleTypeKVCacheManager` → `BlockPool` →
`FreeKVCacheBlockQueue` are the layers of that cache. A block holds the KV entries of
`block_size` tokens. Full blocks are hashed and put into the prefix cache, so that other
requests with the same tokens reuse them. A block nobody references waits in the free
queue, still cached, until it is handed out again and evicted. When there is no room, a
running request is preempted: it loses its blocks and starts again later.

A KV connector can provide tokens from elsewhere: synchronously, or asynchronously while
the request waits. Loads can fail, and blocks can stay in use for sending after a request
is finished. The offloading connector is one: it copies blocks to the memory of the CPU
beside the forward passes and loads them again for later requests. Its scheduler half
keeps the book (`OffloadingManager`), its worker half submits and collects the copies, and
the two exchange messages only with the steps and their outputs.

The processes of an engine talk through `MessageQueue`: a writer and its local readers
share a ring of chunks and synchronise by flags alone; large objects and remote readers
use sockets.

Data parallel engines of a mixture-of-experts model run their forward passes together.
They pause when none has work, and a `DPCoordinator` wakes them for the next wave, on news
from the front ends and the engines that may be late.

### Inventory

| Part | Source | State here |
|---|---|---|
| Free block queue | `v1/core/kv_cache_utils.py` | `FreeBlockQueue`, `FreeQueue` |
| Block pool, prefix cache | `v1/core/block_pool.py` | `BlockPool` |
| Block tables, full attention and sliding window | `v1/core/single_type_kv_cache_manager.py` | `SingleTypeKVCacheManager` |
| Chunked-local, Mamba, cross and sink managers | same file | not modelled |
| Coordinator | `v1/core/kv_cache_coordinator.py` | one group |
| KV cache manager | `v1/core/kv_cache_manager.py` | `SingleTypeKVCacheManager`, `KVCacheManager` |
| Scheduler, async scheduler, queues | `v1/core/sched/` | `Scheduler` (partly) |
| Engine loop | `v1/engine/core.py` | `Scheduler` (partly) |
| Worker | `v1/worker/gpu_model_runner.py` | what it samples and stores, in `Scheduler` |
| Encoder cache | `v1/core/encoder_cache_manager.py` | not modelled |
| Offloading: LRU manager, CPU backend, connector, worker | `v1/kv_offload`, `distributed/kv_transfer` | `OffloadingManager`, `Offloading` |
| ARC manager, other connectors | same directories | not modelled |
| Shared-memory ring | `distributed/device_communicators/shm_broadcast.py` | `Broadcast`, `ShmBroadcast` |
| Data parallel waves | `v1/engine/coordinator.py`, `core.py`, `core_client.py` | `DPWaves` |
| Output processing, the rest of the client, executors | `v1/engine/`, `v1/executor/` | not modelled |
| Models, kernels, compilation, entry points, parsers, configuration, metrics | elsewhere | not modelled: numerical code, text processing or I/O |

`PROJECT.json` has the full list of components, and the hazards of the code with the
properties that cover them.

## The modules

**`FreeQueue`** is an abstract queue: take the first block or a given one, put one last.

**`FreeBlockQueue`** is `FreeKVCacheBlockQueue`: `nxt` and `prv` are the links of the
blocks and of the two fake nodes, `num` is `num_free_blocks`. `popleft_n` and `append_n`
take one action per iteration (`PopOne`, `AppendOne`), the other methods one action. The
caller removes only blocks of the list and appends only blocks it holds, as `BlockPool`
does. `IsQueue` is the refinement to `FreeQueue`.

**`BlockPool`** has the methods of `BlockPool` as operators from a record to a record:
free queue, reference counts, hashes, the map of the prefix cache, and the effect of the
KV cache events. The map keeps several blocks per hash, as the code does. Assertions and
ValueErrors set the field `err`. The null block is a separate value.

**`SingleTypeKVCacheManager`** adds the block tables and `num_cached_block`, prefix
lookup for full attention and sliding windows, and `allocate_slots` step by step. With one
KV cache group the coordinator only forwards calls, so it has no module.

**`KVCacheManager`** is a state machine whose actions are the ways in which the scheduler
calls the manager. It decides nothing: any request may be served next. Its variables are
the record and, for each request, status, tokens, computed tokens and block hashes.
`Async` selects AsyncScheduler: up to `MaxPlaceholders` output tokens are then scheduled
before they are known, each with the `NumSpec` draft tokens behind it counted on top.

| Action | Code |
|---|---|
| `AddRequest` | `add_request` |
| `StartRequest`, `StartLoad`, `StartLoaded` | the waiting loop of `schedule()`: without or with synchronous external tokens; asynchronous load; a request whose load is over |
| `LoadDone`, `LoadFailed` | `_update_waiting_for_remote_kv` |
| `ContinueRequest` | the running loop |
| `Output`, `AsyncOutput`, `LateOutput` | `update_from_output`: synchronous, asynchronous, for a preempted request |
| `Preempt` | `_preempt_request` |
| `Finish`, `SendDone` | `finish_requests` and stopped requests, with `_free_request`, whose connector may keep the blocks (`FreeRequest`); `_update_from_kv_xfer_finished` |
| `FailLoad`, `RecomputeLoad` | `_handle_invalid_blocks` under the two values of `kv_load_failure_policy`; a failed request goes through `FreeRequest` too |
| `Reset` | `reset_prefix_cache` |

**`Scheduler`** is the scheduler in its engine loop. One call of `schedule()` is a
sequence of actions, one per call of the KV cache manager. The record `step` holds the
local variables in between, and nothing interleaves inside a call. Requests arrive and
the cache is reset where the loop reads its input; aborts also happen just before an
output is processed, as in `_process_aborts_queue`. `Async` selects `AsyncScheduler`,
`Depth` is the size of the batch queue, `Policy` is FCFS or PRIORITY.

The worker appears through `known` (its own token count, which decides whether it
samples) and `mem` (for each block, the token prefix whose KV entries it holds). With
`mem` one can say that a request attends to its own tokens only.

`Scheduler` refines `KVCacheManager` (`CallsAllowed`), so what is proved about the latter
holds for the calls of the former, on the instances checked.

**`Broadcast`** is what the message queue promises: every local reader gets every object,
once and in order, and the writer is never more than `Capacity` objects ahead of one. A
remote reader gets what is due to it, in order; an object is lost for it only when it is
sent while `Backlog` others wait for that reader.

**`ShmBroadcast`** is `MessageQueue` over `ShmRingBuffer`. Every read and write of a flag
is an action, and so are the beginning and the end of writing a chunk; in between its bytes
are `Torn`. `Enqueue` to `SendRemote` are the steps of `enqueue` and `acquire_write`,
`ReadOwnFlag` to `Recv` those of `dequeue` and `acquire_read`. An object may be too big for
a chunk: then a marker goes into the ring and the object through a publish socket, which
drops messages for a subscriber that is `SendHWM` behind. `IsBroadcast` is the refinement
to `Broadcast`, with fairness.

**`DPWaves`** has the front ends (`DPAsyncMPClient.add_request_async` and its stats task),
the coordinator (`process_input_socket`: `HandleFront`, `HandleBack`, `PublishStats`) and
the engines (`DPEngineCoreProc`: `HandleClientRequest`, `BeginStep`, `ForwardPass`,
`AllReduce`). Each pair of processes has a FIFO channel, and nothing orders the channels.
Forward passes and the all-reduce are collectives: one action of all engines. A request
may fail in the input thread of its engine (`RejectRequest`, at most `MaxDropped` times).
The history variables `dropped` and `renamed` record the two ways in which an exclusion from
START_DP_WAVE can be wrong: the request it is for failed, or the front end told the
coordinator about it with a later wave than the one the request was sent in.

**`OffloadingManager`** has `LRUOffloadingManager` on top of `CPUBackend` as operators on a
record: recency order, reference counts, addresses, the stack of free CPU blocks.

**`Offloading`** composes it with the scheduler half of the connector, a scheduler, the
steps on their way, the worker half and the copies.

| Action | Code |
|---|---|
| `ScheduleRunning`, `Preempt`, `AdmitNew`, `AdmitLoad`, `AdmitLoaded`, `AdmitBlocked`, `Received` | one request in `schedule()`, with `get_num_new_matched_tokens` and `update_state_after_alloc` |
| `Dispatch` | the end of `schedule()`: `build_connector_meta`, `_get_reqs_to_store` |
| `Abort`, `UpdateFromOutput` | `_free_request` with `request_finished`; `update_from_output` with `update_connector_output` and `_update_from_kv_xfer_finished` |
| `HandlePreemptions`, `StartTransfers`, `Forward` | the worker: waiting for stores of preempted requests, submitting, launching the pass, `prepare_store_kv`, `get_finished` |
| `RunPass`, `RunStore`, `RunLoad` | the GPU: passes in the order of their launch, copies of each direction in the order of their submission |

`gpu` and `cpu` are the contents of the blocks, so one can say that a copy or a pass reads
what it should. Which requests a step takes, with how many tokens, and which running request
is preempted is left open: `Next` includes the steps of both policies, PRIORITY's preemption
of a request that is already in the step among them. `FcfsSpec` keeps to the order of
arrival, so that a violation is one of the first come first served policy.

A store waits for the passes that were launched before it (`after`), a load waits for
nothing, as in `transfer_async`. So a load can run when its request has been aborted, or
while a pass that was launched before still uses its blocks. The history variable `stray`
records the two cases (`"late"`, `"early"`).

## The runs

States are distinct states, times are for two workers.

| Run | Instance | Shows |
|---|---|---|
| `free_queue` | 4 blocks | 981 states: the list is consistent in both directions, no method raises, and it implements the queue |
| `kv_full` | 2 requests, 3 blocks of 2 tokens, 5 tokens, AsyncScheduler with a draft token as client, connector, recompute policy | 223,891 states (75 s): counts, map, events, private writes, common prefix, blocks for all computed tokens |
| `kv_window` | the same with a window of 2, a pipelined Scheduler as client, a draft token, fail policy | 270,156 states (90 s): tables with holes, no draft token is cached |
| `sched_sync` | 3 requests, 4 blocks, budget 2, one batch | 165,458 states (90 s): contents of the cache, queues, order, resets, calls |
| `sched_async` | 3 requests, 4 blocks, budget 5, PRIORITY policy, two batches, AsyncScheduler | 197,214 states (170 s): exact outputs and placeholders, the assertions of `schedule()`, calls, and every request finishes |
| `ring` | 2 chunks, 2 local readers, 1 remote one, sockets of 3 messages, 4 objects of either size | 122,898 states (90 s): the flag protocol is a broadcast, also under fairness; the socket of a local reader is never full; `enqueue` returns |
| `dp_waves` | 2 engines, 1 front end, 2 requests of 1 or 2 passes, an all-reduce every second pass | 65,855 states (55 s): collectives stay aligned; while exclusions are true nobody is left out of a wave, every request is served, all pause |
| `offload` | 2 requests with a common first block, 3 GPU blocks, 2 CPU blocks, two steps on the fly | 439,492 states (165 s): stores copy the right contents, passes read the right ones unless a load was stray, counts are exact, nothing raises, transfers are reported |

Four runs end in a violation. Each checks one statement that a comment or docstring of the
code makes; `findings` in `PROJECT.json` quotes it.

* `sched_priority_context`: a request preempted in the step in which it was scheduled
  leaves blocks in the prefix cache that were never computed.
* `sched_pipeline`: with three pipeline stages a request that was preempted while its
  output is on the fly can be admitted again before the output arrives. It computes the
  same position again, and its answer holds the token twice. It takes a third batch: one
  with the request, one in which it is preempted, one in which it is admitted. With
  `Depth = 2` the same configuration has no such behaviour.
* `dp_waves_excluded`: the coordinator does not wake the engine that got the first
  request. When that request fails in the engine's input thread the engine stays idle, and
  the others wait in their pass. With `MaxDropped = 0` a late FIRST_REQ does the same.
* `offload_context`: a request is aborted while its last pass is still to be executed. It
  stores nothing, so its blocks are free at once, and another request loads into them. The
  load does not wait for the pass; the pass then overwrites what was loaded.

The two history premises belong to the last two: `NoneLeftBehind`, `AllServed` and `AllPause`
assume `ExclusionsTrue`, and `ContextKept` and `SavedBeforeOverwritten` assume that no load
was stray (the latter only that none was late). Without them TLC violates each of these
safety properties, so the premises name exactly where the code does not deliver.

Five more disagreements lie just outside the instances of the passing runs. A change of
constants shows the first four of them, and one more action the last:

* `kv_window` with `FullLoads = TRUE`, `ComputedTokensHaveBlocks`: a
  connector provides a whole prompt, and the last token is taken back to be computed. The
  blocks of the window were chosen for one token more, so the window of that token can
  begin in a hole.
* `kv_window` with `LoadErrors = "recompute"`, the same property: a failed load takes the
  request back to the tokens in front of the invalid block, which may lie in holes.
* `sched_async` with `ForcedResets = TRUE`, `OutputExact`: a forced reset discards the next
  output of a request that has none on the fly.
* `kv_window` with `Async = TRUE` and `MaxPlaceholders = 2`, `ComputedTokensHaveBlocks`:
  blocks in front of the window are freed by a count that includes draft tokens nobody has
  verified; when they are rejected the window begins in a freed block.
* `offload_context` with two CPU blocks and an action that preempts all running requests
  between two steps, as a forced reset does, `SavedBeforeOverwritten`: the worker is not told, so a deferred
  store copies blocks that were given away.

### Bounds

Two requests with a common first block, and three blocks, are the least with which hits,
duplicates of a hash, eviction of hits, failed allocation and preemption all happen. Five
tokens in blocks of two give two full blocks and a partial one. The scheduler runs have
three requests, two with the same prompt, on four blocks: they cannot all run, so
preemption is reached. `Eos` lets one request stop early. Named bounds are `MaxTokens`
(tokens of a request) and `MaxResets`. `Prompt`, `OutLimit` and `MaxModelLen` end every
request, so the scheduler runs have final states and check no deadlock; the runs of
`KVCacheManager` and `FreeBlockQueue` do. The `KVCacheManager` runs use symmetry in
blocks and requests, which no property or action tells apart; the scheduler runs do not,
as blocks and requests are ordered there.

In `ring` four objects go round two chunks twice, so every chunk is reused, and the writer
can be a whole round ahead (`MaxObjects` is the bound); they are one more than a socket
keeps, so the remote reader can lose one. In `dp_waves` two requests can fall
into one wave, two waves, or the end of one; `MaxRequests`, `MaxPasses` and `MaxDropped` are
the bounds, and `SyncEvery` is 2 in place of 32, so that an all-reduce can find work or
none. In `offload` the second CPU block must be evicted to store a third, three GPU blocks
make the requests preempt each other and take over each other's blocks while copies and
passes are on their way, and with `Depth` 2 a step is scheduled before the
copies of the last one are known; `MaxChunk` bounds the tokens of a request in a step.
These three end when there is nothing left to do and check no deadlock; their liveness
properties take its place.

### Fairness

`AllFinish` assumes weak fairness of `EngineStep`, the disjunction of all actions of the
engine loop: the loop runs in its own thread, never waits while there is work, and every
batch submitted to the workers returns. No fairness is assumed of arrivals, aborts or
resets. `FairSpec` writes it with `Busy` in place of `ENABLED EngineStep`.

`ShmBroadcast` has weak fairness of the writer inside `enqueue` and of each reader: their
loops spin and yield, and readers call `dequeue` in a loop. Nobody has to call `enqueue`.

`DPWaves` has weak fairness of every process, and strong fairness of an engine's handling
of its messages: the busy loop empties its input queue between any two steps, but a step
disables handling, so weak fairness alone would let it pass a message over for ever. Nobody
has to send a request.

`Offloading` has weak fairness of the worker, of the passes and of the copies, and of `Dispatch` and
`UpdateFromOutput`, since the engine loop goes on while there are requests. For the last two
it is spelled out with their guards. An engine without requests makes no step; that is why
`TransfersAreReported` has the disjunct `Idle`.

## The proofs

`BlockPoolProofs` has lemmas about the operators on sequences (`Without`, `Only`,
`Count`). `KVInvariantProofs` has the invariant of the KV cache and the lemmas for the
operations that give blocks back, `KVBlockProofs` those that add blocks to tables or to the
prefix cache, `KVAllocationProofs` lookup and `allocate_slots`. `KVCacheManagerProofs`
proves, for all finite sets of blocks and requests, all
block sizes, windows and hash chains, and every client of `KVCacheManager`:

* `TypeCorrect`: `Spec => []TypeOK`
* `ReferenceCounting`: `Spec => []RefCountsExact`
* `CacheConsistent`: `Spec => []CacheMapExact`
* `WritesArePrivate`: `Spec => []WritableBlocksPrivate`

They follow from one inductive invariant, `IInv`: the types, `KVOK(kv)`, and that a
request with n tokens has n ÷ BlockSize hashes. `KVOK` joins the properties above because
none is inductive alone. That a block enters the free queue once needs exact counts;
exact counts after `allocate_slots` need that the hits it touches are distinct, which
comes from the map agreeing with the hashes and from the chaining of hashes; that a
newly cached block was not cached before needs that blocks behind `num_cached_block` are
private. Each method has a lemma that it preserves `KVOK`, and the step lemma has one
case for each action. The assumptions are those of the modules: finite sets, a positive
block size, a null block outside `Blocks`, and hash chains without collisions.

`ShmBroadcastInvariant` has the invariant of the ring and the steps of the writer, and
`ShmBroadcastProofs` the steps of the readers and the theorems. It proves for any number of readers, chunks and objects:

* `SocketBounded`: `SafeSpec => []SocketNeverFull`
* `ChunkKept`: `SafeSpec => ReaderKeepsChunk`
* `ImplementsBroadcast`: `SafeSpec => B!SafeSpec`, the safety part of `IsBroadcast`

Its invariant counts objects. `RingOK` says that object k is in chunk k mod `MaxChunks` from
its publication until object k + `MaxChunks` takes the chunk, and that a reader's flag on
it is set exactly when the reader has gone past k. `ReaderOK` bounds the distance of writer
and reader by `MaxChunks`, which needs the flags, and the flags need the distance; hence one
invariant. `SocketOK` says that a socket holds exactly the large objects that were sent and
not taken. The arithmetic is in the lemmas about `Slot`. The assumptions are
`RingAssumption`: at least one chunk, and a socket that holds more than `MaxChunks` messages
(1000 is the default of the library). Nothing bounds how far a remote reader is behind: when
its socket is full the object is dropped, which is the step `Lose` of `Broadcast`.

`DPWavesProofs` proves for any number of engines, front ends and requests, with requests
that fail and FIRST_REQ messages of any age:

* `EnginesInStep`: `SafeSpec => []PassesAligned`

`PassesAligned` is not inductive: an engine takes over the wave of a request or of
START_DP_WAVE. The invariant `WInv` adds that no message, view or coordinator is ahead of the
engines (`NobodyAhead`), and that step counters agree.

Only model-checked: the scheduler and its refinement, `NeverRaises`, `EventsSound`,
`CommonPrefixShared`, `ComputedTokensHaveBlocks`, `NoDraftsCached`,
`UsedBlocksStayCached`, the linked list, the offloading modules, `NoneLeftBehind`. Liveness
under fairness is out of the prover's reach: `AllFinish`, `EnqueueReturns`, the fairness of
`IsBroadcast`, `AllServed`, `AllPause`, `TransfersAreReported`.

## Abstractions

* Hash collisions, cache salts, LoRA and multimodal keys: hashes are distinct values.
* Contents of token lists except in `Scheduler`, where the model's answer is a function of
  request and position.
* In `Scheduler`: no connector, encoder inputs, draft tokens, grammars, LoRA limits,
  streaming sessions or pausing. `KVCacheManager` has the connector and draft tokens.
* A request that shares an invalid block with another one falls back to
  `num_cached_tokens`; `RecomputeLoad` models only the request that loads.
* `ShmBroadcast`: accesses to flags are seen in program order, which `memory_fence` is there
  for; no timeouts, no cancellation. A full socket drops the message for its reader only.
* `DPWaves`: one front end in the run; no aborts, no elastic scaling, no request counts.
* `Offloading`: full attention, a block is one token and an offloaded block is one GPU
  block, no GPU prefix caching (so no load waits for another one of the same block), LRU
  only, copies succeed. A pass reads and writes all its blocks in one step, and so does a
  copy. Stop conditions other than the length are covered by `Abort`. No forced resets.

## Not modelled

* The ARC manager: the connector touches the blocks it has just prepared, and `touch` of the
  ARC manager takes such a block out of `t1` before it moves it to the end of `t1`
  (`arc_manager.py:90`). The first store raises a KeyError, so there is no later behaviour
  to check.
* Encoder caches, draft tokens and streaming sessions in the scheduler, several KV cache
  groups, Mamba and chunked-local attention: each multiplies the states of a module that
  already takes minutes, and the layers they share with the rest are modelled.
* Other KV connectors: their state is in remote services and libraries.
* Executors: a failed worker ends the engine, so what they do beyond the message queue is
  start-up and shutdown.
* Output processing: detokenisation and streams, sequential per request.
* Elastic scaling: the code itself documents that requests can fail during it.
* Memory sizing at start-up, metrics, logging; models, kernels, compilation, entry points
  and parsers are numerical code, text processing or I/O.

Places in the code that deserve a model of their own and have none here, besides those in
`hazards`:

* `scheduler.py:2099`: invalid blocks of a failed load stay in the prefix cache until they
  are computed again.
* `scheduler.py:1287`: drafts are rejected while later steps of the request are on the fly.
* `scheduler.py:721`: requests whose loads are over hold blocks in the waiting queue, where
  nothing preempts them.
* `scheduler.py:956`, `:1490`: truncation and late stops of streaming sessions.
* `encoder_cache_manager.py:162`, `:406`: slot counters of the encoder caches.
* `arc_manager.py:160`, `:216`: evictions chosen before `prepare_store` gives up; failed
  stores.
* `multiproc_executor.py:356`: responses left in the queues of the other workers after one
  has failed.
* `core.py:1325`: a request aborted before its first pass, on the engine that
  START_DP_WAVE excludes.
* `offloading_connector.py:363`: a sliding window frees a block whose store is deferred.
