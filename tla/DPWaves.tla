------------------------------- MODULE DPWaves -------------------------------
(* Data parallel waves.  The forward passes of the engines of a mixture-of- *)
(* experts model are collectives: an engine with work waits in its pass for *)
(* all the others, which run dummy passes.  When no engine has work they    *)
(* pause, and a DPCoordinator wakes them for the next wave.  Front ends     *)
(* send requests straight to the engines and tell the coordinator only when *)
(* they believe that the engines are paused.  Every pair of processes has a *)
(* FIFO channel of its own and nothing orders the channels.                 *)
EXTENDS Naturals, Sequences, FiniteSets

CONSTANTS NumEngines,  \* data_parallel_size
          Clients,     \* front ends (DPAsyncMPClient)
          SyncEvery,   \* passes between two finish-sync all-reduces (32)
          MaxRequests, \* bound: requests of all clients
          MaxPasses,   \* bound: passes a request needs
          MaxDropped   \* bound: requests that fail in preprocessing

ASSUME WavesAssumption ==
    /\ NumEngines \in Nat \ {0, 1} /\ SyncEvery \in Nat \ {0}
    /\ MaxRequests \in Nat /\ MaxPasses \in Nat \ {0} /\ MaxDropped \in Nat


Engines == 0..NumEngines - 1
NoEngine == NumEngines
Sources == Clients \cup {"coordinator"}
Requests == 1..MaxRequests

VARIABLES
    pc,        \* engine: "poll"ing its queue, in a "forward" pass, in the "reduce"
    wave,      \* engine: current_wave
    running,   \* engine: engines_running
    step,      \* engine: step_counter
    reqs,      \* engine: unfinished requests
    todo,      \* request -> passes until it is finished
    inbox,     \* [source][engine] -> messages for the engine's input thread
    cwave,     \* coordinator: current_wave
    crunning,  \* coordinator: engines_running
    front,     \* client -> its messages to the coordinator
    back,      \* engine -> its messages to the coordinator
    view,      \* client: its current_wave and engines_running
    task,      \* client: where its stats task is
    firstReq,  \* client: its FIRST_REQ messages to its own stats task; each with
               \* the wave its request carries (history)
    news,      \* client -> what the coordinator published
    numSent,   \* requests sent so far
    done,      \* requests that were finished
    dropped,   \* requests that failed in preprocessing
    renamed    \* history: a FIRST_REQ was passed on for another wave than the one
               \* its request carries

engineVars == <<pc, wave, running, step, reqs, todo>>
coordVars == <<cwave, crunning>>
clientVars == <<view, task, firstReq, numSent>>
history == <<done, dropped, renamed>>
vars == <<engineVars, inbox, coordVars, front, back, clientVars, news, history>>

Init ==
    /\ pc = [e \in Engines |-> "poll"]
    /\ wave = [e \in Engines |-> 0]
    /\ running = [e \in Engines |-> FALSE]
    /\ step = [e \in Engines |-> 0]
    /\ reqs = [e \in Engines |-> {}]
    /\ todo = [r \in Requests |-> 0]
    /\ inbox = [s \in Sources |-> [e \in Engines |-> <<>>]]
    /\ cwave = 0 /\ crunning = FALSE
    /\ front = [c \in Clients |-> <<>>]
    /\ back = [e \in Engines |-> <<>>]
    /\ view = [c \in Clients |-> [wave |-> 0, running |-> FALSE]]
    /\ task = [c \in Clients |-> "poll"]
    /\ firstReq = [c \in Clients |-> <<>>]
    /\ news = [c \in Clients |-> <<>>]
    /\ numSent = 0 /\ done = {} /\ dropped = {} /\ renamed = FALSE

(***************************************************************************)
(* A front end.                                                            *)
(***************************************************************************)

\* add_request_async; load balancing may choose any engine.
AddRequestAsync(c, e) ==
    /\ numSent < MaxRequests
    /\ numSent' = numSent + 1
    /\ inbox' = [inbox EXCEPT ![c][e] =
                   Append(@, [type |-> "add", req |-> numSent + 1,
                              wave |-> view[c].wave])]
    /\ firstReq' = IF view[c].running THEN firstReq
                   ELSE [firstReq EXCEPT ![c] =
                           Append(@, [engine |-> e, wave |-> view[c].wave])]
    /\ UNCHANGED <<engineVars, coordVars, front, back, view, task, news,
                   history>>

\* run_engine_stats_update_task: the poll returned.  A FIRST_REQ of this
\* process is visible at once; it is passed on, with the wave known now,
\* unless the coordinator's socket is ready too and the engines run ...
NotifyCoordinator(c) ==
    /\ task[c] = "poll" /\ firstReq[c] # <<>>
    /\ task' = [task EXCEPT ![c] = "notified"]
    /\ firstReq' = [firstReq EXCEPT ![c] = Tail(@)]
    /\ view' = [view EXCEPT ![c] = [wave |-> @.wave, running |-> TRUE]]
    /\ front' = [front EXCEPT ![c] =
                   Append(@, [engine |-> Head(firstReq[c]).engine,
                              wave |-> view[c].wave])]
    /\ renamed' = (renamed \/ Head(firstReq[c]).wave # view[c].wave)
    /\ UNCHANGED <<engineVars, inbox, coordVars, back, news, numSent, done, dropped>>

PollStats(c) ==
    /\ task[c] = "poll" /\ news[c] # <<>>
    /\ firstReq[c] = <<>> \/ view[c].running
    /\ task' = [task EXCEPT ![c] = "stats"]
    /\ UNCHANGED <<engineVars, inbox, coordVars, front, back, view, firstReq,
                   numSent, news, history>>

\* ... and then what has arrived from the coordinator is drained, the latest
\* message counts.  Other coroutines may have run in between.
DrainStats(c) ==
    /\ task[c] # "poll"
    /\ \E k \in 0..Len(news[c]) :
         /\ task[c] = "stats" => k > 0
         /\ view' = [view EXCEPT ![c] = IF k = 0 THEN @ ELSE news[c][k]]
         /\ news' = [news EXCEPT ![c] = SubSeq(@, k + 1, Len(@))]
    /\ task' = [task EXCEPT ![c] = "poll"]
    /\ UNCHANGED <<engineVars, inbox, coordVars, front, back, firstReq, numSent,
                   history>>

StatsTask(c) == NotifyCoordinator(c) \/ PollStats(c) \/ DrainStats(c)

(***************************************************************************)
(* The coordinator.                                                        *)
(***************************************************************************)

SendStartWave(w, exclude) ==
    inbox' = [inbox EXCEPT !["coordinator"] =
                [e \in Engines |->
                   Append(@[e], [type |-> "start", wave |-> w, exclude |-> exclude])]]

PublishFront(w, r) ==
    news' = [c \in Clients |-> Append(news[c], [wave |-> w, running |-> r])]

\* Mutant: the engine is excluded even if its request is from an older wave.
HandleFrontStale(c) ==
    /\ front[c] # <<>>
    /\ front' = [front EXCEPT ![c] = Tail(@)]
    /\ LET m == Head(front[c]) IN
       IF crunning
         THEN UNCHANGED <<crunning, inbox, news>>
         ELSE /\ crunning' = TRUE
              /\ SendStartWave(cwave, m.engine)
              /\ PublishFront(cwave, TRUE)
    /\ UNCHANGED <<engineVars, cwave, back, clientVars, history>>

\* A front end sent a request while it believed the engines were paused.
HandleFront(c) ==
    /\ front[c] # <<>>
    /\ front' = [front EXCEPT ![c] = Tail(@)]
    /\ LET m == Head(front[c]) IN
       IF crunning
         THEN UNCHANGED <<crunning, inbox, news>>
         ELSE /\ crunning' = TRUE
              /\ SendStartWave(cwave, IF m.wave < cwave THEN NoEngine ELSE m.engine)
              /\ PublishFront(cwave, TRUE)
    /\ UNCHANGED <<engineVars, cwave, back, clientVars, history>>

\* wave_complete of rank 0, or start_wave of an engine that got a request for
\* a wave that is over.
HandleBack(e) ==
    /\ back[e] # <<>>
    /\ back' = [back EXCEPT ![e] = Tail(@)]
    /\ LET m == Head(back[e]) IN
       \/ /\ m.type = "complete" /\ cwave <= m.wave
          /\ cwave' = m.wave + 1 /\ crunning' = FALSE
          /\ PublishFront(m.wave + 1, FALSE)
          /\ UNCHANGED inbox
       \/ /\ m.type = "start"
          /\ m.wave > cwave \/ (m.wave = cwave /\ ~crunning)
          /\ cwave' = m.wave /\ crunning' = TRUE
          /\ SendStartWave(m.wave, e)
          /\ PublishFront(m.wave, TRUE)
       \/ /\ m.type = "complete" => cwave > m.wave
          /\ m.type = "start" => m.wave < cwave \/ (m.wave = cwave /\ crunning)
          /\ UNCHANGED <<cwave, crunning, news, inbox>>
    /\ UNCHANGED <<engineVars, front, clientVars, history>>

\* The timeout of the poller publishes request counts with the wave.
PublishStats ==
    /\ \A c \in Clients : news[c] = <<>>
    /\ \E c \in Clients : view[c] # [wave |-> cwave, running |-> crunning]
    /\ PublishFront(cwave, crunning)
    /\ UNCHANGED <<engineVars, inbox, coordVars, front, back, clientVars,
                   history>>

(***************************************************************************)
(* An engine.                                                              *)
(***************************************************************************)

\* Mutant: a request of a completed wave is added without a notification.
AddRequestSilently(e, m) ==
    /\ wave' = [wave EXCEPT ![e] = IF m.wave > @ THEN m.wave ELSE @]
    /\ reqs' = [reqs EXCEPT ![e] = @ \cup {m.req}]
    /\ \E n \in 1..MaxPasses : todo' = [todo EXCEPT ![m.req] = n]
    /\ UNCHANGED <<running, back, dropped>>

\* DPEngineCoreProc.add_request: the request may belong to a wave this engine
\* has not heard of, or to one that is over.
AddRequest(e, m) ==
    /\ wave' = [wave EXCEPT ![e] = IF m.wave > @ THEN m.wave ELSE @]
    /\ back' = IF m.wave < wave[e] /\ ~running[e]
               THEN [back EXCEPT ![e] = Append(@, [type |-> "start", wave |-> wave[e]])]
               ELSE back
    /\ reqs' = [reqs EXCEPT ![e] = @ \cup {m.req}]
    /\ \E n \in 1..MaxPasses : todo' = [todo EXCEPT ![m.req] = n]
    /\ UNCHANGED <<running, dropped>>

\* preprocess_add_request raises in the input thread: the front end gets an
\* error and the engine never sees the request.
RejectRequest(m) ==
    /\ Cardinality(dropped) < MaxDropped
    /\ dropped' = dropped \cup {m.req}
    /\ UNCHANGED <<wave, back, reqs, todo, running>>

\* Mutant: a late START_DP_WAVE of a completed wave is obeyed.
StartWaveLate(e, m) ==
    /\ IF m.exclude # e
         THEN running' = [running EXCEPT ![e] = TRUE]
         ELSE UNCHANGED running
    /\ UNCHANGED <<wave, back, reqs, todo, dropped>>

\* START_DP_WAVE.
StartWave(e, m) ==
    /\ IF m.exclude # e /\ m.wave >= wave[e]
         THEN /\ wave' = [wave EXCEPT ![e] = m.wave]
              /\ running' = [running EXCEPT ![e] = TRUE]
         ELSE UNCHANGED <<wave, running>>
    /\ UNCHANGED <<back, reqs, todo, dropped>>

\* _process_input_queue: the messages that have arrived are handled between
\* two steps.
HandleClientRequest(s, e) ==
    /\ pc[e] = "poll" /\ inbox[s][e] # <<>>
    /\ LET m == Head(inbox[s][e]) IN
       \/ m.type = "add" /\ (AddRequest(e, m) \/ RejectRequest(m))
       \/ m.type = "start" /\ StartWave(e, m)
    /\ inbox' = [inbox EXCEPT ![s][e] = Tail(@)]
    /\ UNCHANGED <<pc, step, coordVars, front, clientVars, news, done, renamed>>

\* run_busy_loop: execute a batch, or a dummy batch when the others run.
BeginStep(e) ==
    /\ pc[e] = "poll"
    /\ running[e] \/ reqs[e] # {}
    /\ pc' = [pc EXCEPT ![e] = "forward"]
    /\ UNCHANGED <<wave, running, step, reqs, todo, inbox, coordVars, front, back,
                   clientVars, news, history>>

\* Mutant: dummy passes do not count.
CountExecuted(e) == IF reqs[e] = {} THEN step[e] ELSE step[e] + 1

\* step_counter "counts forward-passes of the model", dummy passes too.
CountStep(e) == step[e] + 1

SyncDue(n) == n % SyncEvery = 0

\* The pass completes when all engines are in it.  Requests get their tokens
\* and _has_global_unfinished_reqs counts the step.
ForwardPass ==
    /\ \A e \in Engines : pc[e] = "forward"
    /\ LET served == UNION {reqs[e] : e \in Engines}
           finished == {r \in served : todo[r] = 1}
       IN  /\ todo' = [r \in Requests |-> IF r \in served THEN todo[r] - 1 ELSE todo[r]]
           /\ reqs' = [e \in Engines |-> reqs[e] \ finished]
           /\ done' = done \cup finished
    /\ step' = [e \in Engines |-> CountStep(e)]
    /\ pc' = [e \in Engines |-> IF SyncDue(CountStep(e)) THEN "reduce" ELSE "poll"]
    /\ running' = [e \in Engines |-> TRUE]
    /\ UNCHANGED <<wave, inbox, coordVars, front, back, clientVars, news, dropped,
                   renamed>>

WaveComplete(e) == e = 0

\* has_unfinished_dp, an all-reduce of all engines; if nobody has work they
\* pause, and rank 0 tells the coordinator.
AllReduce ==
    /\ \A e \in Engines : pc[e] = "reduce"
    /\ LET unfinished == \E e \in Engines : reqs[e] # {} IN
       /\ running' = [e \in Engines |-> unfinished]
       /\ wave' = [e \in Engines |-> IF unfinished THEN wave[e] ELSE wave[e] + 1]
       /\ step' = [e \in Engines |-> IF unfinished THEN step[e] ELSE 0]
       /\ back' = [e \in Engines |->
                     IF ~unfinished /\ WaveComplete(e)
                     THEN Append(back[e], [type |-> "complete", wave |-> wave[e]])
                     ELSE back[e]]
    /\ pc' = [e \in Engines |-> "poll"]
    /\ UNCHANGED <<reqs, todo, inbox, coordVars, front, clientVars, news,
                   history>>

Next ==
    \/ \E c \in Clients, e \in Engines : AddRequestAsync(c, e)
    \/ \E c \in Clients : StatsTask(c) \/ HandleFront(c)
    \/ \E e \in Engines : HandleBack(e) \/ BeginStep(e)
    \/ \E s \in Sources, e \in Engines : HandleClientRequest(s, e)
    \/ PublishStats \/ ForwardPass \/ AllReduce

SafeSpec == Init /\ [][Next]_vars

\* Every process goes on: messages are delivered and handled (an engine looks
\* at its queue between any two steps, so a message cannot be passed over for
\* ever), engines step while they have a reason to, collectives complete when
\* all are in them.  Nobody has to send a request.
Spec ==
    /\ SafeSpec
    /\ \A c \in Clients : WF_vars(StatsTask(c)) /\ WF_vars(HandleFront(c))
    /\ \A e \in Engines : WF_vars(HandleBack(e)) /\ WF_vars(BeginStep(e))
    /\ \A s \in Sources, e \in Engines : SF_vars(HandleClientRequest(s, e))
    /\ WF_vars(ForwardPass) /\ WF_vars(AllReduce)

(***************************************************************************)
(* Properties.                                                             *)
(***************************************************************************)

\* Engines that wait for each other wait in the same collective of the same
\* wave: step_counter and current_wave never get out of step between engines,
\* so no engine is in the all-reduce of _has_global_unfinished_reqs while
\* another is in a forward pass, and wave_complete of rank 0 speaks for all.
PassesAligned ==
    \A e, f \in Engines : /\ pc[e] = "reduce" => pc[f] = "reduce"
                          /\ wave[e] = wave[f]

NothingInFlight ==
    /\ \A s \in Sources, e \in Engines : inbox[s][e] = <<>>
    /\ \A c \in Clients : front[c] = <<>> /\ firstReq[c] = <<>>
    /\ \A e \in Engines : back[e] = <<>>

Active(e) == pc[e] # "poll" \/ running[e] \/ reqs[e] # {}

\* _send_start_wave: the engine that is excluded "has already received a
\* request with this wave number and so doesn't require additional
\* notification".  When all messages have been handled the engines are all
\* active or all paused, as the coordinator believes.
StartedTogether ==
    NothingInFlight => \A e \in Engines : Active(e) <=> crunning

\* What the exclusion relies on: no request failed in preprocessing, and no
\* front end passed a FIRST_REQ on for a later wave than its request carries.
\* (The stats task reads current_wave when it gets to the message, so a front
\* end that is late by a whole wave names an engine that has nothing to do.)
ExclusionsTrue == dropped = {} /\ ~renamed

\* As long as every exclusion is true, no engine is left out of a wave and none
\* runs alone, however requests, wake-ups and the end of a wave cross.
NoneLeftBehind == ExclusionsTrue => StartedTogether

\* As long as every exclusion is true, every request is finished, whatever
\* front ends, coordinator and engines believed when it was sent.
AllServed ==
    []ExclusionsTrue => \A r \in Requests : numSent >= r ~> r \in done

\* As long as every exclusion is true, the engines do not run dummy passes for
\* ever: after the last request they pause and everybody knows it.
AllPause ==
    []ExclusionsTrue => <>[](~crunning /\ \A e \in Engines : ~Active(e))

=============================================================================
