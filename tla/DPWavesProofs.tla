---------------------------- MODULE DPWavesProofs ----------------------------
(* For any number of engines, front ends and requests, and whatever they do, *)
(* the engines agree on the wave and on the collective they are in.          *)
EXTENDS DPWaves, TLAPS

(***************************************************************************)
(* The inductive invariant: nobody, and no message, is ahead of the        *)
(* engines' wave, and a wave that was reported complete is behind them.    *)
(***************************************************************************)

Known(w) == [wave : 0..w, running : BOOLEAN]
Reports(w) == {m \in [type : {"complete", "start"}, wave : 0..w] :
                 m.type = "complete" => m.wave < w}
Orders(w) == [type : {"add"}, req : Nat, wave : 0..w]
             \cup [type : {"start"}, wave : 0..w, exclude : Nat]

InStep ==
    /\ pc \in [Engines -> {"poll", "forward", "reduce"}]
    /\ wave \in [Engines -> Nat]
    /\ step \in [Engines -> Nat]
    /\ \A e \in Engines : /\ wave[e] = wave[0]
                          /\ step[e] = step[0]
                          /\ pc[e] = "reduce" <=> pc[0] = "reduce"

NobodyAhead(w) ==
    /\ cwave \in 0..w
    /\ crunning \in BOOLEAN
    /\ view \in [Clients -> Known(w)]
    /\ news \in [Clients -> Seq(Known(w))]
    /\ back \in [Engines -> Seq(Reports(w))]
    /\ inbox \in [Sources -> [Engines -> Seq(Orders(w))]]

Counters ==
    /\ numSent \in Nat
    /\ firstReq \in [Clients -> Seq([engine : Nat, wave : Nat])]
    /\ front \in [Clients -> Seq([engine : Nat, wave : Nat])]

WInv == InStep /\ NobodyAhead(wave[0]) /\ Counters

LEMMA ZeroEngine == 0 \in Engines /\ Engines \subseteq Nat /\ NoEngine \in Nat
  BY WavesAssumption DEF Engines, NoEngine

LEMMA SeqMono ==
  ASSUME NEW S, NEW T, S \subseteq T, NEW q \in Seq(S)
  PROVE  q \in Seq(T)
  OBVIOUS

LEMMA WInit == Init => WInv
<1> SUFFICES ASSUME Init PROVE WInv
  OBVIOUS
<1>1. InStep /\ wave[0] = 0
  BY ZeroEngine DEF Init, InStep
<1>2. Counters
  BY DEF Init, Counters
<1>3. cwave \in 0..0 /\ crunning \in BOOLEAN /\ view \in [Clients -> Known(0)]
  <2>1. [wave |-> 0, running |-> FALSE] \in Known(0)
    BY DEF Known
  <2>2. crunning \in BOOLEAN
    BY Zenon DEF Init
  <2>3. cwave \in 0..0
    BY DEF Init
  <2> QED
    BY <2>1, <2>2, <2>3, Zenon DEF Init
<1>4. /\ news \in [Clients -> Seq(Known(0))]
      /\ back \in [Engines -> Seq(Reports(0))]
      /\ inbox \in [Sources -> [Engines -> Seq(Orders(0))]]
  BY DEF Init
<1> QED
  BY <1>1, <1>2, <1>3, <1>4 DEF WInv, NobodyAhead

LEMMA AddRequestAsyncInv ==
  ASSUME WInv, NEW c \in Clients, NEW e \in Engines, AddRequestAsync(c, e)
  PROVE  WInv'
<1> USE DEF AddRequestAsync, engineVars, coordVars, WInv
<1> DEFINE m == [type |-> "add", req |-> numSent + 1, wave |-> view[c].wave]
<1>1. m \in Orders(wave[0]) /\ c \in Sources /\ e \in Nat
  BY ZeroEngine DEF Orders, NobodyAhead, Known, Counters, Sources
<1> HIDE DEF m
<1>2. inbox' = [inbox EXCEPT ![c][e] = Append(@, m)]
  BY DEF m
<1>3. inbox' \in [Sources -> [Engines -> Seq(Orders(wave[0]))]]
  BY <1>1, <1>2 DEF NobodyAhead
<1>4. NobodyAhead(wave[0])'
  BY <1>3 DEF NobodyAhead
<1>5. Counters'
  <2> DEFINE F == [engine : Nat, wave : Nat]
             f == [engine |-> e, wave |-> view[c].wave]
  <2>1. view[c].wave \in Nat /\ firstReq \in [Clients -> Seq(F)]
    <3>1. view[c] \in Known(wave[0])
      BY DEF NobodyAhead
    <3> QED
      BY <3>1, ZeroEngine DEF Known, InStep, Counters
  <2>2. firstReq' = firstReq \/ firstReq' = [firstReq EXCEPT ![c] = Append(@, f)]
    OBVIOUS
  <2>3. f \in F
    BY <1>1, <2>1
  <2> HIDE DEF F, f
  <2>4. firstReq' \in [Clients -> Seq(F)]
    BY <2>1, <2>2, <2>3
  <2> QED
    BY <2>4 DEF Counters, F
<1> QED
  BY <1>4, <1>5 DEF InStep

LEMMA StatsTaskInv ==
  ASSUME WInv, NEW c \in Clients, StatsTask(c)
  PROVE  WInv'
<1> USE DEF engineVars, coordVars, WInv
<1>1. CASE NotifyCoordinator(c)
  <2> USE <1>1 DEF NotifyCoordinator
  <2>1. /\ Head(firstReq[c]) \in [engine : Nat, wave : Nat]
        /\ Tail(firstReq[c]) \in Seq([engine : Nat, wave : Nat])
    <3> DEFINE F == [engine : Nat, wave : Nat]
    <3>1. firstReq[c] \in Seq(F)
      BY DEF Counters
    <3> HIDE DEF F
    <3>2. Head(firstReq[c]) \in F /\ Tail(firstReq[c]) \in Seq(F)
      BY <3>1
    <3> QED
      BY <3>2 DEF F
  <2>2. view' \in [Clients -> Known(wave[0])] /\ view[c].wave \in Nat
    <3>1. view[c] \in Known(wave[0]) /\ view \in [Clients -> Known(wave[0])]
      BY DEF NobodyAhead
    <3>2. view[c].wave \in 0..wave[0] /\ wave[0] \in Nat
      BY <3>1, ZeroEngine DEF Known, InStep
    <3>3. [wave |-> view[c].wave, running |-> TRUE] \in Known(wave[0])
      BY <3>2 DEF Known
    <3> QED
      BY <3>1, <3>2, <3>3
  <2>3. Counters'
    BY <2>1, <2>2 DEF Counters
  <2> QED
    BY <2>2, <2>3 DEF InStep, NobodyAhead
<1>2. CASE PollStats(c)
  BY <1>2 DEF PollStats, InStep, NobodyAhead, Counters
<1>3. CASE DrainStats(c)
  <2> USE <1>3 DEF DrainStats
  <2>1. PICK k \in 0..Len(news[c]) :
          /\ view' = [view EXCEPT ![c] = IF k = 0 THEN @ ELSE news[c][k]]
          /\ news' = [news EXCEPT ![c] = SubSeq(@, k + 1, Len(@))]
    OBVIOUS
  <2>2. news[c] \in Seq(Known(wave[0])) /\ view[c] \in Known(wave[0])
    BY DEF NobodyAhead
  <2>3. SubSeq(news[c], k + 1, Len(news[c])) \in Seq(Known(wave[0]))
    BY <2>2
  <2>4. k # 0 => news[c][k] \in Known(wave[0])
    BY <2>2
  <2>5. view' \in [Clients -> Known(wave[0])] /\ news' \in [Clients -> Seq(Known(wave[0]))]
    BY <2>1, <2>2, <2>3, <2>4 DEF NobodyAhead
  <2> QED
    BY <2>5 DEF InStep, NobodyAhead, Counters
<1> QED
  BY <1>1, <1>2, <1>3 DEF StatsTask

\* What the coordinator sends is no newer than what it knows.
LEMMA CoordinatorSends ==
  ASSUME NEW w \in Nat, NobodyAhead(w), NEW v \in 0..w, NEW x \in Nat,
         NEW b \in BOOLEAN
  PROVE  /\ SendStartWave(v, x) => inbox' \in [Sources -> [Engines -> Seq(Orders(w))]]
         /\ PublishFront(v, b) => news' \in [Clients -> Seq(Known(w))]
<1> DEFINE m == [type |-> "start", wave |-> v, exclude |-> x]
<1>1. m \in Orders(w) /\ [wave |-> v, running |-> b] \in Known(w)
  BY DEF Orders, Known
<1>2. ASSUME SendStartWave(v, x)
      PROVE  inbox' \in [Sources -> [Engines -> Seq(Orders(w))]]
  <2> HIDE DEF m
  <2>1. inbox' = [inbox EXCEPT !["coordinator"] = [e \in Engines |-> Append(@[e], m)]]
    BY <1>2 DEF SendStartWave, m
  <2>2. [e \in Engines |-> Append(inbox["coordinator"][e], m)]
           \in [Engines -> Seq(Orders(w))]
    BY <1>1 DEF NobodyAhead, Sources
  <2> QED
    BY <2>1, <2>2 DEF NobodyAhead
<1>3. ASSUME PublishFront(v, b) PROVE news' \in [Clients -> Seq(Known(w))]
  BY <1>1, <1>3 DEF PublishFront, NobodyAhead
<1> QED
  BY <1>2, <1>3

LEMMA HandleFrontInv ==
  ASSUME WInv, NEW c \in Clients, HandleFront(c)
  PROVE  WInv'
<1> USE DEF HandleFront, engineVars, clientVars, WInv
<1>1. wave[0] \in Nat /\ cwave \in 0..wave[0]
  BY ZeroEngine DEF InStep, NobodyAhead
<1>2. /\ Head(front[c]) \in [engine : Nat, wave : Nat]
      /\ Tail(front[c]) \in Seq([engine : Nat, wave : Nat])
  <2> DEFINE F == [engine : Nat, wave : Nat]
  <2>1. front[c] \in Seq(F)
    BY DEF Counters
  <2> HIDE DEF F
  <2>2. Head(front[c]) \in F /\ Tail(front[c]) \in Seq(F)
    BY <2>1
  <2> QED
    BY <2>2 DEF F
<1>3. Counters'
  BY <1>2 DEF Counters
<1>4. CASE crunning
  BY <1>3, <1>4 DEF InStep, NobodyAhead
<1>5. CASE ~crunning
  <2>1. PICK x \in Nat : SendStartWave(cwave, x)
    BY <1>2, <1>5, ZeroEngine
  <2>2. PublishFront(cwave, TRUE) /\ crunning' = TRUE
    BY <1>5
  <2>3. /\ inbox' \in [Sources -> [Engines -> Seq(Orders(wave[0]))]]
        /\ news' \in [Clients -> Seq(Known(wave[0]))]
    BY <1>1, <2>1, <2>2, CoordinatorSends
  <2> QED
    BY <1>3, <2>2, <2>3 DEF InStep, NobodyAhead
<1> QED
  BY <1>4, <1>5

LEMMA HandleBackInv ==
  ASSUME WInv, NEW e \in Engines, HandleBack(e)
  PROVE  WInv'
<1> USE DEF engineVars, clientVars, WInv
<1> DEFINE m == Head(back[e])
<1>1. wave[0] \in Nat /\ e \in Nat
  BY ZeroEngine DEF InStep
<1>2. /\ m \in Reports(wave[0]) /\ back' \in [Engines -> Seq(Reports(wave[0]))]
      /\ UNCHANGED <<pc, wave, step, view, firstReq, front, numSent>>
  BY DEF HandleBack, NobodyAhead
<1>3. m.wave \in 0..wave[0] /\ (m.type = "complete" => m.wave + 1 \in 0..wave[0])
  BY <1>1, <1>2 DEF Reports
<1>4. InStep' /\ Counters' /\ wave'[0] = wave[0]
  BY <1>2 DEF InStep, Counters
<1> HIDE DEF m
<1>5. CASE /\ m.type = "complete" /\ cwave' = m.wave + 1 /\ crunning' = FALSE
           /\ PublishFront(m.wave + 1, FALSE) /\ UNCHANGED inbox
  <2>1. news' \in [Clients -> Seq(Known(wave[0]))]
    BY <1>1, <1>3, <1>5, CoordinatorSends
  <2> QED
    BY <1>2, <1>3, <1>4, <1>5, <2>1 DEF NobodyAhead
<1>6. CASE /\ cwave' = m.wave /\ crunning' = TRUE
           /\ SendStartWave(m.wave, e) /\ PublishFront(m.wave, TRUE)
  <2>1. /\ inbox' \in [Sources -> [Engines -> Seq(Orders(wave[0]))]]
        /\ news' \in [Clients -> Seq(Known(wave[0]))]
    BY <1>1, <1>3, <1>6, CoordinatorSends
  <2> QED
    BY <1>2, <1>3, <1>4, <1>6, <2>1 DEF NobodyAhead
<1>7. CASE UNCHANGED <<cwave, crunning, news, inbox>>
  BY <1>2, <1>4, <1>7 DEF NobodyAhead
<1> QED
  BY <1>5, <1>6, <1>7 DEF HandleBack, m

LEMMA PublishStatsInv == ASSUME WInv, PublishStats PROVE WInv'
<1> USE DEF PublishStats, engineVars, coordVars, clientVars, WInv
<1>1. wave[0] \in Nat /\ cwave \in 0..wave[0] /\ crunning \in BOOLEAN
  BY ZeroEngine DEF InStep, NobodyAhead
<1>2. news' \in [Clients -> Seq(Known(wave[0]))]
  BY <1>1, ZeroEngine, CoordinatorSends
<1> QED
  BY <1>2 DEF InStep, NobodyAhead, Counters

LEMMA HandleClientRequestInv ==
  ASSUME WInv, NEW s \in Sources, NEW e \in Engines, HandleClientRequest(s, e)
  PROVE  WInv'
<1> USE DEF coordVars, clientVars, WInv
<1> DEFINE m == Head(inbox[s][e])
<1>1. /\ wave[0] \in Nat /\ wave[e] = wave[0]
      /\ back \in [Engines -> Seq(Reports(wave[0]))]
      /\ wave \in [Engines -> Nat]
  BY ZeroEngine DEF InStep, NobodyAhead
<1>2. /\ m \in Orders(wave[0])
      /\ inbox' \in [Sources -> [Engines -> Seq(Orders(wave[0]))]]
      /\ UNCHANGED <<pc, step, cwave, crunning, view, news, numSent, firstReq, front>>
  <2> DEFINE O == Orders(wave[0])
  <2>1. inbox \in [Sources -> [Engines -> Seq(O)]]
    BY DEF NobodyAhead
  <2> HIDE DEF O
  <2>2. m \in O /\ Tail(inbox[s][e]) \in Seq(O)
    BY <2>1 DEF HandleClientRequest
  <2>3. inbox' \in [Sources -> [Engines -> Seq(O)]]
    BY <2>1, <2>2 DEF HandleClientRequest
  <2>4. UNCHANGED <<pc, step, cwave, crunning, view, news, numSent, firstReq, front>>
    BY DEF HandleClientRequest
  <2> QED
    BY <2>2, <2>3, <2>4 DEF O
<1>3. m.wave \in 0..wave[0]
  BY <1>2 DEF Orders
<1> HIDE DEF m
<1>4. wave' = wave /\ back' \in [Engines -> Seq(Reports(wave[0]))]
  <2>1. CASE AddRequest(e, m)
    <3>1. [type |-> "start", wave |-> wave[e]] \in Reports(wave[0])
      BY <1>1 DEF Reports
    <3> QED
      BY <1>1, <1>3, <2>1, <3>1 DEF AddRequest
  <2>2. CASE RejectRequest(m)
    BY <1>1, <2>2 DEF RejectRequest
  <2>3. CASE StartWave(e, m)
    BY <1>1, <1>3, <2>3 DEF StartWave
  <2> QED
    BY <2>1, <2>2, <2>3 DEF HandleClientRequest, m
<1> QED
  BY <1>2, <1>4 DEF InStep, NobodyAhead, Counters

LEMMA ForwardPassInv == ASSUME WInv, ForwardPass PROVE WInv'
<1> USE DEF ForwardPass, coordVars, clientVars, WInv
<1>1. InStep'
  <2>1. /\ step' = [e \in Engines |-> step[e] + 1]
        /\ pc' = [e \in Engines |-> IF SyncDue(step[e] + 1) THEN "reduce" ELSE "poll"]
        /\ wave' = wave
    BY DEF CountStep
  <2> HIDE DEF ForwardPass
  <2> QED
    BY <2>1, ZeroEngine DEF InStep
<1> QED
  BY <1>1 DEF NobodyAhead, Counters

LEMMA AllReduceInv == ASSUME WInv, AllReduce PROVE WInv'
<1> USE DEF coordVars, clientVars, WInv
<1> DEFINE unfinished == \E e \in Engines : reqs[e] # {}
           w == wave[0]
<1>1. w \in Nat /\ UNCHANGED <<cwave, crunning, view, news, inbox, numSent, firstReq, front>>
  BY ZeroEngine DEF InStep, AllReduce
<1>2. /\ pc' = [e \in Engines |-> "poll"]
      /\ wave' = [e \in Engines |-> IF unfinished THEN wave[e] ELSE wave[e] + 1]
      /\ step' = [e \in Engines |-> IF unfinished THEN step[e] ELSE 0]
      /\ back' = [e \in Engines |->
                    IF ~unfinished /\ WaveComplete(e)
                    THEN Append(back[e], [type |-> "complete", wave |-> wave[e]])
                    ELSE back[e]]
  BY DEF AllReduce
<1> HIDE DEF unfinished
<1>3. InStep' /\ Counters'
  BY <1>1, <1>2, ZeroEngine DEF InStep, Counters
<1>4. CASE unfinished
  <2>1. back' = back /\ wave'[0] = w
    BY <1>2, <1>4, ZeroEngine DEF NobodyAhead, InStep
  <2> QED
    BY <1>1, <1>3, <2>1 DEF NobodyAhead
<1>5. CASE ~unfinished
  <2>1. wave'[0] = w + 1
    BY <1>2, <1>5, ZeroEngine
  <2>2. /\ Known(w) \subseteq Known(w + 1) /\ Orders(w) \subseteq Orders(w + 1)
        /\ Reports(w) \subseteq Reports(w + 1)
    BY <1>1 DEF Known, Orders, Reports
  <2>3. ASSUME NEW e \in Engines
        PROVE  [type |-> "complete", wave |-> wave[e]] \in Reports(w + 1)
    BY <1>1 DEF Reports, InStep
  <2>4. ASSUME NEW e \in Engines PROVE back[e] \in Seq(Reports(w + 1))
    BY <2>2, SeqMono DEF NobodyAhead
  <2>5. back' \in [Engines -> Seq(Reports(w + 1))]
    <3>1. ASSUME NEW e \in Engines PROVE back'[e] \in Seq(Reports(w + 1))
      <4> DEFINE r == [type |-> "complete", wave |-> wave[e]]
                 R == Reports(w + 1)
      <4>1. r \in R /\ back[e] \in Seq(R)
        BY <2>3, <2>4
      <4>2. back'[e] = back[e] \/ back'[e] = Append(back[e], r)
        BY <1>2
      <4> HIDE DEF r, R
      <4>3. back'[e] \in Seq(R)
        BY SMTT(30), <4>1, <4>2
      <4> QED
        BY <4>3 DEF R
    <3> HIDE DEF w
    <3> QED
      BY <1>2, <3>1, Zenon
  <2>6. view \in [Clients -> Known(w + 1)]
    BY <2>2 DEF NobodyAhead
  <2>7. news \in [Clients -> Seq(Known(w + 1))]
    <3>1. ASSUME NEW c \in Clients PROVE news[c] \in Seq(Known(w + 1))
      BY <2>2, SeqMono DEF NobodyAhead
    <3> QED
      BY <3>1 DEF NobodyAhead
  <2>8. inbox \in [Sources -> [Engines -> Seq(Orders(w + 1))]]
    <3>1. ASSUME NEW s \in Sources, NEW e \in Engines
          PROVE  inbox[s][e] \in Seq(Orders(w + 1))
      BY <2>2, SeqMono DEF NobodyAhead
    <3> QED
      BY <3>1 DEF NobodyAhead
  <2>9. cwave \in 0..w + 1 /\ crunning \in BOOLEAN
    BY <1>1 DEF NobodyAhead
  <2> QED
    BY <1>1, <1>3, <2>1, <2>5, <2>6, <2>7, <2>8, <2>9, Zenon DEF NobodyAhead
<1> QED
  BY <1>4, <1>5

LEMMA WNext == WInv /\ [Next]_vars => WInv'
<1> SUFFICES ASSUME WInv, [Next]_vars PROVE WInv'
  OBVIOUS
<1>1. ASSUME NEW e \in Engines, BeginStep(e) PROVE WInv'
  BY <1>1, ZeroEngine DEF BeginStep, coordVars, clientVars, WInv, InStep, NobodyAhead, Counters
<1>2. CASE UNCHANGED vars
  BY <1>2 DEF vars, engineVars, coordVars, clientVars, WInv, InStep, NobodyAhead, Counters
<1> QED
  BY <1>1, <1>2, AddRequestAsyncInv, StatsTaskInv, HandleFrontInv, HandleBackInv,
     PublishStatsInv, HandleClientRequestInv, ForwardPassInv, AllReduceInv DEF Next

\* The collectives of run_busy_loop match for any number of engines and front
\* ends: the engines are in the same wave, and never some of them in the
\* all-reduce and others in a forward pass.
THEOREM EnginesInStep == SafeSpec => []PassesAligned
<1>1. WInv => PassesAligned
  BY DEF WInv, InStep, PassesAligned
<1> QED
  BY <1>1, WInit, WNext, PTL DEF SafeSpec
=============================================================================
