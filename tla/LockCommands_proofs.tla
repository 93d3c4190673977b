------------------------- MODULE LockCommands_proofs -------------------------
(***************************************************************************)
(* Proofs about LockCommands for every wiring, any number of workers, jobs *)
(* and readers, and all values of the bounds.                              *)
(***************************************************************************)
EXTENDS LockCommands, TLAPS

\* Two entries of the queue are never the same job.
Distinct(s) == \A i, k \in DOMAIN s : s[i] = s[k] => i = k

\* Popping a queue without duplicates removes exactly its head.
LEMMA PopFacts ==
  ASSUME NEW S, NEW s \in Seq(S), s # <<>>, Distinct(s)
  PROVE  /\ Head(s) \in S
         /\ Tail(s) \in Seq(S)
         /\ Head(s) \in ElementsOf(s)
         /\ ElementsOf(Tail(s)) = ElementsOf(s) \ {Head(s)}
         /\ Distinct(Tail(s))
<1>1. Len(s) \in Nat \ {0} /\ DOMAIN s = 1..Len(s) /\ Head(s) = s[1] /\ Head(s) \in S
  OBVIOUS
<1>2. /\ Tail(s) \in Seq(S)
      /\ DOMAIN Tail(s) = 1..(Len(s) - 1)
      /\ \A i \in 1..(Len(s) - 1) : Tail(s)[i] = s[i + 1]
  BY <1>1
<1>3. Head(s) \in ElementsOf(s)
  BY <1>1 DEF ElementsOf
<1>4. ElementsOf(Tail(s)) \subseteq ElementsOf(s) \ {Head(s)}
  BY <1>1, <1>2 DEF ElementsOf, Distinct
<1>5. ASSUME NEW x \in ElementsOf(s) \ {Head(s)} PROVE x \in ElementsOf(Tail(s))
  <2>1. PICK i \in DOMAIN s : x = s[i]
    BY DEF ElementsOf
  <2>2. i # 1 /\ i - 1 \in 1..(Len(s) - 1)
    BY <1>1, <2>1
  <2>3. Tail(s)[i - 1] = x
    BY <1>1, <1>2, <2>1, <2>2
  <2> QED BY <1>2, <2>2, <2>3 DEF ElementsOf
<1>6. Distinct(Tail(s))
  BY <1>1, <1>2 DEF Distinct
<1> QED BY <1>1, <1>2, <1>3, <1>4, <1>5, <1>6

\* Pushing a job that is not queued adds exactly that job.
LEMMA PushFacts ==
  ASSUME NEW S, NEW s \in Seq(S), NEW x \in S, x \notin ElementsOf(s), Distinct(s)
  PROVE  /\ Append(s, x) \in Seq(S)
         /\ ElementsOf(Append(s, x)) = ElementsOf(s) \cup {x}
         /\ Distinct(Append(s, x))
<1>1. /\ Append(s, x) \in Seq(S)
      /\ DOMAIN s = 1..Len(s) /\ Len(s) \in Nat
      /\ DOMAIN Append(s, x) = 1..(Len(s) + 1)
      /\ \A i \in 1..Len(s) : Append(s, x)[i] = s[i]
      /\ Append(s, x)[Len(s) + 1] = x
  OBVIOUS
<1>2. ElementsOf(Append(s, x)) \subseteq ElementsOf(s) \cup {x}
  BY <1>1 DEF ElementsOf
<1>3. ElementsOf(s) \cup {x} \subseteq ElementsOf(Append(s, x))
  BY <1>1 DEF ElementsOf
<1>4. Distinct(Append(s, x))
  BY <1>1 DEF ElementsOf, Distinct
<1> QED BY <1>1, <1>2, <1>3, <1>4

LEMMA EmptyQueue == ElementsOf(<<>>) = {} /\ Distinct(<<>>)
  BY DEF ElementsOf, Distinct

-----------------------------------------------------------------------------
(***************************************************************************)
(* The inductive invariant: types alone do not say that the job a worker   *)
(* holds exists; where every job is does.                                  *)
(***************************************************************************)
IInv == TypeOK /\ JobPlacement

\* The job a busy worker holds is a live one.
LEMMA HeldIsLive ==
  ASSUME IInv, NEW w \in Worker, pc[w] # "idle"
  PROVE  /\ holds[w] \in JobId /\ holds[w] \in InHand
         /\ Live(holds[w]) /\ Held(w) \in Job
         /\ holds[w] \notin ElementsOf(ready) /\ holds[w] \notin delayed
<1>1. holds[w] \in InHand
  BY DEF InHand
<1>2. holds[w] \in {j \in JobId : Live(j)}
  BY <1>1 DEF IInv, JobPlacement
<1>3. jobs[holds[w]] \in Job
  BY <1>2 DEF IInv, TypeOK, Live
<1> QED BY <1>1, <1>2, <1>3 DEF IInv, JobPlacement, Held

\* A job number that is free is known to no queue and no worker.
LEMMA FreeIdFacts ==
  ASSUME IInv, HasRoom
  PROVE  /\ FreeId \in JobId /\ ~Live(FreeId)
         /\ FreeId \notin ElementsOf(ready) /\ FreeId \notin delayed /\ FreeId \notin InHand
<1>1. FreeId \in JobId /\ ~Live(FreeId)
  BY DEF HasRoom, FreeId
<1> QED BY <1>1 DEF IInv, JobPlacement

\* The lists a job walks through are finite sequences.
LEMMA ListFacts ==
  ASSUME NEW r \in Reader
  PROVE  /\ Outputs[r] \in Seq(Channel) /\ Len(Outputs[r]) \in Nat
         /\ StoredLocks[r] \in Seq(Lock) /\ Len(StoredLocks[r]) \in Nat
         /\ TopicLocks[r] \in Seq(Lock) /\ Len(TopicLocks[r]) \in Nat
         /\ \A i \in 1..Len(Outputs[r]) : Outputs[r][i] \in Channel
         /\ \A i \in 1..Len(StoredLocks[r]) : StoredLocks[r][i] \in Lock
         /\ \A i \in 1..Len(TopicLocks[r]) : TopicLocks[r][i] \in Lock
         /\ Outputs[r] # <<>> => Len(Outputs[r]) >= 1
         /\ StoredLocks[r] # <<>> => Len(StoredLocks[r]) >= 1
         /\ TopicLocks[r] # <<>> => Len(TopicLocks[r]) >= 1
  BY WiringAssumption

LEMMA InitInv == Init => IInv
<1> SUFFICES ASSUME Init PROVE IInv
  OBVIOUS
<1>1. Blank \in [Lock -> LockStates]
  BY DEF Blank, LockStates
<1>2. TypeOK
  BY <1>1, BoundAssumption DEF Init, TypeOK, Power, Stage, Walking
<1>3. InHand = {}
  BY DEF Init, InHand
<1>4. {j \in JobId : Live(j)} = {}
  BY DEF Init, Live
<1>5. JobPlacement
  BY <1>3, <1>4, EmptyQueue DEF Init, JobPlacement, Distinct
<1> QED BY <1>2, <1>5 DEF IInv

-----------------------------------------------------------------------------
\* A worker that a step passes by goes on walking within its list.
LEMMA OthersWalk ==
  ASSUME NEW v \in Worker, Walking(v),
         pc'[v] = pc[v], at'[v] = at[v], holds'[v] = holds[v],
         pc[v] # "idle" => jobs'[holds[v]].reader = jobs[holds[v]].reader
  PROVE  Walking(v)'
  BY DEF Walking, Held

\* A step that moves no job and reserves or releases none keeps every job's place.
LEMMA SamePlaces ==
  ASSUME JobPlacement, UNCHANGED <<queueVars, holds>>,
         \A v \in Worker : pc'[v] = "idle" <=> pc[v] = "idle"
  PROVE  JobPlacement'
<1>1. InHand' = InHand
  BY DEF InHand, queueVars
<1>2. {j \in JobId : Live(j)}' = {j \in JobId : Live(j)}
  BY DEF Live, queueVars
<1> QED BY <1>1, <1>2 DEF JobPlacement, queueVars

\* A worker that lets go of its job takes just that job out of the hands.
LEMMA RestHands ==
  ASSUME IInv, NEW w \in Worker, pc[w] # "idle", Rest(w)
  PROVE  /\ InHand' = InHand \ {holds[w]}
         /\ \A u, v \in Worker : pc'[u] # "idle" /\ pc'[v] # "idle" /\ holds'[u] = holds'[v]
              => u = v
<1>1. /\ pc'[w] = "idle"
      /\ \A v \in Worker \ {w} : pc'[v] = pc[v] /\ holds'[v] = holds[v]
  BY DEF Rest, IInv, TypeOK
<1>2. \A u, v \in Worker : pc[u] # "idle" /\ pc[v] # "idle" /\ holds[u] = holds[v] => u = v
  BY DEF IInv, JobPlacement
<1> QED BY <1>1, <1>2 DEF InHand

\* Letting go leaves the workers' variables well-typed.
LEMMA RestTypes ==
  ASSUME IInv, NEW w \in Worker, Rest(w)
  PROVE  /\ pc' \in [Worker -> Stage]
         /\ holds' \in [Worker -> JobId \cup {NoJob}]
         /\ goal' \in [Worker -> Power]
         /\ at' \in [Worker -> Nat \ {0}]
         /\ snap' \in [Worker -> [Lock -> LockStates]]
  BY DEF Rest, IInv, TypeOK, Stage, Power, LockStates, Blank

\* Failing a job types and records.
LEMMA FailTypes ==
  ASSUME IInv, NEW j \in JobId, Live(j), FailJob(j)
  PROVE  /\ jobs' \in [JobId -> Job \cup {NoJob}]
         /\ audit' \subseteq Reader \X Status
  BY DEF FailJob, IInv, TypeOK, Live, Job, Status

LEMMA DispatchInv ==
  ASSUME IInv, NEW source, NEW r \in Reader, NEW target \in Power \cup {Toggle},
         NEW relock \in BOOLEAN, Dispatch(source, r, target, relock)
  PROVE  IInv'
<1> DEFINE j == FreeId
<1> USE DEF deviceVars, storeVars, workerVars
<1>1. /\ j \in JobId /\ ~Live(j)
      /\ j \notin ElementsOf(ready) /\ j \notin delayed /\ j \notin InHand
  BY FreeIdFacts DEF Dispatch
<1>2. NewJob(r, target, relock) \in Job
  BY BoundAssumption DEF NewJob, Job
<1>3. /\ ready' \in Seq(JobId)
      /\ ElementsOf(ready') = ElementsOf(ready) \cup {j}
      /\ Distinct(ready')
  <2>1. ready \in Seq(JobId) /\ Distinct(ready)
    BY DEF IInv, TypeOK, JobPlacement, Distinct
  <2>2. ready' = Append(ready, j)
    BY DEF Dispatch
  <2> QED BY <1>1, <2>1, <2>2, PushFacts
<1>4. \A w \in Worker : Walking(w)'
  <2> TAKE w \in Worker
  <2>1. pc[w] # "idle" => holds[w] # j
    BY <1>1 DEF InHand
  <2>2. pc[w] # "idle" => jobs'[holds[w]] = jobs[holds[w]]
    BY <2>1, HeldIsLive DEF Dispatch, IInv, TypeOK
  <2> QED BY <2>2, OthersWalk DEF Dispatch, IInv, TypeOK
<1>5. TypeOK'
  BY <1>1, <1>2, <1>3, <1>4, BoundAssumption DEF Dispatch, IInv, TypeOK
<1>6. InHand' = InHand
  BY DEF Dispatch, InHand
<1>7. {k \in JobId : Live(k)}' = {k \in JobId : Live(k)} \cup {j}
  BY <1>1, <1>2, BoundAssumption DEF Dispatch, IInv, TypeOK, Live
<1>8. JobPlacement'
  BY <1>1, <1>3, <1>6, <1>7 DEF Dispatch, IInv, JobPlacement, Distinct
<1> QED BY <1>5, <1>8 DEF IInv

LEMMA RequestInv ==
  ASSUME IInv, Request
  PROVE  IInv'
<1> USE DEF Power
<1>1. ASSUME NEW r \in Reader, CardGranted(r) PROVE IInv'
  BY <1>1, DispatchInv DEF CardGranted
<1>2. ASSUME NEW r \in Reader, ReaderApi(r) PROVE IInv'
  BY <1>2, DispatchInv DEF ReaderApi
<1>3. ASSUME NEW r \in Reader, DashboardToggle(r) PROVE IInv'
  <2>1. Opposite(output[Outputs[r][1]]) \in Power
    BY DEF Opposite
  <2> QED BY <1>3, <2>1, DispatchInv DEF DashboardToggle
<1>4. ASSUME NEW l \in Lock, MqttCommand(l) PROVE IInv'
  BY <1>4, DispatchInv, WiringAssumption DEF MqttCommand
<1>5. ASSUME NEW l \in Lock, WebhookLock(l) \/ WebhookUnlock(l) PROVE IInv'
  BY <1>5, DispatchInv, WiringAssumption DEF WebhookLock, WebhookUnlock
<1>6. ASSUME NEW l \in Lock, LockApi(l) PROVE IInv'
  BY <1>6, DispatchInv, WiringAssumption DEF LockApi
<1>7. ASSUME NEW l \in Lock, AreaControl(l) PROVE IInv'
  BY <1>7, DispatchInv, WiringAssumption DEF AreaControl
<1> QED BY <1>1, <1>2, <1>3, <1>4, <1>5, <1>6, <1>7 DEF Request

LEMMA MatureInv ==
  ASSUME IInv, NEW j \in JobId, Mature(j)
  PROVE  IInv'
<1> USE DEF deviceVars, storeVars, workerVars
<1>1. j \notin ElementsOf(ready)
  BY DEF Mature, IInv, JobPlacement
<1>2. /\ ready' \in Seq(JobId)
      /\ ElementsOf(ready') = ElementsOf(ready) \cup {j}
      /\ Distinct(ready')
  BY <1>1, PushFacts DEF Mature, IInv, TypeOK, JobPlacement, Distinct
<1>3. \A w \in Worker : Walking(w)'
  BY OthersWalk DEF Mature, IInv, TypeOK
<1>4. TypeOK'
  BY <1>2, <1>3 DEF Mature, IInv, TypeOK
<1>5. InHand' = InHand /\ {k \in JobId : Live(k)}' = {k \in JobId : Live(k)}
  BY DEF Mature, InHand, Live
<1>6. JobPlacement'
  BY <1>2, <1>5 DEF Mature, IInv, JobPlacement, Distinct
<1> QED BY <1>4, <1>6 DEF IInv

LEMMA ReserveInv ==
  ASSUME IInv, NEW w \in Worker, Reserve(w)
  PROVE  IInv'
<1> DEFINE j == Head(ready)
<1> USE DEF deviceVars, workerVars
<1>1. /\ j \in JobId /\ ready' \in Seq(JobId)
      /\ j \in ElementsOf(ready)
      /\ ElementsOf(ready') = ElementsOf(ready) \ {j}
      /\ Distinct(ready')
  <2>1. ready \in Seq(JobId) /\ Distinct(ready)
    BY DEF IInv, TypeOK, JobPlacement, Distinct
  <2>2. ready # <<>> /\ ready' = Tail(ready)
    BY DEF Reserve
  <2> QED BY <2>1, <2>2, PopFacts
<1>2. Live(j) /\ jobs[j] \in Job /\ j \notin InHand /\ j \notin delayed
  BY <1>1 DEF IInv, TypeOK, JobPlacement, Live
<1>3. \A v \in Worker : pc[v] # "idle" => holds[v] # j
  BY <1>2 DEF InHand
<1>4. CASE jobs[j].tries >= MaxTries
  <2>1. FailJob(j) /\ UNCHANGED <<workerVars, delayed>>
    BY <1>4 DEF Reserve
  <2>2. \A v \in Worker : Walking(v)'
    <3> TAKE v \in Worker
    <3>1. pc[v] # "idle" => jobs'[holds[v]] = jobs[holds[v]]
      BY <1>3, <2>1, HeldIsLive DEF FailJob, IInv, TypeOK
    <3> QED BY <2>1, <3>1, OthersWalk DEF IInv, TypeOK
  <2>3. TypeOK'
    BY <1>1, <1>2, <2>1, <2>2, FailTypes DEF Reserve, IInv, TypeOK
  <2>4. InHand' = InHand
    BY <2>1 DEF InHand
  <2>5. {k \in JobId : Live(k)}' = {k \in JobId : Live(k)} \ {j}
    BY <1>1, <2>1 DEF FailJob, IInv, TypeOK, Live
  <2>6. JobPlacement'
    BY <1>1, <1>2, <2>1, <2>4, <2>5 DEF IInv, JobPlacement, Distinct
  <2> QED BY <2>3, <2>6 DEF IInv
<1>5. CASE ~(jobs[j].tries >= MaxTries)
  <2>1. /\ pc[w] = "idle"
        /\ jobs' = [jobs EXCEPT ![j].tries = @ + 1]
        /\ pc' = [pc EXCEPT ![w] = "decide"]
        /\ holds' = [holds EXCEPT ![w] = j]
        /\ UNCHANGED <<audit, goal, at, snap, delayed>>
    BY <1>5 DEF Reserve
  <2>2. jobs[j].tries + 1 \in 0..MaxTries
    BY <1>2, <1>5, BoundAssumption DEF Job
  <2>3. /\ jobs' \in [JobId -> Job \cup {NoJob}]
        /\ jobs'[j] \in Job
        /\ \A k \in JobId \ {j} : jobs'[k] = jobs[k]
    BY <1>1, <1>2, <2>1, <2>2 DEF IInv, TypeOK, Job
  <2>4. /\ pc'[w] = "decide" /\ holds'[w] = j
        /\ \A v \in Worker \ {w} : pc'[v] = pc[v] /\ holds'[v] = holds[v]
    BY <2>1 DEF IInv, TypeOK
  <2>5. \A v \in Worker : Walking(v)'
    <3> TAKE v \in Worker
    <3>1. CASE v = w
      BY <3>1, <2>1, <2>4 DEF IInv, TypeOK, Walking
    <3>2. CASE v # w
      <4>1. pc[v] # "idle" => jobs'[holds[v]] = jobs[holds[v]]
        BY <1>3, <2>3, HeldIsLive
      <4> QED BY <2>1, <2>4, <3>2, <4>1, OthersWalk DEF IInv, TypeOK
    <3> QED BY <3>1, <3>2
  <2>6. pc' \in [Worker -> Stage] /\ holds' \in [Worker -> JobId \cup {NoJob}]
    BY <1>1, <2>1 DEF IInv, TypeOK, Stage
  <2>7. TypeOK'
    BY <1>1, <2>1, <2>3, <2>5, <2>6 DEF Reserve, IInv, TypeOK
  <2>8. InHand' = InHand \cup {j}
    BY <2>1, <2>4 DEF InHand
  <2>9. \A u, v \in Worker : pc'[u] # "idle" /\ pc'[v] # "idle" /\ holds'[u] = holds'[v]
          => u = v
    BY <1>3, <2>4 DEF IInv, JobPlacement
  <2>10. {k \in JobId : Live(k)}' = {k \in JobId : Live(k)}
    BY <1>1, <1>2, <2>3, BoundAssumption DEF Live
  <2>11. JobPlacement'
    BY <1>1, <1>2, <2>1, <2>8, <2>9, <2>10 DEF IInv, JobPlacement, Distinct
  <2> QED BY <2>7, <2>11 DEF IInv
<1> QED BY <1>4, <1>5

\* What Throw, Crash and Acknowledge have in common: a worker lets go of its job,
\* which is then either delayed or no longer live.
LEMMA ReleaseInv ==
  ASSUME IInv, NEW w \in Worker, pc[w] # "idle", Rest(w),
         UNCHANGED ready,
         \/ delayed' = delayed \cup {holds[w]} /\ UNCHANGED jobs
         \/ delayed' = delayed /\ jobs' = [jobs EXCEPT ![holds[w]] = NoJob]
  PROVE  /\ JobPlacement'
         /\ delayed' \subseteq JobId
         /\ jobs' \in [JobId -> Job \cup {NoJob}]
         /\ \A v \in Worker : Walking(v)'
<1>1. /\ holds[w] \in JobId /\ holds[w] \in InHand /\ Live(holds[w])
      /\ holds[w] \notin ElementsOf(ready) /\ holds[w] \notin delayed
  BY HeldIsLive
<1>2. InHand' = InHand \ {holds[w]}
  BY RestHands
<1>3. \A u, v \in Worker : pc'[u] # "idle" /\ pc'[v] # "idle" /\ holds'[u] = holds'[v]
          => u = v
  BY RestHands
<1>4. delayed' \subseteq JobId /\ jobs' \in [JobId -> Job \cup {NoJob}]
  BY <1>1 DEF IInv, TypeOK
<1>5. \A k \in JobId : jobs'[k] = jobs[k] \/ (k = holds[w] /\ jobs'[k] = NoJob)
  BY <1>1 DEF IInv, TypeOK
<1>6. /\ jobs' = jobs => {k \in JobId : Live(k)}' = {k \in JobId : Live(k)}
      /\ jobs' # jobs => {k \in JobId : Live(k)}' = {k \in JobId : Live(k)} \ {holds[w]}
  BY <1>1, <1>5 DEF IInv, TypeOK, Live
<1>7. jobs' = jobs => delayed' = delayed \cup {holds[w]}
  BY <1>1 DEF IInv, TypeOK, Live
<1>8. jobs' # jobs => delayed' = delayed
  OBVIOUS
<1>9. JobPlacement'
  BY <1>1, <1>2, <1>3, <1>6, <1>7, <1>8 DEF IInv, JobPlacement
<1>10. \A v \in Worker : Walking(v)'
  <2> TAKE v \in Worker
  <2>1. CASE v = w
    BY <2>1 DEF Rest, IInv, TypeOK, Walking
  <2>2. CASE v # w
    <3>1. pc'[v] = pc[v] /\ at'[v] = at[v] /\ holds'[v] = holds[v]
      BY <2>2 DEF Rest, IInv, TypeOK
    <3>2. pc[v] # "idle" => holds[v] # holds[w]
      BY <2>2 DEF IInv, JobPlacement
    <3>3. pc[v] # "idle" => jobs'[holds[v]] = jobs[holds[v]]
      BY <1>5, <3>2, HeldIsLive
    <3> QED BY <3>1, <3>3, OthersWalk DEF IInv, TypeOK
  <2> QED BY <2>1, <2>2
<1> QED BY <1>4, <1>9, <1>10

LEMMA FaultTypes ==
  ASSUME IInv, Fault
  PROVE  faults' \in 0..FaultBudget
  BY BoundAssumption DEF Fault, IInv, TypeOK

LEMMA ThrowInv ==
  ASSUME IInv, NEW w \in Worker, Throw(w)
  PROVE  IInv'
<1> USE DEF deviceVars
<1>1. pc[w] # "idle" /\ Rest(w) /\ UNCHANGED ready
  BY DEF Throw
<1>2. \/ delayed' = delayed \cup {holds[w]} /\ UNCHANGED <<jobs, audit>>
      \/ delayed' = delayed /\ FailJob(holds[w])
  BY DEF Throw
<1>3. audit' \subseteq Reader \X Status
  BY <1>1, <1>2, HeldIsLive, FailTypes DEF IInv, TypeOK
<1>4. /\ JobPlacement' /\ delayed' \subseteq JobId
      /\ jobs' \in [JobId -> Job \cup {NoJob}]
      /\ \A v \in Worker : Walking(v)'
  BY <1>1, <1>2, ReleaseInv DEF FailJob
<1>5. TypeOK'
  BY <1>1, <1>3, <1>4, RestTypes, FaultTypes DEF Throw, IInv, TypeOK
<1> QED BY <1>4, <1>5 DEF IInv

LEMMA CrashInv ==
  ASSUME IInv, NEW w \in Worker, Crash(w)
  PROVE  IInv'
<1> USE DEF deviceVars, storeVars
<1>1. /\ pc[w] # "idle" /\ Rest(w) /\ UNCHANGED <<ready, jobs>>
      /\ delayed' = delayed \cup {holds[w]}
  BY DEF Crash
<1>2. /\ JobPlacement' /\ delayed' \subseteq JobId
      /\ \A v \in Worker : Walking(v)'
  BY <1>1, ReleaseInv
<1>3. TypeOK'
  BY <1>1, <1>2, RestTypes, FaultTypes DEF Crash, IInv, TypeOK
<1> QED BY <1>2, <1>3 DEF IInv

LEMMA AcknowledgeInv ==
  ASSUME IInv, NEW w \in Worker, pc[w] # "idle", Acknowledge(w)
  PROVE  IInv'
<1> USE DEF deviceVars, storeVars
<1>1. /\ Rest(w) /\ UNCHANGED <<ready, delayed>>
      /\ jobs' = [jobs EXCEPT ![holds[w]] = NoJob]
  BY DEF Acknowledge
<1>2. /\ JobPlacement' /\ jobs' \in [JobId -> Job \cup {NoJob}]
      /\ \A v \in Worker : Walking(v)'
  BY <1>1, ReleaseInv
<1>3. TypeOK'
  BY <1>1, <1>2, RestTypes DEF Acknowledge, IInv, TypeOK
<1> QED BY <1>2, <1>3 DEF IInv

\* A step of handle() by worker w keeps every job's place and lets the other
\* workers walk on.
LEMMA HandleStep ==
  ASSUME IInv, NEW w \in Worker, pc[w] # "idle", UNCHANGED <<queueVars, holds>>,
         NEW s \in Stage \ {"idle"}, pc' = [pc EXCEPT ![w] = s],
         \A v \in Worker \ {w} : at'[v] = at[v]
  PROVE  /\ JobPlacement'
         /\ pc' \in [Worker -> Stage] /\ pc'[w] = s
         /\ Held(w)' = Held(w)
         /\ Walking(w)' => \A v \in Worker : Walking(v)'
<1>1. pc' \in [Worker -> Stage] /\ pc'[w] = s /\ \A v \in Worker \ {w} : pc'[v] = pc[v]
  BY DEF IInv, TypeOK
<1>2. JobPlacement'
  BY <1>1, SamePlaces DEF IInv
<1>3. Held(w)' = Held(w)
  BY DEF Held, queueVars
<1>4. \A v \in Worker \ {w} : Walking(v)'
  BY <1>1, OthersWalk DEF IInv, TypeOK, queueVars
<1> QED BY <1>1, <1>2, <1>3, <1>4

\* Going on in a list leaves the worker in its stage or takes it to the next one.
LEMMA AdvanceFacts ==
  ASSUME IInv, NEW w \in Worker, NEW list, NEW next \in Stage, Len(list) \in Nat,
         Advance(w, list, next)
  PROVE  /\ at' \in [Worker -> Nat \ {0}]
         /\ \A v \in Worker \ {w} : at'[v] = at[v]
         /\ \/ /\ pc' = [pc EXCEPT ![w] = pc[w]]
               /\ at[w] < Len(list) /\ at'[w] = at[w] + 1
            \/ pc' = [pc EXCEPT ![w] = next] /\ at'[w] = 1
  BY DEF Advance, IInv, TypeOK

LEMMA DecideInv ==
  ASSUME IInv, NEW w \in Worker, Decide(w)
  PROVE  IInv'
<1> USE DEF deviceVars, storeVars
<1> DEFINE r == Held(w).reader
<1>1. Held(w) \in Job /\ r \in Reader
  BY HeldIsLive DEF Decide, Job
<1>2. Outputs[r] # <<>> /\ 1 <= Len(Outputs[r])
  BY <1>1, ListFacts DEF Decide
<1>3. PICK legible \in SUBSET DOMAIN Outputs[r] : goal' = [goal EXCEPT ![w] = newLocked(Held(w), legible)]
  BY DEF Decide
<1>4. newLocked(Held(w), legible) \in Power
  BY <1>1 DEF newLocked, Opposite, Power, Job
<1>5. /\ JobPlacement'
      /\ pc' \in [Worker -> Stage] /\ pc'[w] = "write"
      /\ Held(w)' = Held(w)
      /\ Walking(w)' => \A v \in Worker : Walking(v)'
  BY HandleStep DEF Decide, Stage
<1>6. at[w] = 1
  BY DEF Decide, IInv, TypeOK, Walking
<1>7. Walking(w)'
  BY <1>2, <1>5, <1>6 DEF Decide, Walking
<1>8. TypeOK'
  BY <1>3, <1>4, <1>5, <1>7 DEF Decide, queueVars, IInv, TypeOK
<1> QED BY <1>5, <1>8 DEF IInv

LEMMA WriteInv ==
  ASSUME IInv, NEW w \in Worker, Write(w)
  PROVE  IInv'
<1> USE DEF storeVars
<1> DEFINE r == Held(w).reader
           c == Outputs[r][at[w]]
<1>1. Held(w) \in Job /\ r \in Reader
  BY HeldIsLive DEF Write, Job
<1>2. pc[w] = "write" /\ at[w] \in 1..Len(Outputs[r]) /\ Len(Outputs[r]) \in Nat
  BY <1>1, ListFacts DEF Write, IInv, TypeOK, Walking
<1>3. c \in Channel
  BY <1>1, <1>2, ListFacts
<1>4. /\ at' \in [Worker -> Nat \ {0}]
      /\ \A v \in Worker \ {w} : at'[v] = at[v]
      /\ \E s \in {"write", "expect"} :
           /\ pc' = [pc EXCEPT ![w] = s]
           /\ s = "write" => at'[w] <= Len(Outputs[r])
           /\ s = "expect" => at'[w] = 1
  BY <1>2, AdvanceFacts DEF Write, Stage
<1>5. PICK s \in {"write", "expect"} :
        /\ pc' = [pc EXCEPT ![w] = s]
        /\ s = "write" => at'[w] <= Len(Outputs[r])
        /\ s = "expect" => at'[w] = 1
  BY <1>4
<1>6. /\ JobPlacement' /\ pc' \in [Worker -> Stage] /\ pc'[w] = s
      /\ Walking(w)' => \A v \in Worker : Walking(v)'
      /\ Held(w)' = Held(w)
  BY <1>2, <1>4, <1>5, HandleStep DEF Write, Stage
<1>7. Walking(w)'
  BY <1>5, <1>6 DEF Walking
<1>8. TypeOK'
  BY <1>3, <1>4, <1>6, <1>7 DEF Write, queueVars, IInv, TypeOK
<1> QED BY <1>6, <1>8 DEF IInv

LEMMA StoreExpectedInv ==
  ASSUME IInv, NEW w \in Worker, StoreExpected(w)
  PROVE  IInv'
<1> USE DEF deviceVars
<1> DEFINE r == Held(w).reader
<1>1. Held(w) \in Job /\ r \in Reader
  BY HeldIsLive DEF StoreExpected, Job
<1>2. at[w] = 1
  BY DEF StoreExpected, IInv, TypeOK, Walking
<1>3. PICK s \in {"build", "record"} :
        /\ pc' = [pc EXCEPT ![w] = s]
        /\ s = "record" => StoredLocks[r] # <<>>
  BY DEF StoreExpected
<1>4. /\ JobPlacement' /\ pc' \in [Worker -> Stage] /\ pc'[w] = s
      /\ Walking(w)' => \A v \in Worker : Walking(v)'
      /\ Held(w)' = Held(w)
  BY <1>3, HandleStep DEF StoreExpected, Stage
<1>5. Walking(w)'
  BY <1>1, <1>2, <1>3, <1>4, ListFacts DEF StoreExpected, Walking
<1>6. TypeOK'
  BY <1>1, <1>4, <1>5 DEF StoreExpected, queueVars, IInv, TypeOK
<1> QED BY <1>4, <1>6 DEF IInv

LEMMA RecordLockStateInv ==
  ASSUME IInv, NEW w \in Worker, RecordLockState(w)
  PROVE  IInv'
<1> USE DEF deviceVars
<1> DEFINE r == Held(w).reader
           l == StoredLocks[r][at[w]]
<1>1. Held(w) \in Job /\ r \in Reader
  BY HeldIsLive DEF RecordLockState, Job
<1>2. /\ pc[w] = "record" /\ at[w] \in 1..Len(StoredLocks[r])
      /\ Len(StoredLocks[r]) \in Nat
  BY <1>1, ListFacts DEF RecordLockState, IInv, TypeOK, Walking
<1>3. l \in Lock /\ goal[w] \in LockStates
  BY <1>1, <1>2, ListFacts DEF IInv, TypeOK, LockStates
<1>4. /\ at' \in [Worker -> Nat \ {0}]
      /\ \A v \in Worker \ {w} : at'[v] = at[v]
      /\ \E s \in {"record", "build"} :
           /\ pc' = [pc EXCEPT ![w] = s]
           /\ s = "record" => at'[w] <= Len(StoredLocks[r])
           /\ s = "build" => at'[w] = 1
  BY <1>2, AdvanceFacts DEF RecordLockState, Stage
<1>5. PICK s \in {"record", "build"} :
        /\ pc' = [pc EXCEPT ![w] = s]
        /\ s = "record" => at'[w] <= Len(StoredLocks[r])
        /\ s = "build" => at'[w] = 1
  BY <1>4
<1>6. /\ JobPlacement' /\ pc' \in [Worker -> Stage] /\ pc'[w] = s
      /\ Walking(w)' => \A v \in Worker : Walking(v)'
      /\ Held(w)' = Held(w)
  BY <1>2, <1>4, <1>5, HandleStep DEF RecordLockState, Stage
<1>7. Walking(w)'
  BY <1>5, <1>6 DEF Walking
<1>8. TypeOK'
  BY <1>3, <1>4, <1>6, <1>7 DEF RecordLockState, queueVars, IInv, TypeOK
<1> QED BY <1>6, <1>8 DEF IInv

LEMMA BuildPayloadsInv ==
  ASSUME IInv, NEW w \in Worker, BuildPayloads(w)
  PROVE  IInv'
<1> USE DEF deviceVars, storeVars
<1> DEFINE r == Held(w).reader
<1>1. Held(w) \in Job /\ r \in Reader
  BY HeldIsLive DEF BuildPayloads, Job
<1>2. at[w] = 1
  BY DEF BuildPayloads, IInv, TypeOK, Walking
<1>3. PICK s \in {"send", "event"} :
        /\ pc' = [pc EXCEPT ![w] = s]
        /\ s = "send" => TopicLocks[r] # <<>>
  BY DEF BuildPayloads
<1>4. /\ JobPlacement' /\ pc' \in [Worker -> Stage] /\ pc'[w] = s
      /\ Walking(w)' => \A v \in Worker : Walking(v)'
      /\ Held(w)' = Held(w)
  BY <1>3, HandleStep DEF BuildPayloads, Stage
<1>5. Walking(w)'
  BY <1>1, <1>2, <1>3, <1>4, ListFacts DEF BuildPayloads, Walking
<1>6. snap' \in [Worker -> [Lock -> LockStates]]
  BY DEF BuildPayloads, IInv, TypeOK, LockStates
<1>7. TypeOK'
  BY <1>4, <1>5, <1>6 DEF BuildPayloads, queueVars, IInv, TypeOK
<1> QED BY <1>4, <1>7 DEF IInv

LEMMA SendPayloadInv ==
  ASSUME IInv, NEW w \in Worker, SendPayload(w)
  PROVE  IInv'
<1> USE DEF deviceVars
<1> DEFINE r == Held(w).reader
           l == TopicLocks[r][at[w]]
<1>1. Held(w) \in Job /\ r \in Reader
  BY HeldIsLive DEF SendPayload, Job
<1>2. /\ pc[w] = "send" /\ at[w] \in 1..Len(TopicLocks[r])
      /\ Len(TopicLocks[r]) \in Nat
  BY <1>1, ListFacts DEF SendPayload, IInv, TypeOK, Walking
<1>3. l \in Lock /\ snap[w][l] \in LockStates
  BY <1>1, <1>2, ListFacts DEF IInv, TypeOK
<1>4. /\ at' \in [Worker -> Nat \ {0}]
      /\ \A v \in Worker \ {w} : at'[v] = at[v]
      /\ \E s \in {"send", "event"} :
           /\ pc' = [pc EXCEPT ![w] = s]
           /\ s = "send" => at'[w] <= Len(TopicLocks[r])
           /\ s = "event" => at'[w] = 1
  BY <1>2, AdvanceFacts DEF SendPayload, Stage
<1>5. PICK s \in {"send", "event"} :
        /\ pc' = [pc EXCEPT ![w] = s]
        /\ s = "send" => at'[w] <= Len(TopicLocks[r])
        /\ s = "event" => at'[w] = 1
  BY <1>4
<1>6. /\ JobPlacement' /\ pc' \in [Worker -> Stage] /\ pc'[w] = s
      /\ Walking(w)' => \A v \in Worker : Walking(v)'
      /\ Held(w)' = Held(w)
  BY <1>2, <1>4, <1>5, HandleStep DEF SendPayload, Stage
<1>7. Walking(w)'
  BY <1>5, <1>6 DEF Walking
<1>8. retained' \in [Lock -> LockStates] /\ faults' \in 0..FaultBudget
  BY <1>3, FaultTypes DEF SendPayload, IInv, TypeOK
<1>9. TypeOK'
  BY <1>4, <1>6, <1>7, <1>8 DEF SendPayload, queueVars, IInv, TypeOK
<1> QED BY <1>6, <1>9 DEF IInv

LEMMA RecordEventInv ==
  ASSUME IInv, NEW w \in Worker, RecordEvent(w)
  PROVE  IInv'
<1> USE DEF deviceVars
<1>1. /\ pc[w] = "event" /\ at[w] = 1 /\ Held(w) \in Job
  BY HeldIsLive DEF RecordEvent, IInv, TypeOK, Walking
<1>2. /\ JobPlacement' /\ pc' \in [Worker -> Stage] /\ pc'[w] = "relock"
      /\ Walking(w)' => \A v \in Worker : Walking(v)'
  BY <1>1, HandleStep DEF RecordEvent, Stage
<1>3. Walking(w)'
  BY <1>1, <1>2 DEF RecordEvent, Walking
<1>4. audit' \subseteq Reader \X Status
  BY <1>1 DEF RecordEvent, IInv, TypeOK, Job, Status
<1>5. TypeOK'
  BY <1>2, <1>3, <1>4 DEF RecordEvent, queueVars, IInv, TypeOK
<1> QED BY <1>2, <1>5 DEF IInv

LEMMA ScheduleRelockInv ==
  ASSUME IInv, NEW w \in Worker, ScheduleRelock(w)
  PROVE  IInv'
<1> USE DEF deviceVars, storeVars
<1> DEFINE r == Held(w).reader
           relock == NewJob(r, Locked, FALSE)
<1>1. /\ pc[w] = "relock" /\ at[w] = 1
      /\ holds[w] \in JobId /\ Live(holds[w]) /\ Held(w) \in Job /\ r \in Reader
  BY HeldIsLive DEF ScheduleRelock, Job, IInv, TypeOK, Walking
<1>2. CASE ~(goal[w] = Unlocked /\ Relocks(Held(w)))
  <2>1. /\ UNCHANGED <<queueVars, holds, goal, at, snap>>
        /\ pc' = [pc EXCEPT ![w] = "ack"]
    BY <1>2 DEF ScheduleRelock, queueVars
  <2>2. /\ JobPlacement' /\ pc' \in [Worker -> Stage] /\ pc'[w] = "ack"
        /\ Walking(w)' => \A v \in Worker : Walking(v)'
    BY <1>1, <2>1, HandleStep DEF Stage
  <2>3. Walking(w)'
    BY <1>1, <2>1, <2>2 DEF Walking
  <2>4. TypeOK'
    BY <2>1, <2>2, <2>3 DEF ScheduleRelock, queueVars, IInv, TypeOK
  <2> QED BY <2>2, <2>4 DEF IInv
<1>3. CASE goal[w] = Unlocked /\ Relocks(Held(w))
  <2> DEFINE j == FreeId
  <2>1. /\ HasRoom
        /\ jobs' = [jobs EXCEPT ![j] = relock]
        /\ delayed' = delayed \cup {j}
        /\ pc' = [pc EXCEPT ![w] = "ack"]
        /\ UNCHANGED <<ready, holds, goal, at, snap>>
    BY <1>3 DEF ScheduleRelock
  <2>2. /\ j \in JobId /\ ~Live(j)
        /\ j \notin ElementsOf(ready) /\ j \notin delayed /\ j \notin InHand
    BY <2>1, FreeIdFacts
  <2>3. relock \in Job
    BY <1>1, BoundAssumption DEF NewJob, Job, Power
  <2>4. /\ jobs' \in [JobId -> Job \cup {NoJob}] /\ jobs'[j] = relock
        /\ \A k \in JobId \ {j} : jobs'[k] = jobs[k]
    BY <2>1, <2>2, <2>3 DEF IInv, TypeOK
  <2>5. /\ pc' \in [Worker -> Stage] /\ pc'[w] = "ack"
        /\ \A v \in Worker \ {w} : pc'[v] = pc[v]
    BY <2>1 DEF IInv, TypeOK, Stage
  <2>6. \A v \in Worker : Walking(v)'
    <3> TAKE v \in Worker
    <3>1. CASE v = w
      BY <1>1, <2>1, <2>5, <3>1 DEF Walking
    <3>2. CASE v # w
      <4>1. pc[v] # "idle" => holds[v] # j
        BY <2>2 DEF InHand
      <4>2. pc[v] # "idle" => jobs'[holds[v]] = jobs[holds[v]]
        BY <2>4, <4>1, HeldIsLive
      <4> QED BY <2>1, <2>5, <3>2, <4>2, OthersWalk DEF IInv, TypeOK
    <3> QED BY <3>1, <3>2
  <2>7. TypeOK'
    BY <2>1, <2>2, <2>4, <2>5, <2>6 DEF ScheduleRelock, IInv, TypeOK
  <2>8. InHand' = InHand
    BY <1>1, <2>1, <2>5 DEF InHand
  <2>9. {k \in JobId : Live(k)}' = {k \in JobId : Live(k)} \cup {j}
    BY <2>2, <2>3, <2>4, BoundAssumption DEF Live
  <2>10. \A u, v \in Worker : pc'[u] # "idle" /\ pc'[v] # "idle" /\ holds'[u] = holds'[v]
           => u = v
    BY <1>1, <2>1, <2>5 DEF IInv, JobPlacement
  <2>11. JobPlacement'
    BY <2>1, <2>2, <2>8, <2>9, <2>10 DEF IInv, JobPlacement
  <2> QED BY <2>7, <2>11 DEF IInv
<1> QED BY <1>2, <1>3

LEMMA StutterInv ==
  ASSUME IInv, UNCHANGED vars
  PROVE  IInv'
<1> USE DEF vars, deviceVars, storeVars, queueVars, workerVars
<1>1. JobPlacement'
  BY SamePlaces DEF IInv
<1>2. \A v \in Worker : Walking(v)'
  BY OthersWalk DEF IInv, TypeOK
<1>3. TypeOK'
  BY <1>2 DEF IInv, TypeOK
<1> QED BY <1>1, <1>3 DEF IInv

LEMMA StepInv == IInv /\ [Next]_vars => IInv'
<1> SUFFICES ASSUME IInv, [Next]_vars PROVE IInv'
  OBVIOUS
<1>1. CASE Request
  BY <1>1, RequestInv
<1>2. ASSUME NEW j \in JobId, Mature(j) PROVE IInv'
  BY <1>2, MatureInv
<1>3. ASSUME NEW w \in Worker, Run(w) PROVE IInv'
  <2>1. CASE Reserve(w)
    BY <2>1, ReserveInv
  <2>2. CASE DropUnbound(w) \/ Ack(w)
    BY <2>2, AcknowledgeInv DEF DropUnbound, Ack
  <2>3. CASE Decide(w)
    BY <2>3, DecideInv
  <2>4. CASE Write(w)
    BY <2>4, WriteInv
  <2>5. CASE StoreExpected(w)
    BY <2>5, StoreExpectedInv
  <2>6. CASE RecordLockState(w)
    BY <2>6, RecordLockStateInv
  <2>7. CASE BuildPayloads(w)
    BY <2>7, BuildPayloadsInv
  <2>8. CASE SendPayload(w)
    BY <2>8, SendPayloadInv
  <2>9. CASE RecordEvent(w)
    BY <2>9, RecordEventInv
  <2>10. CASE ScheduleRelock(w)
    BY <2>10, ScheduleRelockInv
  <2> QED BY <1>3, <2>1, <2>2, <2>3, <2>4, <2>5, <2>6, <2>7, <2>8, <2>9, <2>10 DEF Run
<1>4. ASSUME NEW w \in Worker, Throw(w) \/ Crash(w) PROVE IInv'
  BY <1>4, ThrowInv, CrashInv
<1>5. CASE UNCHANGED vars
  BY <1>5, StutterInv
<1> QED BY <1>1, <1>2, <1>3, <1>4, <1>5 DEF Next

\* The inductive invariant holds in every reachable state.
THEOREM Inductive == Spec => []IInv
  BY InitInv, StepInv, PTL DEF Spec

\* Every variable keeps its type and no worker leaves the list it walks through,
\* whatever the wiring, the number of workers and the failures.
THEOREM TypeCorrect == Spec => []TypeOK
<1>1. IInv => TypeOK
  BY DEF IInv
<1> QED BY Inductive, <1>1, PTL

\* No command is lost or run twice at once: for any number of workers, retries,
\* crashes and redeliveries, every job that is not deleted is in exactly one place.
THEOREM JobsArePlaced == Spec => []JobPlacement
<1>1. IInv => JobPlacement
  BY DEF IInv
<1> QED BY Inductive, <1>1, PTL

-----------------------------------------------------------------------------
(***************************************************************************)
(* AutoRelockOwed.  It needs nothing beyond the inductive invariant: a     *)
(* channel's debt is passed on from job to job, and each lemma below says  *)
(* who owes it after a step.                                               *)
(***************************************************************************)

\* A step that neither changes the job nor moves the worker that holds it leaves
\* the job owing what it owed.
LEMMA OwesKept ==
  ASSUME NEW j \in JobId, NEW c, Owes(j, c), jobs'[j] = jobs[j],
         \A v \in Worker : pc'[v] # "idle" /\ holds'[v] = j =>
           /\ pc'[v] = pc[v] /\ holds'[v] = holds[v]
           /\ goal'[v] = goal[v] /\ at'[v] = at[v]
  PROVE  Owes(j, c)'
<1>1. Live(j)' /\ c \in Drives(jobs'[j].reader)
  BY DEF Owes, Live
<1>2. ASSUME NEW v \in Worker, pc'[v] # "idle", holds'[v] = j PROVE StillOwes(v, c)'
  BY <1>2 DEF Owes, StillOwes, Held
<1> QED BY <1>1, <1>2 DEF Owes, Drives, ElementsOf

\* The worker that has just stepped on with its job owes the channel itself.
LEMMA OwesByWorker ==
  ASSUME IInv', NEW w \in Worker, pc'[w] # "idle", NEW c,
         c \in Drives(jobs'[holds'[w]].reader), StillOwes(w, c)'
  PROVE  \E j \in JobId : Owes(j, c)'
<1>1. holds'[w] \in JobId /\ Live(holds[w])'
  BY DEF IInv, JobPlacement, InHand
<1>2. \A v \in Worker : pc'[v] # "idle" /\ holds'[v] = holds'[w] => v = w
  BY DEF IInv, JobPlacement
<1> QED BY <1>1, <1>2 DEF Owes, Live, Drives, ElementsOf

\* A job nobody holds owes every channel it drives.
LEMMA OwesUnheld ==
  ASSUME NEW j \in JobId, NEW c, jobs'[j] # NoJob, c \in Drives(jobs'[j].reader),
         \A v \in Worker : pc'[v] # "idle" => holds'[v] # j
  PROVE  Owes(j, c)'
  BY DEF Owes, Live, Drives, ElementsOf

\* Failing a job tells of every door its reader drives.
LEMMA FailTells ==
  ASSUME NEW j \in JobId, NEW c, FailJob(j), jobs[j] \in Job, c \in Drives(jobs[j].reader)
  PROVE  \E r \in Reader : c \in Drives(r) /\ CommandFailed(r)'
<1>1. jobs[j].reader \in Reader
  BY DEF Job
<1> QED BY <1>1 DEF FailJob, CommandFailed

\* Steps that dispatch a command or move a job between the queue and the delayed set.
LEMMA QueueOwes ==
  ASSUME IInv, NEW c, NEW j \in JobId, Owes(j, c),
         \/ \E source : \E r \in Reader, target \in Power \cup {Toggle}, relock \in BOOLEAN :
              Dispatch(source, r, target, relock)
         \/ \E k \in JobId : Mature(k)
  PROVE  Owes(j, c)'
<1> USE DEF workerVars
<1>1. UNCHANGED workerVars
  BY DEF Dispatch, Mature
<1>2. jobs'[j] = jobs[j]
  BY FreeIdFacts DEF Dispatch, Mature, Owes, IInv, TypeOK
<1> QED BY <1>1, <1>2, OwesKept

LEMMA ReserveOwes ==
  ASSUME IInv, IInv', NEW w \in Worker, Reserve(w), NEW c, NEW j \in JobId, Owes(j, c)
  PROVE  \/ \E k \in JobId : Owes(k, c)'
         \/ \E r \in Reader : c \in Drives(r) /\ CommandFailed(r)'
<1> DEFINE h == Head(ready)
<1> USE DEF workerVars
<1>1. h \in JobId /\ Live(h) /\ jobs[h] \in Job
  <2>1. ready \in Seq(JobId) /\ Distinct(ready)
    BY DEF IInv, TypeOK, JobPlacement, Distinct
  <2>2. ready # <<>>
    BY DEF Reserve
  <2>3. h \in JobId /\ h \in ElementsOf(ready)
    BY <2>1, <2>2, PopFacts
  <2> QED BY <2>3 DEF IInv, TypeOK, JobPlacement, Live
<1>2. CASE jobs[h].tries >= MaxTries
  <2>1. FailJob(h) /\ UNCHANGED workerVars
    BY <1>2 DEF Reserve
  <2>2. CASE j = h
    BY <1>1, <2>1, <2>2, FailTells DEF Owes
  <2>3. CASE j # h
    <3>1. jobs'[j] = jobs[j]
      BY <2>1, <2>3 DEF FailJob, IInv, TypeOK
    <3> QED BY <2>1, <3>1, OwesKept
  <2> QED BY <2>2, <2>3
<1>3. CASE ~(jobs[h].tries >= MaxTries)
  <2>1. /\ jobs' = [jobs EXCEPT ![h].tries = @ + 1]
        /\ pc' = [pc EXCEPT ![w] = "decide"]
        /\ holds' = [holds EXCEPT ![w] = h]
        /\ UNCHANGED <<goal, at>>
    BY <1>3 DEF Reserve
  <2>2. pc'[w] = "decide" /\ holds'[w] = h
    BY <2>1 DEF IInv, TypeOK
  <2>3. CASE j = h
    <3>1. jobs'[h].reader = jobs[h].reader
      BY <1>1, <2>1 DEF IInv, TypeOK, Job
    <3>2. StillOwes(w, c)'
      BY <2>2 DEF StillOwes
    <3> QED BY <2>2, <2>3, <3>1, <3>2, OwesByWorker DEF Owes
  <2>4. CASE j # h
    <3>1. jobs'[j] = jobs[j]
      BY <2>1, <2>4 DEF IInv, TypeOK
    <3>2. \A v \in Worker : holds'[v] = j => pc'[v] = pc[v] /\ holds'[v] = holds[v]
      BY <2>1, <2>2, <2>4 DEF IInv, TypeOK
    <3> QED BY <2>1, <3>1, <3>2, OwesKept
  <2> QED BY <2>3, <2>4
<1> QED BY <1>2, <1>3

\* Releasing the job: it is delayed, or failed and told of, or had nothing to do.
LEMMA ReleaseOwes ==
  ASSUME IInv, IInv', NEW w \in Worker, NEW c, NEW j \in JobId, Owes(j, c),
         Throw(w) \/ Crash(w) \/ DropUnbound(w) \/ Ack(w)
  PROVE  \/ \E k \in JobId : Owes(k, c)'
         \/ \E r \in Reader : c \in Drives(r) /\ CommandFailed(r)'
<1> DEFINE h == holds[w]
<1>1. pc[w] # "idle" /\ Rest(w)
  BY DEF Throw, Crash, DropUnbound, Ack, Acknowledge
<1>2. h \in JobId /\ Live(h) /\ jobs[h] \in Job
  BY <1>1, HeldIsLive DEF Held
<1>3. /\ pc'[w] = "idle"
      /\ \A v \in Worker \ {w} : /\ pc'[v] = pc[v] /\ holds'[v] = holds[v]
                                 /\ goal'[v] = goal[v] /\ at'[v] = at[v]
  BY <1>1 DEF Rest, IInv, TypeOK
<1>4. \/ UNCHANGED jobs
      \/ FailJob(h)
      \/ /\ jobs' = [jobs EXCEPT ![h] = NoJob]
         /\ DropUnbound(w) \/ Ack(w)
  BY DEF Throw, Crash, DropUnbound, Ack, Acknowledge
<1>5. CASE j # h
  <2>1. jobs'[j] = jobs[j]
    BY <1>4, <1>5 DEF FailJob, IInv, TypeOK
  <2> QED BY <1>3, <2>1, OwesKept
<1>6. CASE j = h /\ UNCHANGED jobs
  <2>1. jobs'[h] # NoJob /\ c \in Drives(jobs'[h].reader)
    BY <1>2, <1>6 DEF Owes, Live
  <2>2. \A v \in Worker : pc'[v] # "idle" => holds'[v] # h
    BY <1>1, <1>3 DEF IInv, JobPlacement
  <2> QED BY <1>2, <2>1, <2>2, OwesUnheld
<1>7. CASE j = h /\ FailJob(h)
  BY <1>2, <1>7, FailTells DEF Owes
<1>8. CASE j = h /\ (DropUnbound(w) \/ Ack(w))
  <2>1. ~Ack(w)
    BY <1>1, <1>8 DEF Owes, StillOwes, Ack
  <2>2. Drives(jobs[h].reader) = {}
    BY <1>8, <2>1 DEF DropUnbound, Drives, ElementsOf, Held
  <2> QED BY <1>8, <2>2 DEF Owes
<1> QED BY <1>4, <1>5, <1>6, <1>7, <1>8

\* The steps of handle() up to the event: the worker goes on owing.
LEMMA HandleOwes ==
  ASSUME IInv, IInv', NEW w \in Worker, NEW c, NEW j \in JobId, Owes(j, c),
         \/ Decide(w) \/ StoreExpected(w) \/ RecordLockState(w)
         \/ BuildPayloads(w) \/ SendPayload(w) \/ RecordEvent(w)
  PROVE  \E k \in JobId : Owes(k, c)'
<1> DEFINE r == Held(w).reader
<1> USE DEF queueVars
<1>1. UNCHANGED <<jobs, holds>>
  BY DEF Decide, StoreExpected, RecordLockState, BuildPayloads, SendPayload, RecordEvent
<1>2. \A v \in Worker \ {w} : pc'[v] = pc[v] /\ goal'[v] = goal[v] /\ at'[v] = at[v]
  BY DEF Decide, StoreExpected, RecordLockState, BuildPayloads, SendPayload, RecordEvent, Advance,
         IInv, TypeOK
<1>3. pc[w] # "idle" /\ Held(w) \in Job /\ r \in Reader
  BY HeldIsLive DEF Decide, StoreExpected, RecordLockState, BuildPayloads, SendPayload, RecordEvent, Job
<1>4. CASE j # holds[w]
  BY <1>1, <1>2, <1>4, OwesKept
<1>5. CASE j = holds[w]
  <2>1. c \in Drives(r) /\ StillOwes(w, c)
    BY <1>3, <1>5 DEF Owes, Held
  <2>2. Held(w)' = Held(w)
    BY <1>1 DEF Held
  <2>3. CASE Decide(w)
    <3>1. pc'[w] = "write" /\ at'[w] = 1
      BY <2>3 DEF Decide, IInv, TypeOK, Walking
    <3>2. \E i \in 1..Len(Outputs[r]) : Outputs[r][i] = c
      BY <1>3, <2>1, ListFacts DEF Drives, ElementsOf
    <3> QED BY <1>1, <1>3, <2>1, <2>2, <3>1, <3>2, OwesByWorker DEF StillOwes, Held
  <2>4. CASE ~Decide(w)
    <3>1. /\ pc[w] \in {"expect", "record", "build", "send", "event"}
          /\ pc'[w] \in {"record", "build", "send", "event", "relock"}
          /\ goal' = goal
      BY <2>4 DEF StoreExpected, RecordLockState, BuildPayloads, SendPayload, RecordEvent, Advance,
                  IInv, TypeOK
    <3>2. goal[w] = Unlocked /\ Relocks(Held(w))
      BY <2>1, <3>1 DEF StillOwes
    <3>3. Relocks(Held(w))'
      BY <2>2, <3>2 DEF Relocks
    <3>4. StillOwes(w, c)'
      BY <3>1, <3>2, <3>3 DEF StillOwes
    <3> QED BY <1>1, <2>1, <3>1, <3>4, OwesByWorker DEF Held
  <2> QED BY <2>3, <2>4
<1> QED BY <1>4, <1>5

\* A write settles the channel, or opens it and owes its relock; the other channels
\* are still ahead of it.
LEMMA WriteOwes ==
  ASSUME IInv, IInv', NEW w \in Worker, Write(w), NEW c \in autoOpened',
         \/ \E j \in JobId : Owes(j, c)
         \/ c \notin autoOpened
  PROVE  \E k \in JobId : Owes(k, c)'
<1> DEFINE r == Held(w).reader
           written == Outputs[r][at[w]]
<1> USE DEF queueVars
<1>1. /\ pc[w] = "write" /\ Held(w) \in Job /\ r \in Reader
      /\ Held(w)' = Held(w) /\ UNCHANGED <<jobs, holds, goal>>
  BY HeldIsLive DEF Write, Job, Held
<1>2. at[w] \in 1..Len(Outputs[r]) /\ Len(Outputs[r]) \in Nat
  BY <1>1, ListFacts DEF IInv, TypeOK, Walking
<1>3. /\ \A v \in Worker \ {w} : pc'[v] = pc[v] /\ at'[v] = at[v]
      /\ pc'[w] \in {"write", "expect"}
      /\ at[w] < Len(Outputs[r]) => pc'[w] = "write" /\ at'[w] = at[w] + 1
  BY <1>1 DEF Write, Advance, IInv, TypeOK
<1>4. CASE goal[w] = Unlocked /\ Relocks(Held(w)) /\ c \in Drives(r)
  <2>1. Relocks(Held(w))'
    BY <1>1, <1>4 DEF Relocks
  <2>2. StillOwes(w, c)'
    BY <1>1, <1>3, <1>4, <2>1 DEF StillOwes
  <2> QED BY <1>1, <1>3, <1>4, <2>2, OwesByWorker DEF Held
<1>5. CASE ~(goal[w] = Unlocked /\ Relocks(Held(w)) /\ c \in Drives(r))
  <2>1. written \in Drives(r)
    BY <1>1, <1>2, ListFacts DEF Drives, ElementsOf
  <2>2. c # written /\ c \in autoOpened
    BY <1>1, <1>5, <2>1 DEF Write
  <2>3. PICK j \in JobId : Owes(j, c)
    BY <2>2
  <2>4. CASE j # holds[w]
    BY <1>1, <1>3, <2>3, <2>4, OwesKept
  <2>5. CASE j = holds[w]
    <3>1. c \in Drives(r) /\ StillOwes(w, c)
      BY <1>1, <2>3, <2>5 DEF Owes, Held
    <3>2. PICK i \in at[w]..Len(Outputs[r]) : Outputs[r][i] = c
      BY <1>1, <1>5, <3>1 DEF StillOwes
    <3>3. i # at[w]
      BY <2>2, <3>2
    <3>4. i \in (at[w] + 1)..Len(Outputs[r]) /\ at[w] < Len(Outputs[r])
      BY <1>2, <3>2, <3>3
    <3>5. StillOwes(w, c)'
      BY <1>1, <1>3, <3>2, <3>4 DEF StillOwes
    <3> QED BY <1>1, <1>3, <3>1, <3>5, OwesByWorker DEF Held
  <2> QED BY <2>4, <2>5
<1> QED BY <1>4, <1>5

\* Scheduling hands the debt to the relock job.
LEMMA RelockOwes ==
  ASSUME IInv, IInv', NEW w \in Worker, ScheduleRelock(w), NEW c, NEW j \in JobId, Owes(j, c)
  PROVE  \E k \in JobId : Owes(k, c)'
<1> DEFINE h == FreeId
<1>1. /\ pc[w] = "relock" /\ UNCHANGED <<holds, goal, at>>
      /\ holds[w] \in JobId /\ Held(w) \in Job
      /\ \A v \in Worker \ {w} : pc'[v] = pc[v]
      /\ pc'[w] = "ack"
  BY HeldIsLive DEF ScheduleRelock, IInv, TypeOK
<1>2. CASE j # holds[w]
  <2>1. jobs'[j] = jobs[j]
    BY FreeIdFacts DEF ScheduleRelock, Owes, IInv, TypeOK
  <2> QED BY <1>1, <1>2, <2>1, OwesKept
<1>3. CASE j = holds[w]
  <2>1. c \in Drives(Held(w).reader) /\ goal[w] = Unlocked /\ Relocks(Held(w))
    BY <1>1, <1>3 DEF Owes, StillOwes, Held
  <2>2. /\ HasRoom
        /\ jobs' = [jobs EXCEPT ![h] = NewJob(Held(w).reader, Locked, FALSE)]
    BY <2>1 DEF ScheduleRelock
  <2>3. h \in JobId /\ h \notin InHand
    BY <2>2, FreeIdFacts
  <2>4. jobs'[h] = NewJob(Held(w).reader, Locked, FALSE) /\ jobs'[h] \in Job
    BY <1>1, <2>2, <2>3, BoundAssumption DEF IInv, TypeOK, NewJob, Job, Power
  <2>5. jobs'[h] # NoJob /\ c \in Drives(jobs'[h].reader)
    <3>1. jobs'[h].reader = Held(w).reader
      BY <2>4 DEF NewJob
    <3>2. jobs'[h] # NoJob
      BY <2>4, BoundAssumption
    <3> QED BY <2>1, <3>1, <3>2
  <2>6. \A v \in Worker : pc'[v] # "idle" => holds'[v] # h
    BY <1>1, <2>3 DEF InHand
  <2> QED BY <2>3, <2>5, <2>6, OwesUnheld
<1> QED BY <1>2, <1>3

LEMMA RelockOwedStep ==
  ASSUME IInv, IInv', AutoRelockOwed, [Next]_vars
  PROVE  AutoRelockOwed'
<1> DEFINE Told(c) == \E r \in Reader : c \in Drives(r) /\ CommandFailed(r)
<1> SUFFICES ASSUME NEW c \in autoOpened'
             PROVE  (\E k \in JobId : Owes(k, c)') \/ Told(c)'
  BY DEF AutoRelockOwed, Drives, ElementsOf
<1> USE DEF deviceVars, storeVars
<1>1. audit \subseteq audit'
  BY DEF Next, Request, CardGranted, MqttCommand, WebhookLock, WebhookUnlock, LockApi, ReaderApi,
         AreaControl, DashboardToggle, Dispatch, Mature, Run, Reserve, FailJob, DropUnbound,
         Acknowledge, Ack, Decide, Write, StoreExpected, RecordLockState, BuildPayloads,
         SendPayload, RecordEvent, ScheduleRelock, Throw, Crash, vars
<1>2. Told(c) => Told(c)'
  BY <1>1 DEF CommandFailed, Drives, ElementsOf
<1>3. CASE \E w \in Worker : Write(w)
  <2>1. PICK w \in Worker : Write(w)
    BY <1>3
  <2>2. \/ \E j \in JobId : Owes(j, c)
        \/ c \notin autoOpened
        \/ Told(c)
    BY DEF AutoRelockOwed
  <2> QED BY <1>2, <2>1, <2>2, WriteOwes
<1>4. CASE ~\E w \in Worker : Write(w)
  <2>1. autoOpened' = autoOpened
    BY <1>4 DEF Next, Request, CardGranted, MqttCommand, WebhookLock, WebhookUnlock, LockApi,
         ReaderApi, AreaControl, DashboardToggle, Dispatch, Mature, Run, Reserve, FailJob,
         DropUnbound, Acknowledge, Ack, Decide, StoreExpected, RecordLockState, BuildPayloads,
         SendPayload, RecordEvent, ScheduleRelock, Throw, Crash, vars
  <2>2. CASE Told(c)
    BY <1>2, <2>2
  <2>3. ASSUME NEW j \in JobId, Owes(j, c)
        PROVE  (\E k \in JobId : Owes(k, c)') \/ Told(c)'
    <3> USE <2>3
    <3>1. CASE Request
      <4>1. \E source : \E r \in Reader, target \in Power \cup {Toggle}, relock \in BOOLEAN :
              Dispatch(source, r, target, relock)
        BY <3>1, WiringAssumption DEF Request, CardGranted, MqttCommand, WebhookLock,
           WebhookUnlock, LockApi, ReaderApi, AreaControl, DashboardToggle, Opposite, Power
      <4> QED BY <4>1, QueueOwes
    <3>2. CASE \E k \in JobId : Mature(k)
      BY <3>2, QueueOwes
    <3>3. CASE \E w \in Worker : Reserve(w)
      BY <3>3, ReserveOwes DEF CommandFailed, Drives, ElementsOf
    <3>4. CASE \E w \in Worker : Throw(w) \/ Crash(w) \/ DropUnbound(w) \/ Ack(w)
      BY <3>4, ReleaseOwes DEF CommandFailed, Drives, ElementsOf
    <3>5. CASE \E w \in Worker : \/ Decide(w) \/ StoreExpected(w) \/ RecordLockState(w)
                                 \/ BuildPayloads(w) \/ SendPayload(w) \/ RecordEvent(w)
      BY <3>5, HandleOwes
    <3>6. CASE \E w \in Worker : ScheduleRelock(w)
      BY <3>6, RelockOwes
    <3>7. CASE UNCHANGED vars
      BY <3>7, OwesKept DEF vars, queueVars, workerVars
    <3> QED BY <1>4, <3>1, <3>2, <3>3, <3>4, <3>5, <3>6, <3>7 DEF Next, Run
  <2> QED BY <2>1, <2>2, <2>3 DEF AutoRelockOwed
<1> QED BY <1>3, <1>4

\* For every wiring and every interleaving of workers, retries and crashes, a door
\* opened by an auto-relocking unlock is owed its relock by some job, or a
\* lock_command_failed event tells of it.
THEOREM RelockIsOwed == Spec => []AutoRelockOwed
<1>1. Init => AutoRelockOwed
  BY DEF Init, AutoRelockOwed
<1>2. IInv /\ IInv' /\ AutoRelockOwed /\ [Next]_vars => AutoRelockOwed'
  BY RelockOwedStep
<1> QED BY Inductive, <1>1, <1>2, PTL DEF Spec

-----------------------------------------------------------------------------
(***************************************************************************)
(* ExpectationAudited.  A job may be deleted only with an event on record, *)
(* or because it drives nothing, and then it has never set an expectation: *)
(* both have to be known of every worker before its step.                  *)
(***************************************************************************)
Tells(log, r) == \E s \in Status : <<r, s>> \in log

\* What a worker has behind it: its job counts as tried, from the decision on it
\* drives an output, and from the event on its reader has one.
Behind(w) ==
  /\ pc[w] # "idle" => Held(w).tries > 0
  /\ pc[w] \notin {"idle", "decide"} => Outputs[Held(w).reader] # <<>>
  /\ pc[w] \in {"relock", "ack"} => Tells(audit, Held(w).reader)

Working == \A w \in Worker : Behind(w)

\* Only a reader that drives something has an expectation, and it is accounted for.
Expecting ==
  /\ \A r \in Reader : expected[r] # Unset => Outputs[r] # <<>>
  /\ ExpectationAudited

\* The event log only grows.
LEMMA AuditGrows ==
  ASSUME [Next]_vars
  PROVE  audit \subseteq audit'
  BY DEF Next, Request, CardGranted, MqttCommand, WebhookLock, WebhookUnlock, LockApi, ReaderApi,
         AreaControl, DashboardToggle, Dispatch, Mature, Run, Reserve, FailJob, DropUnbound,
         Acknowledge, Ack, Decide, Write, StoreExpected, RecordLockState, BuildPayloads,
         SendPayload, RecordEvent, ScheduleRelock, Throw, Crash, vars, storeVars

\* A worker that a step passes by has behind it what it had.
LEMMA BehindKept ==
  ASSUME audit \subseteq audit', NEW v \in Worker, Behind(v),
         pc'[v] = pc[v], holds'[v] = holds[v],
         pc[v] # "idle" => jobs'[holds[v]] = jobs[holds[v]]
  PROVE  Behind(v)'
  BY DEF Behind, Held, Tells

\* An expectation stays accounted for while every job that has been tried stays,
\* or leaves an event.
LEMMA AccountedKept ==
  ASSUME ExpectationAudited, audit \subseteq audit', NEW r \in Reader,
         expected'[r] = expected[r], expected[r] # Unset,
         \A j \in JobId : Live(j) /\ jobs[j].reader = r /\ jobs[j].tries > 0 =>
           \/ jobs'[j] # NoJob /\ jobs'[j].reader = r /\ jobs'[j].tries > 0
           \/ Tells(audit', r)
  PROVE  Tells(audit', r) \/ \E j \in JobId : (Live(j) /\ jobs[j].reader = r /\ jobs[j].tries > 0)'
<1>1. CASE Tells(audit, r)
  BY <1>1 DEF Tells
<1>2. CASE ~Tells(audit, r)
  <2>1. PICK j \in JobId : Live(j) /\ jobs[j].reader = r /\ jobs[j].tries > 0
    BY <1>2 DEF ExpectationAudited, Tells
  <2> QED BY <2>1 DEF Live
<1> QED BY <1>1, <1>2

\* Steps that dispatch a command or make a delayed one due.
LEMMA QueueAudits ==
  ASSUME IInv, Working, audit \subseteq audit',
         \/ \E source : \E r \in Reader, target \in Power \cup {Toggle}, relock \in BOOLEAN :
              Dispatch(source, r, target, relock)
         \/ \E k \in JobId : Mature(k)
  PROVE  Working' /\ (Expecting => Expecting')
<1> USE DEF workerVars, storeVars
<1>1. UNCHANGED <<workerVars, expected>>
  BY DEF Dispatch, Mature
<1>2. \A j \in JobId : Live(j) => jobs'[j] = jobs[j]
  BY FreeIdFacts DEF Dispatch, Mature, IInv, TypeOK
<1>3. \A v \in Worker : Behind(v)'
  BY <1>1, <1>2, BehindKept, HeldIsLive DEF Working
<1>4. ASSUME Expecting PROVE Expecting'
  BY <1>1, <1>2, <1>4, AccountedKept DEF Expecting, ExpectationAudited, Tells, Live
<1> QED BY <1>3, <1>4 DEF Working

\* A popped job counts as tried, or fails with an event.
LEMMA ReserveAudits ==
  ASSUME IInv, Working, audit \subseteq audit', NEW w \in Worker, Reserve(w)
  PROVE  Working' /\ (Expecting => Expecting')
<1> DEFINE h == Head(ready)
<1> USE DEF workerVars
<1>1. h \in JobId /\ Live(h) /\ jobs[h] \in Job /\ h \notin InHand
  <2>1. ready \in Seq(JobId) /\ Distinct(ready)
    BY DEF IInv, TypeOK, JobPlacement, Distinct
  <2>2. ready # <<>>
    BY DEF Reserve
  <2>3. h \in JobId /\ h \in ElementsOf(ready)
    BY <2>1, <2>2, PopFacts
  <2> QED BY <2>3 DEF IInv, TypeOK, JobPlacement, Live
<1>2. \A v \in Worker : pc[v] # "idle" => holds[v] # h
  BY <1>1 DEF InHand
<1>3. expected' = expected
  BY DEF Reserve
<1>4. CASE jobs[h].tries >= MaxTries
  <2>1. FailJob(h) /\ UNCHANGED workerVars
    BY <1>4 DEF Reserve
  <2>2. \A j \in JobId \ {h} : jobs'[j] = jobs[j]
    BY <2>1 DEF FailJob, IInv, TypeOK
  <2>3. Tells(audit', jobs[h].reader)
    BY <2>1 DEF FailJob, Tells, Status
  <2>4. \A v \in Worker : Behind(v)'
    BY <1>2, <2>1, <2>2, BehindKept, HeldIsLive DEF Working
  <2>5. ASSUME Expecting PROVE Expecting'
    BY <1>3, <2>2, <2>3, <2>5, AccountedKept DEF Expecting, ExpectationAudited, Tells, Live
  <2> QED BY <2>4, <2>5 DEF Working
<1>5. CASE ~(jobs[h].tries >= MaxTries)
  <2>1. /\ jobs' = [jobs EXCEPT ![h].tries = @ + 1]
        /\ pc' = [pc EXCEPT ![w] = "decide"]
        /\ holds' = [holds EXCEPT ![w] = h]
    BY <1>5 DEF Reserve
  <2>2. /\ \A j \in JobId \ {h} : jobs'[j] = jobs[j]
        /\ jobs'[h].reader = jobs[h].reader /\ jobs'[h].tries > 0
        /\ jobs'[h] # NoJob
    <3>0. jobs[h].tries + 1 \in 0..MaxTries
      BY <1>1, <1>5, BoundAssumption DEF Job
    <3>1. jobs'[h] = [jobs[h] EXCEPT !.tries = @ + 1]
      BY <1>1, <2>1 DEF IInv, TypeOK
    <3>2. jobs'[h] \in Job /\ jobs'[h].reader = jobs[h].reader /\ jobs'[h].tries > 0
      BY <1>1, <3>0, <3>1 DEF Job
    <3> QED BY <2>1, <3>2, BoundAssumption DEF IInv, TypeOK
  <2>3. /\ pc'[w] = "decide" /\ holds'[w] = h
        /\ \A v \in Worker \ {w} : pc'[v] = pc[v] /\ holds'[v] = holds[v]
    BY <2>1 DEF IInv, TypeOK
  <2>4. Behind(w)'
    BY <2>2, <2>3 DEF Behind, Held
  <2>5. \A v \in Worker \ {w} : Behind(v)'
    BY <1>2, <2>2, <2>3, BehindKept, HeldIsLive DEF Working
  <2>6. ASSUME Expecting PROVE Expecting'
    BY <1>3, <2>2, <2>6, AccountedKept DEF Expecting, ExpectationAudited, Tells, Live
  <2> QED BY <2>4, <2>5, <2>6 DEF Working
<1> QED BY <1>4, <1>5

\* A job that is let go stays, or has left an event, or drives nothing and so has
\* never set an expectation.
LEMMA ReleaseAudits ==
  ASSUME IInv, Working, audit \subseteq audit', NEW w \in Worker,
         Throw(w) \/ Crash(w) \/ DropUnbound(w) \/ Ack(w)
  PROVE  Working' /\ (Expecting => Expecting')
<1> DEFINE h == holds[w]
<1> USE DEF storeVars
<1>1. pc[w] # "idle" /\ Rest(w) /\ expected' = expected
  BY DEF Throw, Crash, DropUnbound, Ack, Acknowledge
<1>2. h \in JobId /\ Live(h) /\ jobs[h] \in Job
  BY <1>1, HeldIsLive DEF Held
<1>3. /\ pc'[w] = "idle"
      /\ \A v \in Worker \ {w} : pc'[v] = pc[v] /\ holds'[v] = holds[v]
  BY <1>1 DEF Rest, IInv, TypeOK
<1>4. \A v \in Worker \ {w} : pc[v] # "idle" => holds[v] # h
  BY <1>1 DEF IInv, JobPlacement
<1>5. \A j \in JobId \ {h} : jobs'[j] = jobs[j]
  BY DEF Throw, Crash, DropUnbound, Ack, Acknowledge, FailJob, IInv, TypeOK
<1>6. \/ jobs' = jobs
      \/ Tells(audit', jobs[h].reader)
      \/ Outputs[jobs[h].reader] = <<>>
  <2>1. CASE Throw(w) \/ Crash(w)
    BY <2>1 DEF Throw, Crash, FailJob, Tells, Status
  <2>2. CASE DropUnbound(w)
    BY <2>2 DEF DropUnbound, Held
  <2>3. CASE Ack(w)
    BY <2>3 DEF Ack, Working, Behind, Tells, Held
  <2> QED BY <2>1, <2>2, <2>3
<1>7. \A v \in Worker : Behind(v)'
  <2>1. Behind(w)'
    BY <1>3 DEF Behind
  <2>2. \A v \in Worker \ {w} : Behind(v)'
    BY <1>3, <1>4, <1>5, BehindKept, HeldIsLive DEF Working
  <2> QED BY <2>1, <2>2
<1>8. ASSUME Expecting PROVE Expecting'
  <2> SUFFICES ASSUME NEW r \in Reader, expected[r] # Unset
               PROVE  \/ Tells(audit', r)
                      \/ \E j \in JobId : (Live(j) /\ jobs[j].reader = r /\ jobs[j].tries > 0)'
    BY <1>1, <1>8 DEF Expecting, ExpectationAudited, Tells, Live
  <2>1. Outputs[r] # <<>>
    BY <1>8 DEF Expecting
  <2>2. ASSUME NEW j \in JobId, Live(j), jobs[j].reader = r, jobs[j].tries > 0
        PROVE  \/ jobs'[j] # NoJob /\ jobs'[j].reader = r /\ jobs'[j].tries > 0
               \/ Tells(audit', r)
    BY <1>5, <1>6, <2>1, <2>2 DEF Live
  <2> QED BY <1>1, <1>8, <2>2, AccountedKept DEF Expecting
<1> QED BY <1>7, <1>8 DEF Working

\* The steps of handle() go on from the stage before; one of them is the event.
LEMMA HandleAudits ==
  ASSUME IInv, Working, audit \subseteq audit', NEW w \in Worker,
         \/ Decide(w) \/ Write(w) \/ StoreExpected(w) \/ RecordLockState(w)
         \/ BuildPayloads(w) \/ SendPayload(w) \/ RecordEvent(w) \/ ScheduleRelock(w)
  PROVE  Working' /\ (Expecting => Expecting')
<1> DEFINE r == Held(w).reader
<1> USE DEF storeVars, queueVars
<1>1. pc[w] # "idle" /\ holds' = holds
  BY DEF Decide, Write, StoreExpected, RecordLockState, BuildPayloads, SendPayload,
         RecordEvent, ScheduleRelock
<1>2. holds[w] \in JobId /\ Live(holds[w]) /\ Held(w) \in Job /\ r \in Reader
  BY <1>1, HeldIsLive DEF Job
<1>3. \A j \in JobId : Live(j) => jobs'[j] = jobs[j]
  BY FreeIdFacts DEF Decide, Write, StoreExpected, RecordLockState, BuildPayloads, SendPayload,
     RecordEvent, ScheduleRelock, IInv, TypeOK
<1>4. Held(w)' = Held(w)
  BY <1>1, <1>2, <1>3 DEF Held
<1>5. \A v \in Worker \ {w} : pc'[v] = pc[v]
  BY DEF Decide, Write, StoreExpected, RecordLockState, BuildPayloads, SendPayload,
         RecordEvent, ScheduleRelock, Advance, IInv, TypeOK
<1>6. Held(w).tries > 0 /\ Outputs[r] # <<>>
  BY <1>1 DEF Working, Behind, Decide, Write, StoreExpected, RecordLockState,
     BuildPayloads, SendPayload, RecordEvent, ScheduleRelock
<1>7. pc'[w] \in {"relock", "ack"} => Tells(audit', r)
  <2>1. CASE RecordEvent(w)
    BY <2>1 DEF RecordEvent, Tells, Status
  <2>2. CASE ScheduleRelock(w)
    BY <2>2 DEF ScheduleRelock, Working, Behind, Tells
  <2>3. CASE ~RecordEvent(w) /\ ~ScheduleRelock(w)
    BY <2>3 DEF Decide, Write, StoreExpected, RecordLockState, BuildPayloads, SendPayload,
       Advance, IInv, TypeOK
  <2> QED BY <2>1, <2>2, <2>3
<1>8. \A v \in Worker : Behind(v)'
  <2>1. Behind(w)'
    BY <1>4, <1>6, <1>7 DEF Behind, Tells
  <2>2. \A v \in Worker \ {w} : Behind(v)'
    BY <1>1, <1>3, <1>5, BehindKept, HeldIsLive DEF Working
  <2> QED BY <2>1, <2>2
<1>9. \A q \in Reader : expected'[q] = expected[q] \/ q = r
  BY DEF Decide, Write, StoreExpected, RecordLockState, BuildPayloads, SendPayload,
     RecordEvent, ScheduleRelock, IInv, TypeOK
<1>10. ASSUME Expecting PROVE Expecting'
  <2> SUFFICES ASSUME NEW q \in Reader, expected'[q] # Unset
               PROVE  \/ Tells(audit', q)
                      \/ \E j \in JobId : (Live(j) /\ jobs[j].reader = q /\ jobs[j].tries > 0)'
    BY <1>6, <1>9, <1>10 DEF Expecting, ExpectationAudited, Tells, Live
  <2>1. CASE q = r
    <3>1. jobs'[holds[w]] = Held(w) /\ Held(w) # NoJob
      BY <1>2, <1>3 DEF Held, Live
    <3> QED BY <1>2, <1>6, <2>1, <3>1 DEF Live
  <2>2. CASE q # r
    BY <1>3, <1>9, <1>10, <2>2, AccountedKept DEF Expecting, Live
  <2> QED BY <2>1, <2>2
<1> QED BY <1>8, <1>10 DEF Working

LEMMA AuditStep ==
  ASSUME IInv, Working, [Next]_vars
  PROVE  Working' /\ (Expecting => Expecting')
<1>1. audit \subseteq audit'
  BY AuditGrows
<1>2. CASE Request
  <2>1. \E source : \E r \in Reader, target \in Power \cup {Toggle}, relock \in BOOLEAN :
          Dispatch(source, r, target, relock)
    BY <1>2, WiringAssumption DEF Request, CardGranted, MqttCommand, WebhookLock,
       WebhookUnlock, LockApi, ReaderApi, AreaControl, DashboardToggle, Opposite, Power
  <2> QED BY <1>1, <2>1, QueueAudits
<1>3. CASE \E k \in JobId : Mature(k)
  BY <1>1, <1>3, QueueAudits
<1>4. CASE \E w \in Worker : Reserve(w)
  BY <1>1, <1>4, ReserveAudits
<1>5. CASE \E w \in Worker : Throw(w) \/ Crash(w) \/ DropUnbound(w) \/ Ack(w)
  BY <1>1, <1>5, ReleaseAudits
<1>6. CASE \E w \in Worker :
             \/ Decide(w) \/ Write(w) \/ StoreExpected(w) \/ RecordLockState(w)
             \/ BuildPayloads(w) \/ SendPayload(w) \/ RecordEvent(w) \/ ScheduleRelock(w)
  BY <1>1, <1>6, HandleAudits
<1>7. CASE UNCHANGED vars
  BY <1>7 DEF vars, storeVars, queueVars, workerVars, Working, Expecting, Behind, Held,
     Tells, ExpectationAudited, Live
<1> QED BY <1>2, <1>3, <1>4, <1>5, <1>6, <1>7 DEF Next, Run

\* For every wiring and every interleaving of workers, retries and crashes, a
\* reader whose expected state was ever set has an event, or the job that set it
\* is still under way: an exception between storeExpectedLockPower and the event is
\* followed by another attempt or by failed().
THEOREM NoSilentExpectation == Spec => []ExpectationAudited
<1>1. Init => Working /\ Expecting
  BY DEF Init, Working, Expecting, Behind, ExpectationAudited
<1>2. IInv /\ Working /\ Expecting /\ [Next]_vars => Working' /\ Expecting'
  BY AuditStep
<1>3. Expecting => ExpectationAudited
  BY DEF Expecting
<1> QED BY Inductive, <1>1, <1>2, <1>3, PTL DEF Spec

-----------------------------------------------------------------------------
(***************************************************************************)
(* LockCommands implements CommandJobs: the refinement mapping of          *)
(* LockCommands takes every step to a step of at most one command.         *)
(***************************************************************************)

\* The phases a worker's stage stands for.
PhaseAt(stage) == IF stage \in {"relock", "ack"} THEN "reported" ELSE "running"

\* The command of a job in hand is as far as the worker that holds it.
LEMMA PhaseInHand ==
  ASSUME IInv, NEW w \in Worker, pc[w] # "idle"
  PROVE  /\ CommandOf(holds[w]) = C!At(PhaseAt(pc[w]), Held(w).tries, Held(w).reader)
         /\ holds[w] \in JobId
<1>1. holds[w] \in JobId /\ Live(holds[w]) /\ holds[w] \in InHand
  BY HeldIsLive
<1>2. \A v \in Worker : pc[v] # "idle" /\ holds[v] = holds[w] => v = w
  BY DEF IInv, JobPlacement
<1>3. Phase(holds[w]) = PhaseAt(pc[w])
  BY <1>1, <1>2 DEF Phase, PhaseAt
<1> QED BY <1>1, <1>3 DEF CommandOf, Held, C!At

\* The command of a job that a step passes by stays as it is.
LEMMA CommandKept ==
  ASSUME NEW j \in JobId, jobs'[j] = jobs[j],
         \A v \in Worker : \/ /\ holds'[v] = holds[v]
                              /\ pc'[v] = "idle" <=> pc[v] = "idle"
                              /\ pc'[v] \in {"relock", "ack"} <=> pc[v] \in {"relock", "ack"}
                           \/ /\ pc[v] = "idle" \/ holds[v] # j
                              /\ pc'[v] = "idle" \/ holds'[v] # j
  PROVE  CommandOf(j)' = CommandOf(j)
<1>1. Live(j)' <=> Live(j)
  BY DEF Live
<1>2. (j \in InHand)' <=> j \in InHand
  BY DEF InHand
<1>3. (\E w \in Worker : holds[w] = j /\ pc[w] \in {"relock", "ack"})'
        <=> \E w \in Worker : holds[w] = j /\ pc[w] \in {"relock", "ack"}
  OBVIOUS
<1>4. Phase(j)' = Phase(j)
  BY <1>1, <1>2, <1>3 DEF Phase
<1> QED BY <1>1, <1>4 DEF CommandOf

\* A step that changes one command, or none.
LEMMA OneCommand ==
  ASSUME NEW k \in JobId, NEW d, CommandOf(k)' = d,
         \A j \in JobId \ {k} : CommandOf(j)' = CommandOf(j)
  PROVE  commands' = [commands EXCEPT ![k] = d] /\ commands[k] = CommandOf(k)
  BY DEF commands

LEMMA NoCommand ==
  ASSUME \A j \in JobId : CommandOf(j)' = CommandOf(j)
  PROVE  commands' = commands
  BY DEF commands

\* What the events a step records say to a caller.
LEMMA SameLog ==
  ASSUME UNCHANGED audit
  PROVE  UNCHANGED <<carriedOut, givenUp>>
  BY DEF carriedOut, givenUp, CommandFailed

LEMMA FailLog ==
  ASSUME NEW r \in Reader, audit' = audit \cup {<<r, "lock_command_failed">>}
  PROVE  carriedOut' = carriedOut /\ givenUp' = givenUp \cup {r}
  BY DEF carriedOut, givenUp, CommandFailed

LEMMA ReportLog ==
  ASSUME NEW r \in Reader, NEW s \in {"lock_locked", "lock_unlocked"},
         audit' = audit \cup {<<r, s>>}
  PROVE  carriedOut' = carriedOut \cup {r} /\ givenUp' = givenUp
  BY DEF carriedOut, givenUp, CommandFailed

\* A new job is a command submitted.
LEMMA SubmitMaps ==
  ASSUME IInv, NEW r \in Reader, NEW target, NEW relock,
         NewJob(r, target, relock) \in Job, HasRoom, UNCHANGED <<holds, audit>>,
         jobs' = [jobs EXCEPT ![FreeId] = NewJob(r, target, relock)],
         \A v \in Worker : pc'[v] = pc[v] \/ (pc[v] = "relock" /\ pc'[v] = "ack")
  PROVE  \E k \in JobId : C!Submit(k)
<1>0. PICK k \in JobId : k = FreeId
  BY FreeIdFacts
<1>1. /\ ~Live(k) /\ k \notin InHand
      /\ jobs'[k] = NewJob(r, target, relock) /\ jobs'[k] # NoJob
      /\ \A j \in JobId \ {k} : jobs'[j] = jobs[j]
  BY <1>0, FreeIdFacts, BoundAssumption DEF IInv, TypeOK
<1>2. CommandOf(k).phase = "absent"
  BY <1>1 DEF CommandOf, Phase
<1>3. CommandOf(k)' = C!At("waiting", 0, r)
  <2>1. k \notin InHand'
    BY <1>1 DEF InHand
  <2>2. Phase(k)' = "waiting"
    BY <1>1, <2>1 DEF Phase, Live
  <2> QED BY <1>1, <2>2 DEF CommandOf, C!At, Live, NewJob
<1>4. \A j \in JobId \ {k} : CommandOf(j)' = CommandOf(j)
  BY <1>1, CommandKept
<1>5. commands' = [commands EXCEPT ![k] = C!At("waiting", 0, r)] /\ commands[k] = CommandOf(k)
  BY <1>1, <1>3, <1>4, OneCommand
<1>6. C!Submit(k)
  BY <1>2, <1>5, SameLog DEF C!Submit, C!In
<1> QED BY <1>6

\* Popping a job begins an attempt, or gives the command up.
LEMMA ReserveMaps ==
  ASSUME IInv, NEW w \in Worker, Reserve(w)
  PROVE  \E k \in JobId : C!Start(k) \/ C!GiveUp(k)
<1> USE DEF workerVars
<1>0. PICK k \in JobId : k = Head(ready) /\ Live(k) /\ jobs[k] \in Job /\ k \notin InHand
  <2>1. ready \in Seq(JobId) /\ Distinct(ready)
    BY DEF IInv, TypeOK, JobPlacement, Distinct
  <2>2. ready # <<>>
    BY DEF Reserve
  <2>3. Head(ready) \in JobId /\ Head(ready) \in ElementsOf(ready)
    BY <2>1, <2>2, PopFacts
  <2> QED BY <2>3 DEF IInv, TypeOK, JobPlacement, Live
<1>1. Live(k) /\ jobs[k] \in Job
  BY <1>0
<1>2. PICK n \in 0..MaxTries, r \in Reader : jobs[k].tries = n /\ jobs[k].reader = r
  BY <1>1 DEF Job
<1>3. CommandOf(k) = C!At("waiting", n, r)
  BY <1>0, <1>2 DEF CommandOf, Phase, C!At
<1>4. \A v \in Worker : pc[v] # "idle" => holds[v] # k
  BY <1>0 DEF InHand
<1>5. CASE n >= MaxTries
  <2>1. FailJob(k) /\ UNCHANGED workerVars
    BY <1>0, <1>2, <1>5 DEF Reserve
  <2>2. /\ \A j \in JobId \ {k} : jobs'[j] = jobs[j]
        /\ jobs'[k] = NoJob
    BY <1>1, <2>1 DEF FailJob, IInv, TypeOK
  <2>3. CommandOf(k)' = C!Absent
    BY <2>2 DEF CommandOf, Phase, Live, C!Absent, C!At
  <2>4. \A j \in JobId \ {k} : CommandOf(j)' = CommandOf(j)
    BY <2>1, <2>2, CommandKept
  <2>5. commands' = [commands EXCEPT ![k] = C!Absent] /\ commands[k] = CommandOf(k)
    BY <1>1, <2>3, <2>4, OneCommand
  <2>6. carriedOut' = carriedOut /\ givenUp' = givenUp \cup {r}
    BY <1>2, <2>1, FailLog DEF FailJob
  <2>7. n = MaxTries
    BY <1>2, <1>5, BoundAssumption
  <2>8. C!GiveUp(k)
    BY <1>3, <2>5, <2>6, <2>7 DEF C!GiveUp, C!In, C!At
  <2> QED BY <2>8
<1>6. CASE ~(n >= MaxTries)
  <2>1. /\ jobs' = [jobs EXCEPT ![k].tries = @ + 1]
        /\ pc' = [pc EXCEPT ![w] = "decide"]
        /\ holds' = [holds EXCEPT ![w] = k]
        /\ UNCHANGED audit
    BY <1>0, <1>2, <1>6 DEF Reserve
  <2>2. /\ \A j \in JobId \ {k} : jobs'[j] = jobs[j]
        /\ jobs'[k].reader = r /\ jobs'[k].tries = n + 1 /\ jobs'[k] # NoJob
    <3>1. jobs'[k] = [jobs[k] EXCEPT !.tries = n + 1] /\ n + 1 \in 0..MaxTries
      <4>1. n + 1 \in 0..MaxTries
        BY <1>2, <1>6, BoundAssumption
      <4> QED BY <1>1, <1>2, <2>1, <4>1 DEF IInv, TypeOK
    <3>2. jobs'[k] \in Job /\ jobs'[k].reader = r /\ jobs'[k].tries = n + 1
      BY <1>1, <1>2, <3>1 DEF Job
    <3> QED BY <2>1, <3>2, BoundAssumption DEF IInv, TypeOK
  <2>3. /\ pc'[w] = "decide" /\ holds'[w] = k
        /\ \A v \in Worker \ {w} : pc'[v] = pc[v] /\ holds'[v] = holds[v]
        /\ pc[w] = "idle"
    BY <2>1 DEF IInv, TypeOK, Reserve
  <2>4. CommandOf(k)' = C!At("running", n + 1, r)
    <3>1. Live(k)' /\ k \in InHand'
      BY <2>2, <2>3 DEF Live, InHand
    <3>2. ~\E v \in Worker : holds'[v] = k /\ pc'[v] \in {"relock", "ack"}
      BY <1>4, <2>3
    <3>3. Phase(k)' = "running"
      BY <3>1, <3>2 DEF Phase
    <3> QED BY <2>2, <3>1, <3>3 DEF CommandOf, C!At
  <2>5. \A j \in JobId \ {k} : CommandOf(j)' = CommandOf(j)
    BY <2>2, <2>3, CommandKept
  <2>6. /\ commands' = [commands EXCEPT ![k] =
                          C!At("running", n + 1, r)]
        /\ commands[k] = CommandOf(k) /\ k \in DOMAIN commands
    BY <1>1, <2>4, <2>5, OneCommand DEF commands
  <2>7. n < MaxTries
    BY <1>2, <1>6, BoundAssumption
  <2>8. C!Start(k)
    BY <1>3, <2>1, <2>6, <2>7, SameLog DEF C!Start, C!In, C!At, C!Turn
  <2> QED BY <2>8
<1> QED BY <1>5, <1>6

\* Letting go of a job breaks the attempt off, ends the command, or gives it up.
LEMMA ReleaseMaps ==
  ASSUME IInv, Working, NEW w \in Worker,
         Throw(w) \/ Crash(w) \/ DropUnbound(w) \/ Ack(w)
  PROVE  \E k \in JobId : C!Return(k) \/ C!Finish(k) \/ C!GiveUp(k)
<1> USE DEF storeVars
<1>1. pc[w] # "idle" /\ Rest(w)
  BY DEF Throw, Crash, DropUnbound, Ack, Acknowledge
<1>2. PICK k \in JobId, n \in 0..MaxTries, r \in Reader :
        /\ k = holds[w] /\ Live(k) /\ jobs[k] = Held(w) /\ Held(w) \in Job
        /\ n = Held(w).tries /\ r = Held(w).reader
  BY <1>1, HeldIsLive DEF Held, Job
<1>3. CommandOf(k) = C!At(PhaseAt(pc[w]), n, r)
  BY <1>1, <1>2, PhaseInHand
<1>4. /\ pc'[w] = "idle"
      /\ \A v \in Worker \ {w} : pc'[v] = pc[v] /\ holds'[v] = holds[v]
  BY <1>1 DEF Rest, IInv, TypeOK
<1>5. \A v \in Worker : pc'[v] # "idle" => holds'[v] # k
  BY <1>1, <1>2, <1>4 DEF IInv, JobPlacement
<1>6. \A j \in JobId \ {k} : jobs'[j] = jobs[j]
  BY <1>2 DEF Throw, Crash, DropUnbound, Ack, Acknowledge, FailJob, IInv, TypeOK
<1>7. \A j \in JobId \ {k} : CommandOf(j)' = CommandOf(j)
  BY <1>1, <1>2, <1>4, <1>5, <1>6, CommandKept
<1>8. CASE jobs' = jobs /\ audit' = audit
  <2>1. CommandOf(k)' = C!At("waiting", n, r)
    <3>1. Live(k)' /\ k \notin InHand'
      BY <1>2, <1>5, <1>8 DEF Live, InHand
    <3>2. Phase(k)' = "waiting"
      BY <3>1 DEF Phase
    <3> QED BY <1>2, <1>8, <3>1, <3>2 DEF CommandOf, C!At
  <2>2. /\ commands' = [commands EXCEPT ![k] = C!At("waiting", n, r)]
        /\ commands[k] = CommandOf(k) /\ k \in DOMAIN commands
    BY <1>2, <1>7, <2>1, OneCommand DEF commands
  <2>3. C!Return(k)
    BY <1>3, <1>8, <2>2, SameLog DEF C!Return, C!In, C!At, C!Turn, PhaseAt
  <2> QED BY <2>3
<1>9. CASE jobs'[k] = NoJob
  <2>1. CommandOf(k)' = C!Absent
    BY <1>9 DEF CommandOf, Phase, Live, C!Absent, C!At
  <2>2. commands' = [commands EXCEPT ![k] = C!Absent] /\ commands[k] = CommandOf(k)
    BY <1>2, <1>7, <2>1, OneCommand
  <2>3. CASE Throw(w) \/ Crash(w)
    <3>1. FailJob(k) /\ ~(n < MaxTries)
      BY <1>2, <1>9, <2>3 DEF Throw, Crash, Live
    <3>2. carriedOut' = carriedOut /\ givenUp' = givenUp \cup {r}
      BY <1>2, <3>1, FailLog DEF FailJob
    <3>3. n = MaxTries
      BY <1>2, <3>1, BoundAssumption
    <3>4. C!GiveUp(k)
      BY <1>3, <2>2, <3>2, <3>3 DEF C!GiveUp, C!In, C!At, PhaseAt
    <3> QED BY <3>4
  <2>4. CASE DropUnbound(w) \/ Ack(w)
    <3>1. UNCHANGED audit
      BY <2>4 DEF DropUnbound, Ack, Acknowledge
    <3>2. \/ PhaseAt(pc[w]) = "reported"
          \/ PhaseAt(pc[w]) = "running" /\ Outputs[r] = <<>>
      BY <1>2, <2>4 DEF DropUnbound, Ack, PhaseAt
    <3>3. C!Finish(k)
      BY <1>3, <2>2, <3>1, <3>2, SameLog DEF C!Finish, C!In, C!At
    <3> QED BY <3>3
  <2> QED BY <2>3, <2>4
<1>10. (jobs' = jobs /\ audit' = audit) \/ jobs'[k] = NoJob
  BY <1>2 DEF Throw, Crash, DropUnbound, Ack, Acknowledge, FailJob, IInv, TypeOK
<1> QED BY <1>8, <1>9, <1>10

\* Up to the event a caller sees nothing of what handle() does.
LEMMA HandleMaps ==
  ASSUME IInv, NEW w \in Worker,
         \/ Decide(w) \/ Write(w) \/ StoreExpected(w) \/ RecordLockState(w)
         \/ BuildPayloads(w) \/ SendPayload(w)
  PROVE  UNCHANGED C!vars
<1> USE DEF queueVars, storeVars
<1>1. UNCHANGED <<jobs, holds, audit>>
  BY DEF Decide, Write, StoreExpected, RecordLockState, BuildPayloads, SendPayload
<1>2. /\ pc[w] \notin {"idle", "relock", "ack"} /\ pc'[w] \notin {"idle", "relock", "ack"}
      /\ \A v \in Worker \ {w} : pc'[v] = pc[v]
  BY DEF Decide, Write, StoreExpected, RecordLockState, BuildPayloads, SendPayload,
         Advance, IInv, TypeOK
<1>3. \A j \in JobId : CommandOf(j)' = CommandOf(j)
  BY <1>1, <1>2, CommandKept
<1> QED BY <1>1, <1>3, NoCommand, SameLog DEF C!vars

\* The event is what a caller waits for.
LEMMA ReportMaps ==
  ASSUME IInv, IInv', Working, NEW w \in Worker, RecordEvent(w)
  PROVE  \E k \in JobId : C!Report(k)
<1> USE DEF queueVars
<1>1. /\ pc[w] = "event" /\ UNCHANGED <<jobs, holds>>
      /\ pc'[w] = "relock" /\ \A v \in Worker \ {w} : pc'[v] = pc[v]
  BY DEF RecordEvent, IInv, TypeOK
<1>2. PICK k \in JobId, n \in 0..MaxTries, r \in Reader :
        /\ k = holds[w] /\ jobs[k] = Held(w) /\ Live(k) /\ Outputs[r] # <<>>
        /\ n = Held(w).tries /\ r = Held(w).reader
  BY <1>1, HeldIsLive DEF Job, Held, Working, Behind
<1>3. CommandOf(k) = C!At("running", n, r)
  BY <1>1, <1>2, PhaseInHand DEF PhaseAt
<1>4. CommandOf(k)' = C!At("reported", n, r)
  <2>1. Live(k)' /\ k \in InHand'
    BY <1>1, <1>2 DEF Live, InHand
  <2>2. Phase(k)' = "reported"
    BY <1>1, <1>2, <2>1 DEF Phase
  <2> QED BY <1>1, <1>2, <2>1, <2>2 DEF CommandOf, C!At
<1>5. \A j \in JobId \ {k} : CommandOf(j)' = CommandOf(j)
  BY <1>1, <1>2, CommandKept
<1>6. /\ commands' = [commands EXCEPT ![k] = C!At("reported", n, r)]
      /\ commands[k] = CommandOf(k) /\ k \in DOMAIN commands
  BY <1>2, <1>4, <1>5, OneCommand DEF commands
<1>7. carriedOut' = carriedOut \cup {r} /\ givenUp' = givenUp
  BY <1>2, ReportLog DEF RecordEvent
<1>8. C!Report(k)
  BY <1>2, <1>3, <1>6, <1>7 DEF C!Report, C!In, C!At, C!Turn
<1> QED BY <1>8

\* Scheduling the relock submits a command, or nothing.
LEMMA RelockMaps ==
  ASSUME IInv, NEW w \in Worker, ScheduleRelock(w)
  PROVE  (\E k \in JobId : C!Submit(k)) \/ UNCHANGED C!vars
<1> USE DEF storeVars
<1>1. /\ pc[w] = "relock" /\ UNCHANGED <<holds, audit>>
      /\ pc'[w] = "ack" /\ \A v \in Worker \ {w} : pc'[v] = pc[v]
  BY DEF ScheduleRelock, IInv, TypeOK
<1>2. Held(w).reader \in Reader
  BY <1>1, HeldIsLive DEF Job
<1>3. CASE goal[w] = Unlocked /\ Relocks(Held(w))
  <2>1. /\ HasRoom
        /\ jobs' = [jobs EXCEPT ![FreeId] = NewJob(Held(w).reader, Locked, FALSE)]
    BY <1>3 DEF ScheduleRelock
  <2>2. NewJob(Held(w).reader, Locked, FALSE) \in Job
    BY <1>2, BoundAssumption DEF NewJob, Job, Power
  <2> QED BY <1>1, <1>2, <2>1, <2>2, SubmitMaps
<1>4. CASE ~(goal[w] = Unlocked /\ Relocks(Held(w)))
  <2>1. jobs' = jobs
    BY <1>4 DEF ScheduleRelock
  <2>2. \A j \in JobId : CommandOf(j)' = CommandOf(j)
    BY <1>1, <2>1, CommandKept
  <2> QED BY <1>1, <2>2, NoCommand, SameLog DEF C!vars
<1> QED BY <1>3, <1>4

LEMMA CommandStep ==
  ASSUME IInv, IInv', Working, [Next]_vars
  PROVE  [C!Next]_(C!vars)
<1>1. CASE Request
  <2>1. \E source : \E r \in Reader, target \in Power \cup {Toggle}, relock \in BOOLEAN :
          Dispatch(source, r, target, relock)
    BY <1>1, WiringAssumption DEF Request, CardGranted, MqttCommand, WebhookLock,
       WebhookUnlock, LockApi, ReaderApi, AreaControl, DashboardToggle, Opposite, Power
  <2>2. PICK r \in Reader, target \in Power \cup {Toggle}, relock \in BOOLEAN :
          \E source : Dispatch(source, r, target, relock)
    BY <2>1
  <2>3. NewJob(r, target, relock) \in Job
    BY BoundAssumption DEF NewJob, Job
  <2>4. /\ HasRoom /\ UNCHANGED <<holds, audit, pc>>
        /\ jobs' = [jobs EXCEPT ![FreeId] = NewJob(r, target, relock)]
    BY <2>2 DEF Dispatch, workerVars, storeVars
  <2>5. \E k \in JobId : C!Submit(k)
    BY <2>3, <2>4, SubmitMaps
  <2> QED BY <2>5 DEF C!Next
<1>2. CASE (\E k \in JobId : Mature(k)) \/ UNCHANGED vars
  <2>1. UNCHANGED <<jobs, pc, holds, audit>>
    BY <1>2 DEF Mature, vars, workerVars, queueVars, storeVars
  <2>2. \A j \in JobId : CommandOf(j)' = CommandOf(j)
    BY <2>1, CommandKept
  <2> QED BY <2>1, <2>2, NoCommand, SameLog DEF C!vars
<1>3. CASE \E w \in Worker : Reserve(w)
  BY <1>3, ReserveMaps DEF C!Next
<1>4. CASE \E w \in Worker : Throw(w) \/ Crash(w) \/ DropUnbound(w) \/ Ack(w)
  BY <1>4, ReleaseMaps DEF C!Next
<1>5. CASE \E w \in Worker : \/ Decide(w) \/ Write(w) \/ StoreExpected(w)
                             \/ RecordLockState(w) \/ BuildPayloads(w) \/ SendPayload(w)
  BY <1>5, HandleMaps
<1>6. CASE \E w \in Worker : RecordEvent(w)
  BY <1>6, ReportMaps DEF C!Next
<1>7. CASE \E w \in Worker : ScheduleRelock(w)
  BY <1>7, RelockMaps DEF C!Next
<1> QED BY <1>1, <1>2, <1>3, <1>4, <1>5, <1>6, <1>7 DEF Next, Run

LEMMA InitCommands == Init => C!Init
<1> SUFFICES ASSUME Init PROVE C!Init
  OBVIOUS
<1>1. \A j \in JobId : CommandOf(j) = C!Absent
  BY DEF Init, CommandOf, Phase, Live, C!Absent, C!At
<1>2. carriedOut = {} /\ givenUp = {}
  BY DEF Init, carriedOut, givenUp, CommandFailed
<1> QED BY <1>1, <1>2 DEF C!Init, commands

\* For every wiring, any number of workers and every pattern of exceptions, crashes
\* and redeliveries the queue and ProcessReaderEvent keep the safety part of what a
\* caller is promised: attempts one at a time and $tries at most, and no command
\* that drives anything ends without the event of its last attempt or failed()'s.
THEOREM CommandsAreKept == Spec => C!Safety
<1>1. Init => C!Init
  BY InitCommands
<1>2. Init => Working
  BY DEF Init, Working, Behind
<1>3. IInv /\ Working /\ [Next]_vars => Working'
  BY AuditStep
<1>4. IInv /\ IInv' /\ Working /\ [Next]_vars => [C!Next]_(C!vars)
  BY CommandStep
<1> QED BY Inductive, <1>1, <1>2, <1>3, <1>4, PTL DEF Spec, C!Safety

-----------------------------------------------------------------------------
(***************************************************************************)
(* SettledAgreement.  With one worker, and readers whose doors do not      *)
(* overlap, the four records of a door agree unless a command of its       *)
(* reader is under way or was given up.                                    *)
(***************************************************************************)
OneWorker == \A v, w \in Worker : v = w

\* No reader drives, stores or publishes what another one changes.
DoorsApart ==
  \A r, s \in Reader : r # s =>
    /\ Drives(r) \cap Drives(s) = {}
    /\ ElementsOf(StoredLocks[r]) \cap ElementsOf(StoredLocks[s]) = {}
    /\ ElementsOf(TopicLocks[r]) \cap ElementsOf(StoredLocks[s]) = {}

Driven(r, state) == \A c \in Drives(r) : output[c] = state
Stored(r, state) == \A l \in ElementsOf(StoredLocks[r]) : lockState[l] = state
Shown(r) == faults = 0 => \A l \in ElementsOf(TopicLocks[r]) : retained[l] = lockState[l]

\* What the job in hand has carried out by the stage it is in.
Carried(w) ==
  LET r == Held(w).reader
  IN  /\ pc[w] = "write" => \A i \in 1..(at[w] - 1) : output[Outputs[r][i]] = goal[w]
      /\ pc[w] \notin {"idle", "decide", "write"} => Driven(r, goal[w])
      /\ pc[w] \notin {"idle", "decide", "write", "expect"} => expected[r] = goal[w]
      /\ pc[w] = "record" => \A i \in 1..(at[w] - 1) : lockState[StoredLocks[r][i]] = goal[w]
      /\ pc[w] \in {"build", "send", "event", "relock", "ack"} => Stored(r, goal[w])
      /\ pc[w] = "send" =>
           /\ \A l \in ElementsOf(TopicLocks[r]) : snap[w][l] = lockState[l]
           /\ faults = 0 =>
                \A i \in 1..(at[w] - 1) : retained[TopicLocks[r][i]] = lockState[TopicLocks[r][i]]
      /\ pc[w] \in {"event", "relock", "ack"} => Shown(r)

\* A command of the reader has begun and is not over.
UnderWay(r) == \E j \in JobId : Live(j) /\ jobs[j].reader = r /\ jobs[j].tries > 0

Agreeing(r) ==
  \/ expected[r] = Unset \/ UnderWay(r) \/ CommandFailed(r)
  \/ Driven(r, expected[r]) /\ Stored(r, expected[r]) /\ Shown(r)

AgreementInv == (\A w \in Worker : Carried(w)) /\ \A r \in Reader : Agreeing(r)

\* What a step that touches no record leaves in agreement.
LEMMA AgreeingKept ==
  ASSUME NEW r \in Reader, Agreeing(r),
         UNCHANGED <<output, lockState, retained>>, expected'[r] = expected[r],
         audit \subseteq audit', faults' = 0 => faults = 0,
         UnderWay(r) => UnderWay(r)' \/ CommandFailed(r)' \/ expected[r] = Unset
  PROVE  Agreeing(r)'
<1>1. CommandFailed(r) => CommandFailed(r)'
  BY DEF CommandFailed
<1>2. Driven(r, expected[r]) => Driven(r, expected[r])'
  BY DEF Driven
<1>3. Stored(r, expected[r]) => Stored(r, expected[r])'
  BY DEF Stored
<1>4. Shown(r) => Shown(r)'
  BY DEF Shown
<1> QED BY <1>1, <1>2, <1>3, <1>4 DEF Agreeing

\* A command that has begun is under way while its job stays.
LEMMA UnderWayKept ==
  ASSUME NEW r \in Reader, UnderWay(r),
         \A j \in JobId : Live(j) /\ jobs[j].reader = r /\ jobs[j].tries > 0 =>
           jobs'[j] # NoJob /\ jobs'[j].reader = r /\ jobs'[j].tries > 0
  PROVE  UnderWay(r)'
  BY DEF UnderWay, Live

\* A worker the step passes by has carried out what it had, as long as the records stay.
LEMMA CarriedKept ==
  ASSUME NEW w \in Worker, Carried(w), UNCHANGED <<output, expected, lockState, retained>>,
         pc'[w] = pc[w], at'[w] = at[w], goal'[w] = goal[w], snap'[w] = snap[w],
         pc[w] # "idle" => Held(w)' = Held(w),
         faults' = 0 => faults = 0
  PROVE  Carried(w)'
<1>1. CASE pc[w] = "idle"
  BY <1>1 DEF Carried
<1>2. CASE pc[w] # "idle"
  BY <1>2 DEF Carried, Driven, Stored, Shown
<1> QED BY <1>1, <1>2

\* The commands that arrive and the delays that end.
LEMMA QueueAgrees ==
  ASSUME IInv, AgreementInv,
         \/ \E source : \E r \in Reader, target \in Power \cup {Toggle}, relock \in BOOLEAN :
              Dispatch(source, r, target, relock)
         \/ \E j \in JobId : Mature(j)
  PROVE  AgreementInv'
<1> USE DEF deviceVars, storeVars, workerVars, queueVars
<1>1. /\ UNCHANGED <<output, expected, lockState, retained, audit, pc, at, goal, snap, holds, faults>>
      /\ \A j \in JobId : Live(j) => jobs'[j] = jobs[j]
  BY FreeIdFacts DEF Dispatch, Mature, IInv, TypeOK
<1>2. ASSUME NEW w \in Worker PROVE Carried(w)'
  <2>1. pc[w] # "idle" => Held(w)' = Held(w)
    BY <1>1, HeldIsLive DEF Held
  <2> QED BY <1>1, <2>1, CarriedKept DEF AgreementInv
<1>3. ASSUME NEW r \in Reader PROVE Agreeing(r)'
  <2>1. UnderWay(r) => UnderWay(r)'
    BY <1>1, UnderWayKept DEF Live
  <2> QED BY <1>1, <2>1, AgreeingKept DEF AgreementInv
<1> QED BY <1>2, <1>3 DEF AgreementInv

\* A pop starts a command, or gives one up.
LEMMA ReserveAgrees ==
  ASSUME IInv, OneWorker, AgreementInv, audit \subseteq audit', NEW w \in Worker, Reserve(w)
  PROVE  AgreementInv'
<1> DEFINE j == Head(ready)
<1> USE DEF deviceVars, storeVars, workerVars, queueVars
<1>1. j \in JobId /\ Live(j)
  <2>1. ready \in Seq(JobId) /\ ready # <<>> /\ Distinct(ready)
    BY DEF Reserve, IInv, TypeOK, JobPlacement, Distinct
  <2>2. j \in JobId /\ j \in ElementsOf(ready)
    BY <2>1, PopFacts
  <2> QED BY <2>2 DEF IInv, JobPlacement
<1>2. UNCHANGED <<output, expected, lockState, retained, faults>>
  BY DEF Reserve
<1>3. jobs[j] \in Job
  BY <1>1 DEF IInv, TypeOK, Live
<1>4. \/ /\ FailJob(j) /\ UNCHANGED workerVars
      \/ /\ ~(jobs[j].tries >= MaxTries)
         /\ jobs' = [jobs EXCEPT ![j].tries = @ + 1]
         /\ pc' = [pc EXCEPT ![w] = "decide"]
  BY DEF Reserve
<1>5. ASSUME NEW v \in Worker PROVE Carried(v)'
  <2>1. pc[v] = "idle" /\ v = w
    BY DEF OneWorker, Reserve
  <2>2. pc'[v] \in {"idle", "decide"}
    BY <1>4, <2>1 DEF IInv, TypeOK
  <2> QED BY <2>2 DEF Carried
<1>6. ASSUME NEW r \in Reader PROVE Agreeing(r)'
  <2>1. CASE FailJob(j)
    <3>1. CASE jobs[j].reader = r
      BY <2>1, <3>1 DEF FailJob, CommandFailed, Agreeing
    <3>2. CASE jobs[j].reader # r
      <4>1. \A k \in JobId : Live(k) /\ jobs[k].reader = r => jobs'[k] = jobs[k]
        BY <2>1, <3>2 DEF FailJob, IInv, TypeOK
      <4>2. UnderWay(r) => UnderWay(r)'
        BY <4>1, UnderWayKept DEF Live
      <4> QED BY <1>2, <4>2, AgreeingKept DEF AgreementInv
    <3> QED BY <3>1, <3>2
  <2>2. CASE ~(jobs[j].tries >= MaxTries) /\ jobs' = [jobs EXCEPT ![j].tries = @ + 1]
    <3>1. jobs'[j] = [reader |-> jobs[j].reader, target |-> jobs[j].target,
                      relock |-> jobs[j].relock, tries |-> jobs[j].tries + 1]
      BY <1>1, <1>3, <2>2 DEF IInv, TypeOK, Job
    <3>2. \A k \in JobId \ {j} : jobs'[k] = jobs[k]
      BY <2>2 DEF IInv, TypeOK
    <3>3. jobs[j].tries \in Nat /\ jobs[j].tries + 1 \in 0..MaxTries
      BY <1>3, <2>2, BoundAssumption DEF Job
    <3>4. jobs'[j] # NoJob /\ jobs'[j].reader = jobs[j].reader /\ jobs'[j].tries > 0
      BY <1>3, <3>1, <3>3, BoundAssumption DEF Job
    <3>5. UnderWay(r) => UnderWay(r)'
      BY <3>2, <3>4, UnderWayKept DEF Live
    <3> QED BY <1>2, <3>5, AgreeingKept DEF AgreementInv
  <2> QED BY <1>4, <2>1, <2>2
<1> QED BY <1>5, <1>6 DEF AgreementInv

\* A worker that lets go of its job has carried all of it out, keeps it for another
\* attempt, gives it up, or never had anything to do.
LEMMA ReleaseAgrees ==
  ASSUME IInv, OneWorker, Expecting, AgreementInv, audit \subseteq audit', NEW w \in Worker,
         Throw(w) \/ Crash(w) \/ DropUnbound(w) \/ Ack(w)
  PROVE  AgreementInv'
<1> DEFINE h == holds[w]
<1> USE DEF deviceVars, storeVars
<1>1. /\ pc[w] # "idle" /\ Rest(w)
      /\ UNCHANGED <<output, expected, lockState, retained>>
  BY DEF Throw, Crash, DropUnbound, Ack, Acknowledge
<1>2. faults' = 0 => faults = 0
  BY DEF Throw, Crash, DropUnbound, Ack, Acknowledge, Fault, IInv, TypeOK
<1>3. h \in JobId /\ Live(h) /\ Held(w) = jobs[h] /\ Held(w).reader \in Reader
  BY <1>1, HeldIsLive DEF Held, Job
<1>4. ASSUME NEW v \in Worker PROVE Carried(v)'
  <2>1. pc'[v] = "idle"
    BY <1>1 DEF OneWorker, Rest, IInv, TypeOK
  <2> QED BY <2>1 DEF Carried
<1>5. \A j \in JobId \ {h} : jobs'[j] = jobs[j]
  BY DEF Throw, Crash, DropUnbound, Ack, Acknowledge, FailJob, IInv, TypeOK
<1>6. ASSUME NEW r \in Reader PROVE Agreeing(r)'
  <2>1. CASE Held(w).reader # r
    <3>1. UnderWay(r) => UnderWay(r)'
      BY <1>3, <1>5, <2>1, UnderWayKept DEF Live
    <3> QED BY <1>1, <1>2, <3>1, AgreeingKept DEF AgreementInv
  <2>2. CASE jobs' = jobs
    <3>1. UnderWay(r) => UnderWay(r)'
      BY <2>2, UnderWayKept DEF Live
    <3> QED BY <1>1, <1>2, <3>1, AgreeingKept DEF AgreementInv
  <2>3. CASE Held(w).reader = r /\ Throw(w) /\ jobs' # jobs
    BY <1>3, <2>3 DEF Throw, FailJob, CommandFailed, Agreeing
  <2>4. CASE Held(w).reader = r /\ DropUnbound(w)
    BY <1>1, <2>4 DEF DropUnbound, Expecting, Agreeing
  <2>5. CASE Held(w).reader = r /\ Ack(w)
    <3>1. Driven(r, goal[w]) /\ Stored(r, goal[w]) /\ Shown(r) /\ expected[r] = goal[w]
      BY <2>5 DEF Ack, AgreementInv, Carried
    <3>2. Driven(r, expected[r])'
      BY <1>1, <3>1 DEF Driven
    <3>3. Stored(r, expected[r])'
      BY <1>1, <3>1 DEF Stored
    <3>4. Shown(r)'
      BY <1>1, <1>2, <3>1 DEF Shown
    <3> QED BY <3>2, <3>3, <3>4 DEF Agreeing
  <2> QED BY <2>1, <2>2, <2>3, <2>4, <2>5 DEF Crash
<1> QED BY <1>4, <1>6 DEF AgreementInv

\* While a job runs, its own reader is under way; what it changes is no other's.
LEMMA HandleAgrees ==
  ASSUME IInv, OneWorker, Working, AgreementInv, audit \subseteq audit', NEW w \in Worker,
         NEW s \in Reader, s = Held(w).reader, pc[w] # "idle", jobs'[holds[w]] = Held(w),
         \A j \in JobId : Live(j) => jobs'[j] = jobs[j],
         faults' = 0 => faults = 0,
         Carried(w)',
         \A r \in Reader \ {s} :
           /\ expected'[r] = expected[r]
           /\ \A c \in Drives(r) : output'[c] = output[c]
           /\ \A l \in ElementsOf(StoredLocks[r]) : lockState'[l] = lockState[l]
           /\ Shown(r) => Shown(r)'
  PROVE  AgreementInv'
<1>1. \A v \in Worker : Carried(v)'
  BY DEF OneWorker
<1>2. UnderWay(s)'
  <2>1. holds[w] \in JobId /\ Live(holds[w]) /\ Held(w).tries > 0
    BY HeldIsLive DEF Working, Behind
  <2> QED BY <2>1 DEF UnderWay, Live, Held
<1>3. ASSUME NEW r \in Reader, r # s PROVE Agreeing(r)'
  <2>1. UnderWay(r) => UnderWay(r)'
    BY UnderWayKept DEF Live
  <2>2. CommandFailed(r) => CommandFailed(r)'
    BY DEF CommandFailed
  <2>3. Driven(r, expected[r]) => Driven(r, expected[r])'
    BY <1>3 DEF Driven
  <2>4. Stored(r, expected[r]) => Stored(r, expected[r])'
    BY <1>3 DEF Stored
  <2>5. Shown(r) => Shown(r)'
    BY <1>3
  <2> QED BY <1>3, <2>1, <2>2, <2>3, <2>4, <2>5 DEF AgreementInv, Agreeing
<1>4. \A r \in Reader : Agreeing(r)'
  BY <1>2, <1>3 DEF Agreeing
<1> QED BY <1>1, <1>4 DEF AgreementInv

\* The frame of a step of handle().
LEMMA HandleFrame ==
  ASSUME IInv, NEW w \in Worker,
         \/ Decide(w) \/ Write(w) \/ StoreExpected(w) \/ RecordLockState(w)
         \/ BuildPayloads(w) \/ SendPayload(w) \/ RecordEvent(w) \/ ScheduleRelock(w)
  PROVE  /\ pc[w] # "idle" /\ Held(w).reader \in Reader
         /\ jobs'[holds[w]] = Held(w) /\ Held(w)' = Held(w)
         /\ \A j \in JobId : Live(j) => jobs'[j] = jobs[j]
         /\ faults' = 0 => faults = 0
<1> USE DEF storeVars, queueVars
<1>1. pc[w] # "idle" /\ holds' = holds
  BY DEF Decide, Write, StoreExpected, RecordLockState, BuildPayloads, SendPayload,
         RecordEvent, ScheduleRelock
<1>2. holds[w] \in JobId /\ Live(holds[w]) /\ Held(w).reader \in Reader
  BY <1>1, HeldIsLive DEF Job
<1>3. \A j \in JobId : Live(j) => jobs'[j] = jobs[j]
  BY FreeIdFacts DEF Decide, Write, StoreExpected, RecordLockState, BuildPayloads, SendPayload,
     RecordEvent, ScheduleRelock, IInv, TypeOK
<1>4. faults' = 0 => faults = 0
  <2>1. faults' = faults \/ faults' = faults + 1
    BY DEF Decide, Write, StoreExpected, RecordLockState, BuildPayloads, SendPayload, Fault,
       RecordEvent, ScheduleRelock
  <2>2. faults \in Nat
    BY BoundAssumption DEF IInv, TypeOK
  <2> QED BY <2>1, <2>2
<1> QED BY <1>1, <1>2, <1>3, <1>4 DEF Held

\* The steps that change none of the records.
LEMMA QuietAgrees ==
  ASSUME IInv, OneWorker, Working, AgreementInv, audit \subseteq audit', NEW w \in Worker,
         Decide(w) \/ BuildPayloads(w) \/ RecordEvent(w) \/ ScheduleRelock(w)
  PROVE  AgreementInv'
<1> DEFINE s == Held(w).reader
<1> USE DEF deviceVars, storeVars, queueVars
<1>1. /\ pc[w] # "idle" /\ s \in Reader /\ Held(w)' = Held(w)
      /\ jobs'[holds[w]] = Held(w)
      /\ \A j \in JobId : Live(j) => jobs'[j] = jobs[j]
      /\ faults' = 0 => faults = 0
  BY HandleFrame
<1>2. /\ UNCHANGED <<output, expected, lockState, retained, at, faults>>
      /\ Carried(w)
  BY DEF Decide, BuildPayloads, RecordEvent, ScheduleRelock, AgreementInv
<1>3. at[w] = 1
  BY DEF Decide, BuildPayloads, RecordEvent, ScheduleRelock, IInv, TypeOK, Walking
<1>4. Carried(w)'
  <2>1. CASE Decide(w)
    <3>1. pc'[w] = "write"
      BY <2>1 DEF Decide, IInv, TypeOK
    <3> QED BY <1>2, <1>3, <3>1 DEF Carried
  <2>2. CASE BuildPayloads(w)
    <3>1. /\ pc[w] = "build" /\ pc'[w] = IF TopicLocks[s] = <<>> THEN "event" ELSE "send"
          /\ \A l \in Lock : l \in ElementsOf(TopicLocks[s]) => snap'[w][l] = lockState[l]
          /\ goal'[w] = goal[w]
      BY <2>2 DEF BuildPayloads, IInv, TypeOK
    <3>2. ElementsOf(TopicLocks[s]) \subseteq Lock
      BY <1>1, WiringAssumption DEF ElementsOf
    <3>3. TopicLocks[s] = <<>> => ElementsOf(TopicLocks[s]) = {}
      BY EmptyQueue
    <3>4. Driven(s, goal[w]) /\ Stored(s, goal[w]) /\ expected[s] = goal[w]
      BY <1>2, <3>1 DEF Carried
    <3>5. Driven(s, goal[w])' /\ Stored(s, goal[w])'
      BY <1>1, <1>2, <3>1, <3>4 DEF Driven, Stored
    <3>6. pc'[w] = "event" => Shown(s)'
      BY <1>1, <3>1, <3>3 DEF Shown
    <3>7. pc'[w] = "send" => \A l \in ElementsOf(TopicLocks[s]) : snap'[w][l] = lockState'[l]
      BY <1>2, <3>1, <3>2
    <3> QED BY <1>1, <1>2, <1>3, <3>1, <3>4, <3>5, <3>6, <3>7 DEF Carried
  <2>3. CASE RecordEvent(w) \/ ScheduleRelock(w)
    <3>1. /\ pc[w] \in {"event", "relock"} /\ pc'[w] \in {"relock", "ack"}
          /\ goal'[w] = goal[w]
      BY <2>3 DEF RecordEvent, ScheduleRelock, IInv, TypeOK
    <3>2. Driven(s, goal[w]) /\ Stored(s, goal[w]) /\ Shown(s) /\ expected[s] = goal[w]
      BY <1>2, <3>1 DEF Carried
    <3>3. Driven(s, goal[w])' /\ Stored(s, goal[w])' /\ Shown(s)'
      BY <1>1, <1>2, <3>1, <3>2 DEF Driven, Stored, Shown
    <3> QED BY <1>1, <1>2, <3>1, <3>2, <3>3 DEF Carried
  <2> QED BY <2>1, <2>2, <2>3
<1>5. \A r \in Reader : Shown(r) => Shown(r)'
  BY <1>2 DEF Shown
<1> QED BY <1>1, <1>2, <1>4, <1>5, HandleAgrees

\* A write of an output.
LEMMA WriteAgrees ==
  ASSUME IInv, OneWorker, DoorsApart, Working, AgreementInv, audit \subseteq audit',
         NEW w \in Worker, Write(w)
  PROVE  AgreementInv'
<1> DEFINE s == Held(w).reader
           n == Len(Outputs[s])
           c == Outputs[s][at[w]]
<1> USE DEF storeVars, queueVars
<1>1. /\ pc[w] # "idle" /\ s \in Reader /\ Held(w)' = Held(w)
      /\ jobs'[holds[w]] = Held(w)
      /\ \A j \in JobId : Live(j) => jobs'[j] = jobs[j]
      /\ faults' = 0 => faults = 0
  BY HandleFrame
<1>2. /\ UNCHANGED <<expected, lockState, retained, goal, faults>>
      /\ pc[w] = "write" /\ output' = [output EXCEPT ![c] = goal[w]]
  BY DEF Write
<1>3. /\ at[w] \in 1..n /\ n \in Nat /\ DOMAIN Outputs[s] = 1..n
      /\ \A i \in 1..n : Outputs[s][i] \in Channel
  BY <1>1, <1>2, ListFacts DEF IInv, TypeOK, Walking
<1>4. \A i \in 1..at[w] : output'[Outputs[s][i]] = goal[w]
  <2>1. \A i \in 1..(at[w] - 1) : output[Outputs[s][i]] = goal[w]
    BY <1>2 DEF AgreementInv, Carried
  <2>2. \A d \in Channel : output'[d] = IF d = c THEN goal[w] ELSE output[d]
    BY <1>2 DEF IInv, TypeOK
  <2>3. \A i \in 1..at[w] : i = at[w] \/ i \in 1..(at[w] - 1)
    BY <1>3
  <2> QED BY <1>3, <2>1, <2>2, <2>3
<1>5. \/ pc'[w] = "write" /\ at'[w] = at[w] + 1
      \/ pc'[w] = "expect" /\ at'[w] = 1 /\ at[w] = n
  BY <1>2, <1>3 DEF Write, Advance, IInv, TypeOK
<1>6. Carried(w)'
  <2>1. CASE pc'[w] = "write" /\ at'[w] = at[w] + 1
    <3>1. \A i \in 1..(at'[w] - 1) : output'[Outputs[s][i]] = goal'[w]
      BY <1>2, <1>3, <1>4, <2>1
    <3> QED BY <1>1, <2>1, <3>1 DEF Carried
  <2>2. CASE pc'[w] = "expect" /\ at[w] = n
    <3>1. Driven(s, goal[w])'
      BY <1>1, <1>2, <1>3, <1>4, <2>2 DEF Driven, Drives, ElementsOf
    <3> QED BY <1>1, <1>2, <2>2, <3>1 DEF Carried
  <2> QED BY <1>5, <2>1, <2>2
<1>7. ASSUME NEW r \in Reader \ {s}, NEW d \in Drives(r) PROVE output'[d] = output[d]
  <2>1. c \in Drives(s)
    BY <1>3 DEF Drives, ElementsOf
  <2>2. d # c
    BY <1>1, <2>1 DEF DoorsApart
  <2>3. d \in Channel
    BY WiringAssumption DEF Drives, ElementsOf
  <2> QED BY <1>2, <2>2, <2>3 DEF IInv, TypeOK
<1>8. \A r \in Reader : Shown(r) => Shown(r)'
  BY <1>2 DEF Shown
<1> QED BY <1>1, <1>2, <1>6, <1>7, <1>8, HandleAgrees

\* The expected state is stored.
LEMMA ExpectAgrees ==
  ASSUME IInv, OneWorker, Working, AgreementInv, audit \subseteq audit',
         NEW w \in Worker, StoreExpected(w)
  PROVE  AgreementInv'
<1> DEFINE s == Held(w).reader
<1> USE DEF deviceVars, queueVars
<1>1. /\ pc[w] # "idle" /\ s \in Reader /\ Held(w)' = Held(w)
      /\ jobs'[holds[w]] = Held(w)
      /\ \A j \in JobId : Live(j) => jobs'[j] = jobs[j]
      /\ faults' = 0 => faults = 0
  BY HandleFrame
<1>2. /\ UNCHANGED <<output, lockState, retained, goal, at, faults>>
      /\ pc[w] = "expect" /\ expected' = [expected EXCEPT ![s] = goal[w]]
      /\ pc'[w] = IF StoredLocks[s] = <<>> THEN "build" ELSE "record"
  BY DEF StoreExpected, IInv, TypeOK
<1>3. expected'[s] = goal[w] /\ \A r \in Reader \ {s} : expected'[r] = expected[r]
  BY <1>1, <1>2 DEF IInv, TypeOK
<1>4. at[w] = 1
  BY <1>2 DEF IInv, TypeOK, Walking
<1>5. Driven(s, goal[w])'
  BY <1>1, <1>2 DEF AgreementInv, Carried, Driven
<1>6. pc'[w] = "build" => Stored(s, goal[w])'
  BY <1>1, <1>2, EmptyQueue DEF Stored
<1>7. Carried(w)'
  BY <1>1, <1>2, <1>3, <1>4, <1>5, <1>6 DEF Carried
<1>8. \A r \in Reader : Shown(r) => Shown(r)'
  BY <1>2 DEF Shown
<1> QED BY <1>1, <1>2, <1>3, <1>7, <1>8, HandleAgrees

\* The state of a lock is stored.
LEMMA RecordAgrees ==
  ASSUME IInv, OneWorker, DoorsApart, Working, AgreementInv, audit \subseteq audit',
         NEW w \in Worker, RecordLockState(w)
  PROVE  AgreementInv'
<1> DEFINE s == Held(w).reader
           n == Len(StoredLocks[s])
           m == StoredLocks[s][at[w]]
<1> USE DEF deviceVars, queueVars
<1>1. /\ pc[w] # "idle" /\ s \in Reader /\ Held(w)' = Held(w)
      /\ jobs'[holds[w]] = Held(w)
      /\ \A j \in JobId : Live(j) => jobs'[j] = jobs[j]
      /\ faults' = 0 => faults = 0
  BY HandleFrame
<1>2. /\ UNCHANGED <<output, expected, retained, goal, faults>>
      /\ pc[w] = "record" /\ lockState' = [lockState EXCEPT ![m] = goal[w]]
  BY DEF RecordLockState
<1>3. /\ at[w] \in 1..n /\ n \in Nat /\ DOMAIN StoredLocks[s] = 1..n
      /\ \A i \in 1..n : StoredLocks[s][i] \in Lock
  BY <1>1, <1>2, ListFacts DEF IInv, TypeOK, Walking
<1>4. \A i \in 1..at[w] : lockState'[StoredLocks[s][i]] = goal[w]
  <2>1. \A i \in 1..(at[w] - 1) : lockState[StoredLocks[s][i]] = goal[w]
    BY <1>2 DEF AgreementInv, Carried
  <2>2. \A l \in Lock : lockState'[l] = IF l = m THEN goal[w] ELSE lockState[l]
    BY <1>2 DEF IInv, TypeOK
  <2>3. \A i \in 1..at[w] : i = at[w] \/ i \in 1..(at[w] - 1)
    BY <1>3
  <2> QED BY <1>3, <2>1, <2>2, <2>3
<1>5. \/ pc'[w] = "record" /\ at'[w] = at[w] + 1
      \/ pc'[w] = "build" /\ at'[w] = 1 /\ at[w] = n
  BY <1>2, <1>3 DEF RecordLockState, Advance, IInv, TypeOK
<1>6. Driven(s, goal[w])' /\ expected'[s] = goal'[w]
  BY <1>1, <1>2 DEF AgreementInv, Carried, Driven
<1>7. Carried(w)'
  <2>1. CASE pc'[w] = "record" /\ at'[w] = at[w] + 1
    <3>1. \A i \in 1..(at'[w] - 1) : lockState'[StoredLocks[s][i]] = goal'[w]
      BY <1>2, <1>3, <1>4, <2>1
    <3> QED BY <1>1, <1>2, <1>6, <2>1, <3>1 DEF Carried
  <2>2. CASE pc'[w] = "build" /\ at[w] = n
    <3>1. Stored(s, goal[w])'
      BY <1>1, <1>2, <1>3, <1>4, <2>2 DEF Stored, ElementsOf
    <3> QED BY <1>1, <1>2, <1>6, <2>2, <3>1 DEF Carried
  <2> QED BY <1>5, <2>1, <2>2
<1>8. m \in ElementsOf(StoredLocks[s])
  BY <1>3 DEF ElementsOf
<1>9. ASSUME NEW r \in Reader \ {s}
      PROVE  /\ \A l \in ElementsOf(StoredLocks[r]) : lockState'[l] = lockState[l]
             /\ \A l \in ElementsOf(TopicLocks[r]) : lockState'[l] = lockState[l]
  <2>1. m \notin ElementsOf(StoredLocks[r]) /\ m \notin ElementsOf(TopicLocks[r])
    BY <1>1, <1>8 DEF DoorsApart
  <2>2. ElementsOf(StoredLocks[r]) \subseteq Lock /\ ElementsOf(TopicLocks[r]) \subseteq Lock
    BY WiringAssumption DEF ElementsOf
  <2> QED BY <1>2, <2>1, <2>2 DEF IInv, TypeOK
<1>10. \A r \in Reader \ {s} : Shown(r) => Shown(r)'
  BY <1>2, <1>9 DEF Shown
<1> QED BY <1>1, <1>2, <1>7, <1>9, <1>10, HandleAgrees

\* The state of a lock is published, or the publish is lost.
LEMMA SendAgrees ==
  ASSUME IInv, OneWorker, Working, AgreementInv, audit \subseteq audit',
         NEW w \in Worker, SendPayload(w)
  PROVE  AgreementInv'
<1> DEFINE s == Held(w).reader
           n == Len(TopicLocks[s])
           m == TopicLocks[s][at[w]]
<1> USE DEF deviceVars, queueVars
<1>1. /\ pc[w] # "idle" /\ s \in Reader /\ Held(w)' = Held(w)
      /\ jobs'[holds[w]] = Held(w)
      /\ \A j \in JobId : Live(j) => jobs'[j] = jobs[j]
      /\ faults' = 0 => faults = 0
  BY HandleFrame
<1>2. /\ UNCHANGED <<output, expected, lockState, goal, snap>>
      /\ pc[w] = "send"
      /\ faults' = 0 => retained' = [retained EXCEPT ![m] = snap[w][m]]
  BY DEF SendPayload, Fault, IInv, TypeOK
<1>3. /\ at[w] \in 1..n /\ n \in Nat /\ DOMAIN TopicLocks[s] = 1..n
      /\ \A i \in 1..n : TopicLocks[s][i] \in Lock
  BY <1>1, <1>2, ListFacts DEF IInv, TypeOK, Walking
<1>4. /\ \A l \in ElementsOf(TopicLocks[s]) : snap[w][l] = lockState[l]
      /\ faults = 0 =>
           \A i \in 1..(at[w] - 1) : retained[TopicLocks[s][i]] = lockState[TopicLocks[s][i]]
      /\ Driven(s, goal[w]) /\ Stored(s, goal[w]) /\ expected[s] = goal[w]
  BY <1>2 DEF AgreementInv, Carried
<1>5. faults' = 0 => \A l \in Lock : retained'[l] = IF l = m THEN lockState[l] ELSE retained[l]
  <2>1. snap[w][m] = lockState[m]
    BY <1>3, <1>4 DEF ElementsOf
  <2> QED BY <1>2, <2>1 DEF IInv, TypeOK
<1>6. faults' = 0 => \A i \in 1..at[w] : retained'[TopicLocks[s][i]] = lockState[TopicLocks[s][i]]
  <2>1. \A i \in 1..at[w] : i = at[w] \/ i \in 1..(at[w] - 1)
    BY <1>3
  <2> QED BY <1>1, <1>3, <1>4, <1>5, <2>1
<1>7. \/ pc'[w] = "send" /\ at'[w] = at[w] + 1
      \/ pc'[w] = "event" /\ at'[w] = 1 /\ at[w] = n
  BY <1>2, <1>3 DEF SendPayload, Advance, IInv, TypeOK
<1>8. Driven(s, goal[w])' /\ Stored(s, goal[w])' /\ expected'[s] = goal'[w]
  BY <1>1, <1>2, <1>4 DEF Driven, Stored
<1>9. Carried(w)'
  <2>1. CASE pc'[w] = "send" /\ at'[w] = at[w] + 1
    <3>1. faults' = 0 =>
            \A i \in 1..(at'[w] - 1) : retained'[TopicLocks[s][i]] = lockState'[TopicLocks[s][i]]
      BY <1>2, <1>3, <1>6, <2>1
    <3>2. \A l \in ElementsOf(TopicLocks[s]) : snap'[w][l] = lockState'[l]
      BY <1>2, <1>4
    <3> QED BY <1>1, <1>8, <2>1, <3>1, <3>2 DEF Carried
  <2>2. CASE pc'[w] = "event" /\ at[w] = n
    <3>1. Shown(s)'
      BY <1>1, <1>2, <1>3, <1>6, <2>2 DEF Shown, ElementsOf
    <3> QED BY <1>1, <1>8, <2>2, <3>1 DEF Carried
  <2> QED BY <1>7, <2>1, <2>2
<1>10. ASSUME NEW r \in Reader, Shown(r) PROVE Shown(r)'
  <2>1. ElementsOf(TopicLocks[r]) \subseteq Lock
    BY WiringAssumption DEF ElementsOf
  <2> QED BY <1>1, <1>2, <1>5, <1>10, <2>1 DEF Shown
<1> QED BY <1>1, <1>2, <1>9, <1>10, HandleAgrees

LEMMA AgreementStep ==
  ASSUME IInv, OneWorker, DoorsApart, Working, Expecting, AgreementInv, [Next]_vars
  PROVE  AgreementInv'
<1>1. audit \subseteq audit'
  BY AuditGrows
<1>2. CASE Request
  <2>1. \E source : \E r \in Reader, target \in Power \cup {Toggle}, relock \in BOOLEAN :
          Dispatch(source, r, target, relock)
    BY <1>2, WiringAssumption DEF Request, CardGranted, MqttCommand, WebhookLock,
       WebhookUnlock, LockApi, ReaderApi, AreaControl, DashboardToggle, Opposite, Power
  <2> QED BY <2>1, QueueAgrees
<1>3. CASE \E k \in JobId : Mature(k)
  BY <1>3, QueueAgrees
<1>4. CASE \E w \in Worker : Reserve(w)
  BY <1>1, <1>4, ReserveAgrees
<1>5. CASE \E w \in Worker : Throw(w) \/ Crash(w) \/ DropUnbound(w) \/ Ack(w)
  BY <1>1, <1>5, ReleaseAgrees
<1>6. CASE \E w \in Worker : Decide(w) \/ BuildPayloads(w) \/ RecordEvent(w) \/ ScheduleRelock(w)
  BY <1>1, <1>6, QuietAgrees
<1>7. CASE \E w \in Worker : Write(w) \/ StoreExpected(w) \/ RecordLockState(w) \/ SendPayload(w)
  BY <1>1, <1>7, WriteAgrees, ExpectAgrees, RecordAgrees, SendAgrees
<1>8. CASE UNCHANGED vars
  <2> USE <1>8 DEF vars, deviceVars, storeVars, queueVars, workerVars
  <2>1. \A w \in Worker : Carried(w)'
    BY CarriedKept DEF AgreementInv, Held
  <2>2. ASSUME NEW r \in Reader PROVE Agreeing(r)'
    <3>1. UnderWay(r) => UnderWay(r)'
      BY DEF UnderWay, Live
    <3> QED BY <3>1, AgreeingKept DEF AgreementInv
  <2> QED BY <2>1, <2>2 DEF AgreementInv
<1> QED BY <1>2, <1>3, <1>4, <1>5, <1>6, <1>7, <1>8 DEF Next, Run

\* For every wiring in which no reader changes another one's door, and through every
\* retry, crash and lost publish: when the only worker has nothing begun left, a
\* reader's outputs and stored locks are in the state it is expected to be in, and
\* the broker shows it unless a publish was lost (ProcessReaderEvent::handle).
THEOREM RecordsAgree ==
  ASSUME OneWorker, DoorsApart
  PROVE  Spec => []SettledAgreement
<1>1. Init => Working /\ Expecting
  BY DEF Init, Working, Expecting, Behind, ExpectationAudited
<1>2. Init => AgreementInv
  BY DEF Init, AgreementInv, Carried, Agreeing
<1>3. IInv /\ Working /\ Expecting /\ AgreementInv /\ [Next]_vars
        => Working' /\ Expecting' /\ AgreementInv'
  BY AuditStep, AgreementStep
<1>4. IInv /\ AgreementInv => SettledAgreement
  <2> SUFFICES ASSUME IInv, AgreementInv, NEW r \in Reader, Settled(r), expected[r] # Unset
               PROVE  Driven(r, expected[r]) /\ Stored(r, expected[r]) /\ Shown(r)
    BY DEF SettledAgreement, Driven, Stored, Shown
  <2>1. ~UnderWay(r) /\ ~CommandFailed(r)
    BY DEF Settled, UnderWay
  <2> QED BY <2>1 DEF AgreementInv, Agreeing
<1> QED BY Inductive, <1>1, <1>2, <1>3, <1>4, PTL DEF Spec
=============================================================================
