----------------------- MODULE PublishedStates_proofs ------------------------
(***************************************************************************)
(* Proofs about PublishedStates for any number of requests and workers,    *)
(* all durations and all values of the bounds.                             *)
(***************************************************************************)
EXTENDS PublishedStates, TLAPS

LockTask == WebRequest \cup MqttAutolock \cup StateJob

\* What the place of a process says about its task and what it has read.
KnownOf(p) ==
  /\ pc[p] \in {"readLock", "readArea", "save"} => task[p] \in LockTask
  /\ pc[p] = "readLock" => task[p].kind \in OfLock
  /\ pc[p] = "readArea" /\ task[p].kind \in OfLock =>
       task[p].kind \in {"ha", "mqtt"} /\ mem[p].lock \in LockRow
  /\ pc[p] = "save" =>
       /\ task[p].kind \in OfLock => mem[p].lock \in LockRow
       /\ task[p].kind \in {"ha", "mqtt"} \/ task[p].kind \notin OfLock => mem[p].area \in Setting
  /\ pc[p] \in Window["lock"] => mem[p].lock \in LockRow
  /\ pc[p] = "lockSend" => mem[p].area \in Setting
  /\ pc[p] = "readSensor" => task[p] \in SensorRequest \cup {PublishAll}
  /\ pc[p] \in Window["sensor"] => mem[p].sensor \in BOOLEAN
  /\ pc[p] = "sensorSave" => task[p] \in SensorForm \cup Report
  /\ p \in Worker /\ pc[p] # "idle" =>
       /\ task[p] \in Job
       /\ pc[p] \in {"readLock", "save", "fresh"} \cup Window["lock"]
  /\ p # Monitor => pc[p] # "down" /\ (pc[p] # "idle" => task[p] # PublishAll)
  /\ pc[p] = "enqueue" => task[p] \in LockTask
  /\ pc[p] \in {"fresh"} \cup Window["lock"] => task[p] \in Job \cup LockTask \cup {PublishAll}

Known == \A p \in Process : KnownOf(p)

IInv == TypeOK /\ Known

-----------------------------------------------------------------------------
(***************************************************************************)
(* Tasks, rows and messages.                                               *)
(***************************************************************************)

\* The fields of a request for the lock.
LEMMA LockTaskFields ==
  ASSUME NEW t \in LockTask
  PROVE  /\ t.kind \in {"ha", "mqtt", "lock_api", "lock_form", "area_form", "area_page",
                        "reader_api", "toggle", "state"}
         /\ t.kind \in {"state", "lock_form"} => t.power \in {0, 1}
         /\ t.kind = "state" => t \in StateJob
         /\ t.kind \in {"ha", "mqtt"} =>
              t.enabled \in BOOLEAN \cup {Keep} /\ t.duration \in Seconds \cup {Keep}
         /\ t.kind = "lock_api" => t.enabled \in BOOLEAN /\ t.duration \in Seconds
         /\ t.kind = "lock_form" =>
              t.enabled \in BOOLEAN \cup {Unset} /\ t.duration \in Seconds \cup {Unset}
         /\ t.kind \in {"area_form", "area_page", "reader_api"} =>
              t.enabled \in BOOLEAN /\ t.duration \in Seconds \cup {Keep}
         /\ t.kind = "toggle" => t.duration = Keep
<1>1. CASE t \in HomeAssistantCommand
  BY <1>1 DEF HomeAssistantCommand, Asks, Half, Accepted, Seconds
<1>2. CASE t \in MqttAutolock
  BY <1>2 DEF MqttAutolock, Asks, Half, Accepted, Seconds
<1>3. CASE t \in LockApiAutolock
  BY <1>3 DEF LockApiAutolock, Asks, Accepted, Seconds
<1>4. CASE t \in LockForm
  BY <1>4 DEF LockForm, Seconds
<1>5. CASE t \in AreaForm \cup AreaPageAutolock
  BY <1>5 DEF AreaForm, AreaPageAutolock, Asks, Seconds
<1>6. CASE t \in ReaderApiAutolock \cup ToggleAutolock
  BY <1>6 DEF ReaderApiAutolock, ToggleAutolock, Asks, Seconds
<1>7. CASE t \in StateJob
  BY <1>7 DEF StateJob
<1> QED BY <1>1, <1>2, <1>3, <1>4, <1>5, <1>6, <1>7 DEF LockTask, WebRequest

\* What an area and a lock resolve to.
LEMMA ResolveType ==
  ASSUME NEW a \in Setting, NEW l \in LockRow
  PROVE  /\ Resolve(a, l).enabled \in BOOLEAN
         /\ Resolve(a, l).duration \in Seconds
         /\ Resolve(a, l).source \in {"area_default", "lock_override"}
  BY MarksDiffer DEF Resolve, Setting, LockRow, Override

LEMMA ClampType ==
  ASSUME NEW d \in Seconds
  PROVE  Clamp(d) \in Seconds /\ Clamp(d) <= Limit
  BY DurationsAreSeconds DEF Clamp, Limit, Seconds

\* Messages tell no duration beyond the limit.
LEMMA PayloadType ==
  ASSUME NEW a \in Setting, NEW l \in LockRow
  PROVE  buildLockStatePayload(a, l) \in LockMessage
<1>1. l.power \in {0, 1}
  BY DEF LockRow
<1> QED BY <1>1, ResolveType, ClampType DEF buildLockStatePayload, LockMessage

LEMMA LockSavedType ==
  ASSUME TypeOK, NEW p \in Process, KnownOf(p), pc[p] = "save", task[p].kind \in OfLock
  PROVE  LockSaved(p) \subseteq LockRow
<1> DEFINE t == task[p]
           asked == OverrideAsked(t, mem[p].area, mem[p].lock)
<1>1. t \in LockTask /\ mem[p].lock \in LockRow /\ lock \in LockRow
  BY DEF KnownOf, TypeOK
<1>2. /\ mem[p].lock.config \in Override /\ mem[p].lock.power \in {0, 1}
      /\ lock.config \in Override /\ lock.power \in {0, 1}
  BY <1>1 DEF LockRow
<1>3. ASSUME t.kind # "state" PROVE asked \in Override
  <2>1. CASE t.kind \in {"ha", "mqtt"}
    <3>1. mem[p].area \in Setting
      BY <2>1 DEF KnownOf
    <3>2. /\ Resolve(mem[p].area, mem[p].lock).enabled \in BOOLEAN
          /\ Resolve(mem[p].area, mem[p].lock).duration \in Seconds
      BY <1>1, <3>1, ResolveType
    <3>3. /\ t.enabled \in BOOLEAN \cup {Keep} /\ t.duration \in Seconds \cup {Keep}
      BY <1>1, <2>1, LockTaskFields
    <3> QED BY <3>2, <3>3, ClampType DEF OverrideAsked, Override
  <2>2. CASE t.kind \in {"lock_api", "lock_form"}
    <3>1. t.enabled \in BOOLEAN \cup {Unset} /\ t.duration \in Seconds \cup {Unset}
      BY <1>1, <2>2, LockTaskFields
    <3>2. t.enabled # Keep /\ t.duration # Keep
      <4>1. Seconds \subseteq Nat
        BY DurationsAreSeconds DEF Seconds, Limit
      <4>2. Keep \notin BOOLEAN \cup {Unset} /\ Keep \notin Seconds \cup {Unset}
        BY <4>1, MarksDiffer, Zenon
      <4> QED BY <3>1, <4>2, Zenon
    <3> QED BY <3>1, <3>2 DEF OverrideAsked, Override
  <2> QED BY <1>1, <1>3, <2>1, <2>2 DEF OfLock
<1>4. t.kind \in {"state", "lock_form"} => t.power \in {0, 1}
  BY <1>1, LockTaskFields
<1> QED BY <1>2, <1>3, <1>4 DEF LockSaved, Saved, LockRow

LEMMA DefaultAskedType ==
  ASSUME TypeOK, NEW p \in Process, KnownOf(p), pc[p] = "save", task[p].kind \notin OfLock
  PROVE  DefaultAsked(task[p], mem[p].area) \in Setting
<1>1. task[p] \in LockTask /\ mem[p].area \in Setting
  BY DEF KnownOf
<1>2. task[p].kind \in {"area_form", "area_page", "reader_api", "toggle"}
  BY <1>1, LockTaskFields DEF OfLock
<1>3. mem[p].area.enabled \in BOOLEAN /\ mem[p].area.duration \in Seconds
  BY <1>1 DEF Setting
<1> QED BY <1>1, <1>2, <1>3, LockTaskFields DEF DefaultAsked, Setting

\* The kind of a task tells where it comes from.
LEMMA TaskKinds ==
  /\ \A t \in Job : /\ t \in Task
                    /\ t.kind = "state" => t \in StateJob
                    /\ t.kind # "state" => t.kind = "publish"
                    /\ t.kind # "publish_all"
  /\ \A t \in LockTask : t \in Task /\ t.kind \notin {"publish", "publish_all"}
  /\ \A t \in SensorRequest :
       /\ t \in Task
       /\ t.kind \in {"sensor_form", "sensor_report"} => t \in SensorForm \cup Report
       /\ t.kind # "publish_all"
  /\ \A t \in SensorForm \cup Report : t.state \in BOOLEAN /\ t \in SensorRequest
  /\ PublishAll.kind = "publish_all" /\ PublishAll \in Task
<1>1. \A t \in Job : /\ t \in Task
                     /\ t.kind = "state" => t \in StateJob
                     /\ t.kind # "state" => t.kind = "publish"
                     /\ t.kind # "publish_all"
  BY DEF Job, Task, StateJob, PublishLocksForReader
<1>2. \A t \in LockTask : t \in Task /\ t.kind \notin {"publish", "publish_all"}
  <2> TAKE t \in LockTask
  <2>1. t \in Task
    BY DEF LockTask, Task, Job
  <2> QED BY <2>1, LockTaskFields
<1>3. \A t \in SensorRequest :
        /\ t \in Task
        /\ t.kind \in {"sensor_form", "sensor_report"} => t \in SensorForm \cup Report
        /\ t.kind # "publish_all"
  BY DEF SensorRequest, Task, SensorForm, BindingForm, Report
<1>4. \A t \in SensorForm \cup Report : t.state \in BOOLEAN /\ t \in SensorRequest
  BY DEF SensorRequest, SensorForm, Report
<1> QED BY <1>1, <1>2, <1>3, <1>4 DEF PublishAll, Task

-----------------------------------------------------------------------------
(***************************************************************************)
(* What one process does leaves what is known of the others.               *)
(***************************************************************************)

\* KnownOf reads nothing but the process's own place, task and rows.
LEMMA KnownElsewhere ==
  ASSUME NEW q \in Process, KnownOf(q),
         pc'[q] = pc[q], task'[q] = task[q], mem'[q] = mem[q]
  PROVE  KnownOf(q)'
  BY DEF KnownOf, Window

\* Of an idle process there is nothing to know.
LEMMA KnownIdle ==
  ASSUME NEW q \in Process, pc'[q] = "idle"
  PROVE  KnownOf(q)'
  BY DEF KnownOf, Window

\* A process that goes on.
LEMMA ContinueKeeps ==
  ASSUME IInv, NEW p \in Process, NEW next \in Place, NEW rows, rows \in Memory,
         Continue(p, next, rows), next # "idle" => KnownOf(p)'
  PROVE  /\ pc' \in [Process -> Place] /\ task' \in [Process -> Task]
         /\ mem' \in [Process -> Memory] /\ Known'
<1>1. pc' \in [Process -> Place]
  BY DEF IInv, TypeOK, Continue
<1>2. task' \in [Process -> Task]
  <2>1. Nobody \in Task
    BY DEF Task
  <2> QED BY <2>1 DEF IInv, TypeOK, Continue
<1>3. mem' \in [Process -> Memory]
  <2>1. NoRows \in Memory
    BY DEF NoRows, Memory
  <2> QED BY <2>1 DEF IInv, TypeOK, Continue
<1>4. ASSUME NEW q \in Process PROVE KnownOf(q)'
  <2>1. CASE q # p
    <3>1. pc'[q] = pc[q] /\ task'[q] = task[q] /\ mem'[q] = mem[q]
      BY <2>1 DEF IInv, TypeOK, Continue
    <3> QED BY <3>1, KnownElsewhere DEF IInv, Known
  <2>2. CASE q = p /\ next = "idle"
    <3>1. pc'[q] = "idle"
      BY <2>2 DEF IInv, TypeOK, Continue
    <3> QED BY <3>1, KnownIdle
  <2> QED BY <2>1, <2>2
<1> QED BY <1>1, <1>2, <1>3, <1>4 DEF Known

\* What a process that goes on, and does not end, has then.
LEMMA ContinueValues ==
  ASSUME IInv, NEW p \in Process, NEW next, NEW rows, Continue(p, next, rows)
  PROVE  /\ pc'[p] = next
         /\ next # "idle" => task'[p] = task[p] /\ mem'[p] = rows
  BY DEF IInv, TypeOK, Continue

\* A process that begins.
LEMMA BeginKeeps ==
  ASSUME IInv, NEW p \in Process, NEW t \in Task, NEW first \in Place,
         Begin(p, t, first), UNCHANGED mem, KnownOf(p)'
  PROVE  /\ pc' \in [Process -> Place] /\ task' \in [Process -> Task]
         /\ mem' \in [Process -> Memory] /\ Known'
<1>1. pc' \in [Process -> Place] /\ task' \in [Process -> Task] /\ mem' \in [Process -> Memory]
  BY DEF IInv, TypeOK, Begin
<1>2. ASSUME NEW q \in Process PROVE KnownOf(q)'
  <2>1. CASE q # p
    <3>1. pc'[q] = pc[q] /\ task'[q] = task[q] /\ mem'[q] = mem[q]
      BY <2>1 DEF IInv, TypeOK, Begin
    <3> QED BY <3>1, KnownElsewhere DEF IInv, Known
  <2> QED BY <2>1
<1> QED BY <1>1, <1>2 DEF Known

LEMMA BeginValues ==
  ASSUME IInv, NEW p \in Process, NEW t, NEW first, Begin(p, t, first)
  PROVE  pc[p] = "idle" /\ pc'[p] = first /\ task'[p] = t
  BY DEF IInv, TypeOK, Begin

\* The histories and the retained messages keep their types.
LEMMA OpenType ==
  ASSUME IInv, NEW p \in Process, NEW d \in Device, Open(p, d)
  PROVE  lone' \in [Device -> Process \cup {Nobody}] /\ disturbed' \in [Device -> BOOLEAN]
  BY DEF IInv, TypeOK, Open

LEMMA TransmitType ==
  ASSUME IInv, NEW d \in Device, NEW payload, NEW arrives \in BOOLEAN,
         IF d = "lock" THEN payload \in LockMessage ELSE payload \in BOOLEAN,
         Transmit(d, payload, arrives)
  PROVE  /\ retained' = [e \in Device |-> retained'[e]]
         /\ retained'["lock"] \in LockMessage /\ retained'["sensor"] \in BOOLEAN
         /\ faults' \in 0..MaxFaults
<1>1. CASE arrives
  BY <1>1 DEF IInv, TypeOK, Transmit, Device
<1>2. CASE ~arrives
  BY <1>2, RequestBounds DEF IInv, TypeOK, Transmit
<1> QED BY <1>1, <1>2

-----------------------------------------------------------------------------
(***************************************************************************)
(* Every action keeps the types and what is known.                         *)
(***************************************************************************)

LEMMA StartMonitorKeeps ==
  ASSUME IInv, StartMonitor
  PROVE  IInv'
<1>1. Monitor \in Process
  BY DEF Process
<1>2. pc' \in [Process -> Place] /\ task' \in [Process -> Task] /\ mem' \in [Process -> Memory]
  BY TaskKinds DEF IInv, TypeOK, StartMonitor, Place
<1>3. ASSUME NEW q \in Process PROVE KnownOf(q)'
  <2>1. CASE q # Monitor
    <3>1. pc'[q] = pc[q] /\ task'[q] = task[q] /\ mem'[q] = mem[q]
      BY <2>1 DEF IInv, TypeOK, StartMonitor
    <3> QED BY <3>1, KnownElsewhere DEF IInv, Known
  <2>2. CASE q = Monitor
    <3>1. pc'[q] = "fresh" /\ task'[q] = PublishAll /\ q \notin Worker
      BY <1>1, <2>2, ProcessesDiffer DEF IInv, TypeOK, StartMonitor
    <3> QED BY <2>2, <3>1 DEF KnownOf, Window
  <2> QED BY <2>1, <2>2
<1>4. Known'
  BY <1>3 DEF Known
<1> QED BY <1>2, <1>4 DEF IInv, TypeOK, StartMonitor, Calm, lockVars, sensorVars

\* Where a request or job is taken up.
LEMMA FirstReads ==
  ASSUME NEW t \in LockTask \cup Job
  PROVE  /\ FirstRead(t) \in {"fresh", "readLock", "readArea"}
         /\ FirstRead(t) = "readLock" => t \in LockTask /\ t.kind \in OfLock
         /\ FirstRead(t) = "readArea" => t \in LockTask /\ t.kind \notin OfLock
         /\ t \in Job => FirstRead(t) # "readArea"
<1>1. CASE t \in LockTask
  BY <1>1, TaskKinds DEF FirstRead, OfLock
<1>2. CASE t \in Job
  BY <1>2, TaskKinds DEF FirstRead, OfLock, LockTask
<1> QED BY <1>1, <1>2

LEMMA ReceiveKeeps ==
  ASSUME IInv, NEW p \in Process \ Worker, NEW t \in LockTask, Receive(p, t),
         UNCHANGED sensorVars
  PROVE  IInv'
<1>1. Begin(p, t, FirstRead(t)) /\ UNCHANGED mem
  BY DEF Receive
<1>2. pc'[p] = FirstRead(t) /\ task'[p] = t
  BY <1>1, BeginValues
<1>3. t \in Task /\ t # PublishAll /\ FirstRead(t) \in Place
  BY TaskKinds, FirstReads DEF Place
<1>4. KnownOf(p)'
  BY <1>2, <1>3, FirstReads DEF KnownOf, Window
<1>5. requests' \in 0..MaxRequests
  BY RequestBounds DEF IInv, TypeOK, Receive, Count, Cost
<1>6. /\ pc' \in [Process -> Place] /\ task' \in [Process -> Task]
      /\ mem' \in [Process -> Memory] /\ Known'
  BY <1>1, <1>3, <1>4, BeginKeeps
<1> QED BY <1>5, <1>6 DEF IInv, TypeOK, Receive, Calm, lockVars, sensorVars

LEMMA QueueJobKeeps ==
  ASSUME IInv, NEW j \in Job, QueueJob(j), UNCHANGED sensorVars
  PROVE  IInv'
<1>1. requests' \in 0..MaxRequests
  BY RequestBounds DEF IInv, TypeOK, QueueJob, Count, Cost
<1>2. jobs' \in [Job -> Nat]
  BY DEF IInv, TypeOK, QueueJob
<1>3. Known'
  BY KnownElsewhere DEF IInv, Known, QueueJob
<1> QED BY <1>1, <1>2, <1>3 DEF IInv, TypeOK, QueueJob, Calm, sensorVars

LEMMA TakeJobKeeps ==
  ASSUME IInv, NEW p \in Worker, NEW j \in Job, TakeJob(p, j), UNCHANGED sensorVars
  PROVE  IInv'
<1>1. p \in Process /\ Begin(p, j, FirstRead(j)) /\ UNCHANGED mem
  BY DEF TakeJob, Process
<1>2. pc'[p] = FirstRead(j) /\ task'[p] = j
  BY <1>1, BeginValues
<1>3. j \in Task /\ j # PublishAll /\ FirstRead(j) \in Place
  BY TaskKinds, FirstReads DEF Place
<1>4. KnownOf(p)'
  BY <1>2, <1>3, FirstReads DEF KnownOf, Window
<1>5. jobs' \in [Job -> Nat]
  BY DEF IInv, TypeOK, TakeJob
<1>6. /\ pc' \in [Process -> Place] /\ task' \in [Process -> Task]
      /\ mem' \in [Process -> Memory] /\ Known'
  BY <1>1, <1>3, <1>4, BeginKeeps
<1> QED BY <1>5, <1>6 DEF IInv, TypeOK, TakeJob, Calm, sensorVars

LEMMA ReceiveSensorKeeps ==
  ASSUME IInv, NEW p \in Web, NEW t \in SensorRequest, ReceiveSensor(p, t),
         UNCHANGED lockVars
  PROVE  IInv'
<1>1. p \in Process /\ Begin(p, t, "readSensor") /\ UNCHANGED mem
  BY DEF ReceiveSensor, Process
<1>2. pc'[p] = "readSensor" /\ task'[p] = t
  BY <1>1, BeginValues
<1>3. t \in Task /\ t # PublishAll /\ "readSensor" \in Place /\ p \notin Worker
  BY TaskKinds, ProcessesDiffer DEF Place
<1>4. KnownOf(p)'
  BY <1>2, <1>3 DEF KnownOf, Window
<1>5. requests' \in 0..MaxRequests
  BY RequestBounds DEF IInv, TypeOK, ReceiveSensor, Count, Cost
<1>6. /\ pc' \in [Process -> Place] /\ task' \in [Process -> Task]
      /\ mem' \in [Process -> Memory] /\ Known'
  BY <1>1, <1>3, <1>4, BeginKeeps
<1> QED BY <1>5, <1>6 DEF IInv, TypeOK, ReceiveSensor, lockVars, sensorVars

LEMMA RowsRead ==
  ASSUME IInv, NEW p \in Process
  PROVE  /\ mem[p] \in Memory /\ NoRows \in Memory
         /\ [mem[p] EXCEPT !.lock = lock] \in Memory /\ [mem[p] EXCEPT !.lock = lock].lock = lock
         /\ [mem[p] EXCEPT !.area = area] \in Memory /\ [mem[p] EXCEPT !.area = area].area = area
         /\ [mem[p] EXCEPT !.area = area].lock = mem[p].lock
         /\ \A s \in BOOLEAN : /\ [mem[p] EXCEPT !.sensor = s] \in Memory
                               /\ [mem[p] EXCEPT !.sensor = s].sensor = s
<1>1. mem[p] \in Memory /\ area \in Setting /\ lock \in LockRow
  BY DEF IInv, TypeOK
<1> QED BY <1>1 DEF Memory, NoRows

LEMMA ReadLockKeeps ==
  ASSUME IInv, NEW p \in Process, ReadLock(p), UNCHANGED sensorVars
  PROVE  IInv'
<1> DEFINE next == IF task[p].kind \in {"ha", "mqtt"} THEN "readArea" ELSE "save"
           rows == [mem[p] EXCEPT !.lock = lock]
<1>1. Continue(p, next, rows) /\ pc[p] = "readLock" /\ next \in Place
  BY DEF ReadLock, Place
<1>2. pc'[p] = next /\ task'[p] = task[p] /\ mem'[p] = rows
  BY <1>1, ContinueValues
<1>3. KnownOf(p) /\ lock \in LockRow /\ rows \in Memory /\ rows.lock = lock
  BY RowsRead DEF IInv, TypeOK, Known
<1>4. /\ task[p] \in LockTask /\ task[p].kind \in OfLock
      /\ p \in Worker => task[p].kind = "state"
      /\ p # Monitor => task[p] # PublishAll
  BY <1>1, <1>3, TaskKinds DEF KnownOf
<1>5. KnownOf(p)'
  BY <1>2, <1>3, <1>4, <1>1 DEF KnownOf, Window
<1>6. /\ pc' \in [Process -> Place] /\ task' \in [Process -> Task]
      /\ mem' \in [Process -> Memory] /\ Known'
  BY <1>1, <1>3, <1>5, ContinueKeeps
<1> QED BY <1>6 DEF IInv, TypeOK, ReadLock, Calm, lockVars, sensorVars

LEMMA ReadAreaKeeps ==
  ASSUME IInv, NEW p \in Process, ReadArea(p), UNCHANGED sensorVars
  PROVE  IInv'
<1> DEFINE rows == [mem[p] EXCEPT !.area = area]
<1>1. Continue(p, "save", rows) /\ pc[p] = "readArea" /\ "save" \in Place
  BY DEF ReadArea, Place
<1>2. pc'[p] = "save" /\ task'[p] = task[p] /\ mem'[p] = rows
  BY <1>1, ContinueValues
<1>3. /\ KnownOf(p) /\ area \in Setting /\ rows \in Memory
      /\ rows.area = area /\ rows.lock = mem[p].lock
  BY RowsRead DEF IInv, TypeOK, Known
<1>4. KnownOf(p)'
  BY <1>1, <1>2, <1>3, TaskKinds DEF KnownOf, Window
<1>5. /\ pc' \in [Process -> Place] /\ task' \in [Process -> Task]
      /\ mem' \in [Process -> Memory] /\ Known'
  BY <1>1, <1>3, <1>4, ContinueKeeps
<1> QED BY <1>5 DEF IInv, TypeOK, ReadArea, Calm, lockVars, sensorVars

\* Only the pages that switch a default queue a publish.
LEMMA AfterSavePlaces ==
  ASSUME NEW t
  PROVE  /\ AfterSave(t) \subseteq {"fresh", "enqueue", "idle"}
         /\ "enqueue" \in AfterSave(t) => t.kind \in {"area_page", "toggle"}
<1>1. CASE t.kind \in Silent
  BY <1>1 DEF AfterSave
<1>2. CASE t.kind \notin Silent /\ t.kind \in {"area_page", "toggle"}
  BY <1>2 DEF AfterSave
<1>3. CASE t.kind \notin Silent /\ t.kind \notin {"area_page", "toggle"}
  BY <1>3 DEF AfterSave
<1> QED BY <1>1, <1>2, <1>3

LEMMA SaveKeeps ==
  ASSUME IInv, NEW p \in Process, Save(p), UNCHANGED sensorVars
  PROVE  IInv'
<1>1. PICK next \in AfterSave(task[p]) : Continue(p, next, NoRows)
  BY DEF Save
<1>2. /\ pc[p] = "save" /\ KnownOf(p) /\ task[p] \in LockTask
      /\ next \in {"fresh", "enqueue", "idle"} /\ next \in Place
  BY AfterSavePlaces DEF IInv, Known, KnownOf, Save, Place, Window
<1>3. /\ pc'[p] = next
      /\ next # "idle" => task'[p] = task[p] /\ mem'[p] = NoRows
  BY <1>1, ContinueValues
<1>4. p \in Worker => next # "enqueue"
  <2>1. p \in Worker => task[p].kind \in {"state", "publish"}
    BY <1>2, TaskKinds DEF KnownOf
  <2> QED BY <2>1, AfterSavePlaces
<1>5. ASSUME next # "idle" PROVE KnownOf(p)'
  BY <1>2, <1>3, <1>4, <1>5, TaskKinds DEF KnownOf, Window
<1>6. /\ pc' \in [Process -> Place] /\ task' \in [Process -> Task]
      /\ mem' \in [Process -> Memory] /\ Known'
  BY <1>1, <1>2, <1>5, RowsRead, ContinueKeeps
<1>7. area' \in Setting /\ lock' \in LockRow
  <2>1. CASE task[p].kind \in OfLock
    <3>1. LockSaved(p) \subseteq LockRow
      BY <1>2, <2>1, LockSavedType DEF IInv
    <3> QED BY <2>1, <3>1 DEF IInv, TypeOK, Save
  <2>2. CASE task[p].kind \notin OfLock
    <3>1. DefaultAsked(task[p], mem[p].area) \in Setting
      BY <1>2, <2>2, DefaultAskedType DEF IInv
    <3> QED BY <2>2, <3>1 DEF IInv, TypeOK, Save
  <2> QED BY <2>1, <2>2
<1>8. lone' \in [Device -> Process \cup {Nobody}] /\ disturbed' \in [Device -> BOOLEAN]
  BY DEF IInv, TypeOK, Save, Disturb, Calm
<1> QED BY <1>6, <1>7, <1>8 DEF IInv, TypeOK, Save, sensorVars

LEMMA EnqueueKeeps ==
  ASSUME IInv, NEW p \in Process, Enqueue(p), UNCHANGED sensorVars
  PROVE  IInv'
<1>1. Continue(p, "idle", mem[p]) /\ "idle" \in Place /\ mem[p] \in Memory
  BY RowsRead DEF Enqueue, Step, Place
<1>2. /\ pc' \in [Process -> Place] /\ task' \in [Process -> Task]
      /\ mem' \in [Process -> Memory] /\ Known'
  BY <1>1, ContinueKeeps
<1>3. jobs' \in [Job -> Nat]
  <2>1. PICK n \in 1..Readers : jobs' = [jobs EXCEPT ![PublishLocksForReader] = @ + n]
    BY DEF Enqueue
  <2>2. n \in Nat
    BY ReadersAreCounted
  <2> QED BY <2>1, <2>2 DEF IInv, TypeOK, Job
<1> QED BY <1>2, <1>3 DEF IInv, TypeOK, Enqueue, Calm, sensorVars

LEMMA ReadFreshKeeps ==
  ASSUME IInv, NEW p \in Process, ReadFresh(p), UNCHANGED sensorVars
  PROVE  IInv'
<1> DEFINE rows == [mem[p] EXCEPT !.lock = lock]
<1>1. /\ Continue(p, "freshArea", rows) /\ pc[p] = "fresh" /\ "freshArea" \in Place
      /\ "lock" \in Device /\ Open(p, "lock")
  BY DEF ReadFresh, Place, Window, Device
<1>2. pc'[p] = "freshArea" /\ task'[p] = task[p] /\ mem'[p] = rows
  BY <1>1, ContinueValues
<1>3. KnownOf(p) /\ lock \in LockRow /\ rows \in Memory /\ rows.lock = lock
  BY RowsRead DEF IInv, TypeOK, Known
<1>4. KnownOf(p)'
  BY <1>1, <1>2, <1>3 DEF KnownOf, Window
<1>5. /\ pc' \in [Process -> Place] /\ task' \in [Process -> Task]
      /\ mem' \in [Process -> Memory] /\ Known'
  BY <1>1, <1>3, <1>4, ContinueKeeps
<1>6. lone' \in [Device -> Process \cup {Nobody}] /\ disturbed' \in [Device -> BOOLEAN]
  BY <1>1, OpenType
<1> QED BY <1>5, <1>6 DEF IInv, TypeOK, ReadFresh, lockVars, sensorVars

LEMMA ReadFreshAreaKeeps ==
  ASSUME IInv, NEW p \in Process, ReadFreshArea(p), UNCHANGED sensorVars
  PROVE  IInv'
<1> DEFINE rows == [mem[p] EXCEPT !.area = area]
<1>1. Continue(p, "lockSend", rows) /\ pc[p] = "freshArea" /\ "lockSend" \in Place
  BY DEF ReadFreshArea, Place, Window
<1>2. pc'[p] = "lockSend" /\ task'[p] = task[p] /\ mem'[p] = rows
  BY <1>1, ContinueValues
<1>3. /\ KnownOf(p) /\ area \in Setting /\ rows \in Memory
      /\ rows.area = area /\ rows.lock = mem[p].lock
  BY RowsRead DEF IInv, TypeOK, Known
<1>4. KnownOf(p)'
  BY <1>1, <1>2, <1>3 DEF KnownOf, Window
<1>5. /\ pc' \in [Process -> Place] /\ task' \in [Process -> Task]
      /\ mem' \in [Process -> Memory] /\ Known'
  BY <1>1, <1>3, <1>4, ContinueKeeps
<1> QED BY <1>5 DEF IInv, TypeOK, ReadFreshArea, Calm, lockVars, sensorVars

LEMMA SendLockKeeps ==
  ASSUME IInv, NEW p \in Process, NEW arrives \in BOOLEAN, SendLock(p, arrives),
         UNCHANGED sensorVars
  PROVE  IInv'
<1> DEFINE next == IF task[p].kind = "publish_all" THEN "readSensor" ELSE "idle"
           payload == buildLockStatePayload(mem[p].area, mem[p].lock)
<1>1. Continue(p, next, NoRows) /\ pc[p] = "lockSend" /\ next \in Place
  BY DEF SendLock, Place
<1>2. /\ pc'[p] = next
      /\ next # "idle" => task'[p] = task[p] /\ mem'[p] = NoRows
  BY <1>1, ContinueValues
<1>3. KnownOf(p) /\ mem[p].lock \in LockRow /\ mem[p].area \in Setting /\ NoRows \in Memory
  BY <1>1, RowsRead DEF IInv, Known, KnownOf, Window
<1>4. ASSUME next # "idle" PROVE KnownOf(p)'
  <2>1. next = "readSensor" /\ task[p].kind = "publish_all" /\ pc[p] = "lockSend"
    BY <1>1, <1>4
  <2>2. task[p] = PublishAll
    BY <1>3, <2>1, TaskKinds DEF KnownOf, Window
  <2> QED BY <1>2, <1>3, <1>4, <2>1, <2>2, TaskKinds DEF KnownOf, Window
<1>5. /\ pc' \in [Process -> Place] /\ task' \in [Process -> Task]
      /\ mem' \in [Process -> Memory] /\ Known'
  BY <1>1, <1>3, <1>4, ContinueKeeps
<1>6. payload \in LockMessage
  BY <1>3, PayloadType
<1>7. /\ retained' = [e \in Device |-> retained'[e]]
      /\ retained'["lock"] \in LockMessage /\ retained'["sensor"] \in BOOLEAN
      /\ faults' \in 0..MaxFaults
  BY <1>6, TransmitType DEF SendLock, Device
<1>8. disturbed' \in [Device -> BOOLEAN]
  BY DEF IInv, TypeOK, SendLock
<1> QED BY <1>5, <1>7, <1>8 DEF IInv, TypeOK, SendLock, lockVars, sensorVars

LEMMA ReadSensorKeeps ==
  ASSUME IInv, NEW p \in Process, ReadSensor(p), UNCHANGED lockVars
  PROVE  IInv'
<1> DEFINE next == IF task[p].kind \in {"sensor_form", "sensor_report"} THEN "sensorSave"
                   ELSE "sensorSend"
           rows == [mem[p] EXCEPT !.sensor = sensor]
<1>1. /\ Continue(p, next, rows) /\ pc[p] = "readSensor" /\ next \in Place
      /\ "sensor" \in Device /\ Open(p, "sensor")
  BY DEF ReadSensor, Place, Window, Device
<1>2. pc'[p] = next /\ task'[p] = task[p] /\ mem'[p] = rows
  BY <1>1, ContinueValues
<1>3. KnownOf(p) /\ sensor \in BOOLEAN /\ rows \in Memory /\ rows.sensor = sensor
  BY RowsRead DEF IInv, TypeOK, Known
<1>4. next = "sensorSave" => task[p] \in SensorForm \cup Report
  BY <1>1, <1>3, TaskKinds DEF KnownOf
<1>5. KnownOf(p)'
  BY <1>1, <1>2, <1>3, <1>4 DEF KnownOf, Window
<1>6. /\ pc' \in [Process -> Place] /\ task' \in [Process -> Task]
      /\ mem' \in [Process -> Memory] /\ Known'
  BY <1>1, <1>3, <1>5, ContinueKeeps
<1>7. lone' \in [Device -> Process \cup {Nobody}] /\ disturbed' \in [Device -> BOOLEAN]
  BY <1>1, OpenType
<1>8. tangled' \in BOOLEAN
  BY DEF ReadSensor
<1> QED BY <1>6, <1>7, <1>8 DEF IInv, TypeOK, ReadSensor, lockVars

LEMMA SaveSensorKeeps ==
  ASSUME IInv, NEW p \in Process, SaveSensor(p), UNCHANGED lockVars
  PROVE  IInv'
<1> DEFINE next == IF task[p].kind = "sensor_report" THEN "sensorCheck" ELSE "sensorSend"
           rows == [mem[p] EXCEPT !.sensor = task[p].state]
<1>1. Continue(p, next, rows) /\ pc[p] = "sensorSave" /\ next \in Place
  BY DEF SaveSensor, Place, Window
<1>2. pc'[p] = next /\ task'[p] = task[p] /\ mem'[p] = rows
  BY <1>1, ContinueValues
<1>3. KnownOf(p) /\ task[p].state \in BOOLEAN
  BY <1>1, TaskKinds DEF IInv, Known, KnownOf
<1>4. rows \in Memory /\ rows.sensor = task[p].state
  BY <1>3, RowsRead
<1>5. KnownOf(p)'
  BY <1>1, <1>2, <1>3, <1>4 DEF KnownOf, Window
<1>6. /\ pc' \in [Process -> Place] /\ task' \in [Process -> Task]
      /\ mem' \in [Process -> Memory] /\ Known'
  BY <1>1, <1>4, <1>5, ContinueKeeps
<1>7. sensor' \in BOOLEAN
  BY <1>3 DEF IInv, TypeOK, SaveSensor
<1> QED BY <1>6, <1>7 DEF IInv, TypeOK, SaveSensor, lockVars

LEMMA CheckCacheKeeps ==
  ASSUME IInv, NEW p \in Process, CheckCache(p), UNCHANGED lockVars
  PROVE  IInv'
<1> DEFINE next == IF ShouldPublish(p) THEN "sensorSend" ELSE "idle"
<1>1. Continue(p, next, mem[p]) /\ pc[p] = "sensorCheck" /\ next \in Place
  BY DEF CheckCache, Step, Place, Window
<1>2. next # "idle" => pc'[p] = next /\ task'[p] = task[p] /\ mem'[p] = mem[p]
  BY <1>1, ContinueValues
<1>3. KnownOf(p) /\ mem[p] \in Memory
  BY RowsRead DEF IInv, Known
<1>4. next # "idle" => KnownOf(p)'
  BY <1>1, <1>2, <1>3 DEF KnownOf, Window
<1>5. /\ pc' \in [Process -> Place] /\ task' \in [Process -> Task]
      /\ mem' \in [Process -> Memory] /\ Known'
  BY <1>1, <1>3, <1>4, ContinueKeeps
<1>6. disturbed' \in [Device -> BOOLEAN]
  BY DEF IInv, TypeOK, CheckCache
<1> QED BY <1>5, <1>6 DEF IInv, TypeOK, CheckCache, lockVars, sensorVars

LEMMA SendSensorKeeps ==
  ASSUME IInv, NEW p \in Process, NEW arrives \in BOOLEAN, SendSensor(p, arrives),
         UNCHANGED lockVars
  PROVE  IInv'
<1> DEFINE next == IF arrives THEN "sensorCache" ELSE "idle"
<1>1. Continue(p, next, mem[p]) /\ pc[p] = "sensorSend" /\ next \in Place
  BY DEF SendSensor, Step, Place, Window
<1>2. next # "idle" => pc'[p] = next /\ task'[p] = task[p] /\ mem'[p] = mem[p]
  BY <1>1, ContinueValues
<1>3. KnownOf(p) /\ mem[p] \in Memory /\ mem[p].sensor \in BOOLEAN
  BY <1>1, RowsRead DEF IInv, Known, KnownOf, Window
<1>4. next # "idle" => KnownOf(p)'
  BY <1>1, <1>2, <1>3 DEF KnownOf, Window
<1>5. /\ pc' \in [Process -> Place] /\ task' \in [Process -> Task]
      /\ mem' \in [Process -> Memory] /\ Known'
  BY <1>1, <1>3, <1>4, ContinueKeeps
<1>6. /\ retained' = [e \in Device |-> retained'[e]]
      /\ retained'["lock"] \in LockMessage /\ retained'["sensor"] \in BOOLEAN
      /\ faults' \in 0..MaxFaults
  BY <1>3, TransmitType DEF SendSensor, Device
<1>7. disturbed' \in [Device -> BOOLEAN]
  BY DEF IInv, TypeOK, SendSensor
<1> QED BY <1>5, <1>6, <1>7 DEF IInv, TypeOK, SendSensor, lockVars, sensorVars

LEMMA PutCacheKeeps ==
  ASSUME IInv, NEW p \in Process, PutCache(p), UNCHANGED lockVars
  PROVE  IInv'
<1>1. Continue(p, "idle", mem[p]) /\ "idle" \in Place /\ mem[p] \in Memory
  BY RowsRead DEF PutCache, Step, Place
<1>2. /\ pc' \in [Process -> Place] /\ task' \in [Process -> Task]
      /\ mem' \in [Process -> Memory] /\ Known'
  BY <1>1, ContinueKeeps
<1>3. cache' \in BOOLEAN /\ tangled' \in BOOLEAN /\ disturbed' \in [Device -> BOOLEAN]
  BY DEF IInv, TypeOK, Known, KnownOf, PutCache, Window
<1> QED BY <1>2, <1>3 DEF IInv, TypeOK, PutCache, lockVars

LEMMA CutOffKeeps ==
  ASSUME IInv, NEW p \in Process, CutOff(p)
  PROVE  IInv'
<1>1. p \in Worker => p # Monitor /\ pc[p] # "idle" /\ task[p] \in Job
  BY ProcessesDiffer DEF IInv, Known, KnownOf, CutOff
<1>2. jobs' \in [Job -> Nat]
  BY <1>1 DEF IInv, TypeOK, CutOff
<1>3. /\ pc' \in [Process -> Place] /\ task' \in [Process -> Task]
      /\ mem' \in [Process -> Memory]
  BY RowsRead DEF IInv, TypeOK, CutOff, Place, Task
<1>4. ASSUME NEW q \in Process PROVE KnownOf(q)'
  <2>1. CASE q # p
    <3>1. pc'[q] = pc[q] /\ task'[q] = task[q] /\ mem'[q] = mem[q]
      BY <2>1 DEF IInv, TypeOK, CutOff
    <3> QED BY <3>1, KnownElsewhere DEF IInv, Known
  <2>2. CASE q = p /\ pc'[p] = "idle"
    BY <2>2, KnownIdle
  <2>3. CASE q = p /\ pc'[p] # "idle"
    <3>1. p = Monitor /\ pc'[p] = "down" /\ p \notin Worker
      BY <2>3, ProcessesDiffer DEF IInv, TypeOK, CutOff
    <3> QED BY <2>3, <3>1 DEF KnownOf, Window
  <2> QED BY <2>1, <2>2, <2>3
<1>5. Known'
  BY <1>4 DEF Known
<1>6. /\ lone' \in [Device -> Process \cup {Nobody}] /\ disturbed' \in [Device -> BOOLEAN]
      /\ tangled' \in BOOLEAN
  BY DEF IInv, TypeOK, CutOff
<1>7. faults' \in 0..MaxFaults
  BY RequestBounds DEF IInv, TypeOK, CutOff
<1> QED BY <1>2, <1>3, <1>5, <1>6, <1>7 DEF IInv, TypeOK, CutOff

LEMMA ForgetCacheKeeps ==
  ASSUME IInv, ForgetCache, UNCHANGED lockVars
  PROVE  IInv'
<1>1. Known'
  BY KnownElsewhere DEF IInv, Known, ForgetCache, publisherVars
<1> QED BY <1>1 DEF IInv, TypeOK, ForgetCache, publisherVars, lockVars

-----------------------------------------------------------------------------
\* Types and knowledge are inductive.
THEOREM Inductive == Spec => []IInv
<1>1. Init => IInv
  <2> SUFFICES ASSUME Init PROVE IInv
    OBVIOUS
  <2>1. area \in Setting /\ lock \in LockRow
    BY DEF Init, Setting, LockRow, Override, Seconds
  <2>2. buildLockStatePayload(area, lock) \in LockMessage
    BY <2>1, PayloadType
  <2>3. /\ retained = [d \in Device |-> retained[d]]
        /\ retained["lock"] \in LockMessage /\ retained["sensor"] \in BOOLEAN
    BY <2>2 DEF Init, Device
  <2>4. /\ pc \in [Process -> Place] /\ task \in [Process -> Task] /\ mem \in [Process -> Memory]
        /\ lone \in [Device -> Process \cup {Nobody}] /\ disturbed \in [Device -> BOOLEAN]
    BY DEF Init, Place, Task, Memory, NoRows
  <2>5. Known
    BY DEF Init, Known, KnownOf, Window
  <2>6. /\ jobs \in [Job -> Nat] /\ requests \in 0..MaxRequests /\ faults \in 0..MaxFaults
        /\ sensor \in BOOLEAN /\ cache \in {Nobody} \cup BOOLEAN /\ tangled \in BOOLEAN
    <3>1. jobs \in [Job -> Nat] /\ requests \in 0..MaxRequests /\ faults \in 0..MaxFaults
      BY RequestBounds DEF Init
    <3>2. sensor \in BOOLEAN /\ cache \in {Nobody} \cup BOOLEAN /\ tangled \in BOOLEAN
      <4>1. sensor = FALSE /\ cache = sensor /\ tangled = FALSE
        BY DEF Init
      <4> QED BY <4>1
    <3> QED BY <3>1, <3>2
  <2>7. TypeOK
    BY <2>1, <2>3, <2>4, <2>6 DEF TypeOK
  <2> QED BY <2>5, <2>7 DEF IInv
<1>2. IInv /\ [Next]_vars => IInv'
  <2> SUFFICES ASSUME IInv, [Next]_vars PROVE IInv'
    OBVIOUS
  <2>1. CASE StartMonitor
    BY <2>1, StartMonitorKeeps
  <2>2. CASE Command
    <3>1. ASSUME NEW w \in Web, NEW t \in WebRequest, Receive(w, t), UNCHANGED sensorVars
          PROVE  IInv'
      BY <3>1, ReceiveKeeps, ProcessesDiffer DEF Process, LockTask
    <3>2. ASSUME NEW t \in MqttAutolock, Receive(Monitor, t), UNCHANGED sensorVars
          PROVE  IInv'
      BY <3>2, ReceiveKeeps, ProcessesDiffer DEF Process, LockTask
    <3>3. ASSUME NEW j \in Job, QueueJob(j), UNCHANGED sensorVars
          PROVE  IInv'
      BY <3>3, QueueJobKeeps
    <3>4. ASSUME NEW w \in Worker, NEW j \in Job, TakeJob(w, j), UNCHANGED sensorVars
          PROVE  IInv'
      BY <3>4, TakeJobKeeps
    <3> QED BY <2>2, <3>1, <3>2, <3>3, <3>4 DEF Command
  <2>3. CASE SensorCommand
    BY <2>3, ReceiveSensorKeeps DEF SensorCommand
  <2>4. ASSUME NEW p \in Process, LockStep(p)
        PROVE  IInv'
    BY <2>4, ReadLockKeeps, ReadAreaKeeps, SaveKeeps, EnqueueKeeps, ReadFreshKeeps,
       ReadFreshAreaKeeps, SendLockKeeps DEF LockStep
  <2>5. ASSUME NEW p \in Process, SensorStep(p)
        PROVE  IInv'
    BY <2>5, ReadSensorKeeps, SaveSensorKeeps, CheckCacheKeeps, SendSensorKeeps,
       PutCacheKeeps DEF SensorStep
  <2>6. ASSUME NEW p \in Process, CutOff(p)
        PROVE  IInv'
    BY <2>6, CutOffKeeps
  <2>7. CASE ForgetCache /\ UNCHANGED lockVars
    BY <2>7, ForgetCacheKeeps
  <2>8. CASE UNCHANGED vars
    <3>1. Known'
      BY <2>8, KnownElsewhere DEF IInv, Known, vars, publisherVars
    <3> QED BY <2>8, <3>1 DEF IInv, TypeOK, vars, publisherVars, lockVars, sensorVars
  <2> QED BY <2>1, <2>2, <2>3, <2>4, <2>5, <2>6, <2>7, <2>8 DEF Next, Run
<1> QED BY <1>1, <1>2, PTL DEF Spec

\* Types of the publishing processes, their rows, jobs and messages; that the
\* messages tell no duration beyond the limit is part of it.
THEOREM TypeCorrect == Spec => []TypeOK
<1>1. IInv => TypeOK
  BY DEF IInv
<1> QED BY <1>1, Inductive, PTL

-----------------------------------------------------------------------------
(***************************************************************************)
(* The sensor.  A process that builds the message alone has the state of   *)
(* the row in memory; while nothing overlapped, the cache claims what is   *)
(* retained until somebody is about to note otherwise; and without a       *)
(* disturbance the message lags only behind a process that is going to     *)
(* publish.                                                                *)
(***************************************************************************)
InSensor(p) == pc[p] \in Window["sensor"]

SensorAlone ==
  \A p \in Process : InSensor(p) /\ lone["sensor"] = p =>
    /\ \A q \in Process : InSensor(q) => q = p
    /\ mem[p].sensor = sensor
    /\ pc[p] = "sensorCache" => retained["sensor"] = mem[p].sensor

SensorUntangled ==
  ~tangled => /\ \A p \in Process : InSensor(p) => lone["sensor"] = p
              /\ \/ cache \in {Nobody, retained["sensor"]}
                 \/ \E p \in Process : pc[p] = "sensorCache"

SensorUndisturbed ==
  ~disturbed["sensor"] =>
    /\ \A p \in Process : InSensor(p) =>
         lone["sensor"] = p /\ (pc[p] = "sensorSave" => retained["sensor"] = sensor)
    /\ (\A p \in Process : ~InSensor(p)) => retained["sensor"] = sensor

SensorInv == SensorAlone /\ SensorUntangled /\ SensorUndisturbed

(***************************************************************************)
(* The lock.  A change of its settings or state is owed to the broker      *)
(* from the save on: by the process that saved it, by a queued job, or by  *)
(* the worker that took the job.  publishAllDeviceStates owes nothing.     *)
(***************************************************************************)
InLock(p) == pc[p] \in Window["lock"]

Owes(q) == \/ pc[q] \in {"enqueue", "fresh"} /\ task[q] # PublishAll
           \/ q \in Worker /\ pc[q] \in {"readLock", "save"}

Pending == (\E q \in Process : Owes(q)) \/ (\E j \in Job : jobs[j] > 0)

\* What p has read is what the rows say.
Current(p) == mem[p].lock = lock /\ (pc[p] = "lockSend" => mem[p].area = area)

LockAlone ==
  \A p \in Process : InLock(p) /\ lone["lock"] = p =>
    /\ \A q \in Process : InLock(q) => q = p
    /\ Pending \/ Current(p)

LockUndisturbed ==
  ~disturbed["lock"] =>
    /\ \A p \in Process : InLock(p) => lone["lock"] = p
    /\ \/ Pending
       \/ retained["lock"] = buildLockStatePayload(area, lock)
       \/ \E p \in Process : InLock(p) /\ task[p] # PublishAll /\ Current(p)

LockInv == LockAlone /\ LockUndisturbed

\* A process that goes on moves nobody else.
LEMMA OthersStay ==
  ASSUME IInv, NEW p \in Process, NEW next, NEW rows, Continue(p, next, rows)
  PROVE  \A q \in Process : q # p => pc'[q] = pc[q] /\ task'[q] = task[q] /\ mem'[q] = mem[q]
  BY DEF IInv, TypeOK, Continue

-----------------------------------------------------------------------------
(***************************************************************************)
(* The steps and the sensor.                                               *)
(***************************************************************************)

\* A step that has nothing to do with the sensor.
LEMMA SensorAside ==
  ASSUME SensorInv,
         \A q \in Process : \/ pc'[q] = pc[q] /\ mem'[q] = mem[q]
                            \/ pc[q] \notin Window["sensor"] /\ pc'[q] \notin Window["sensor"],
         lone'["sensor"] = lone["sensor"], disturbed'["sensor"] = disturbed["sensor"],
         retained'["sensor"] = retained["sensor"], sensor' = sensor, cache' = cache,
         tangled' = tangled
  PROVE  SensorInv'
<1>1. \A q \in Process : /\ InSensor(q)' <=> InSensor(q)
                         /\ InSensor(q) => pc'[q] = pc[q] /\ mem'[q] = mem[q]
                         /\ pc'[q] = "sensorCache" <=> pc[q] = "sensorCache"
  BY DEF InSensor, Window
<1>2. SensorAlone'
  BY <1>1 DEF SensorInv, SensorAlone
<1>3. SensorUntangled'
  BY <1>1 DEF SensorInv, SensorUntangled
<1>4. SensorUndisturbed'
  BY <1>1 DEF SensorInv, SensorUndisturbed, InSensor, Window
<1> QED BY <1>2, <1>3, <1>4 DEF SensorInv

LEMMA ReadSensorSettles ==
  ASSUME IInv, SensorInv, NEW p \in Process, ReadSensor(p)
  PROVE  SensorInv'
<1>1. /\ pc[p] = "readSensor" /\ pc'[p] \in {"sensorSave", "sensorSend"}
      /\ mem'[p].sensor = sensor
      /\ \A q \in Process : q # p => pc'[q] = pc[q] /\ mem'[q] = mem[q]
  <2> DEFINE next == IF task[p].kind \in {"sensor_form", "sensor_report"} THEN "sensorSave"
                     ELSE "sensorSend"
             rows == [mem[p] EXCEPT !.sensor = sensor]
  <2>1. Continue(p, next, rows) /\ next # "idle"
    BY DEF ReadSensor
  <2>2. pc'[p] = next /\ mem'[p] = rows
    BY <2>1, ContinueValues
  <2>3. rows.sensor = sensor
    BY RowsRead DEF IInv, TypeOK
  <2>4. \A q \in Process : q # p => pc'[q] = pc[q] /\ mem'[q] = mem[q]
    BY <2>1, OthersStay
  <2> QED BY <2>2, <2>3, <2>4 DEF ReadSensor
<1>2. UNCHANGED <<retained, sensor, cache>>
  BY DEF ReadSensor
<1>3. ~InSensor(p) /\ InSensor(p)' /\ \A q \in Process : q # p => (InSensor(q)' <=> InSensor(q))
  BY <1>1 DEF InSensor, Window
<1>4. CASE \A q \in Process : ~InSensor(q)
  <2>1. Building("sensor") \ {p} = {}
    BY <1>4 DEF Building, InSensor
  <2>2. /\ lone'["sensor"] = p /\ disturbed'["sensor"] = disturbed["sensor"]
        /\ tangled' = tangled
    BY <2>1 DEF ReadSensor, Open, Device, IInv, TypeOK
  <2>3. SensorAlone'
    BY <1>1, <1>3, <1>4, <1>2 DEF SensorAlone
  <2>4. \A q \in Process : pc[q] # "sensorCache"
    BY <1>4 DEF InSensor, Window
  <2>5. SensorUntangled'
    BY <1>2, <1>3, <1>4, <2>2, <2>4 DEF SensorInv, SensorUntangled
  <2>6. SensorUndisturbed'
    BY <1>2, <1>3, <1>4, <2>2 DEF SensorInv, SensorUndisturbed
  <2> QED BY <2>3, <2>5, <2>6 DEF SensorInv
<1>5. CASE \E q \in Process : InSensor(q)
  <2>1. Building("sensor") \ {p} # {}
    BY <1>3, <1>5 DEF Building, InSensor
  <2>2. lone'["sensor"] = Nobody /\ disturbed'["sensor"] /\ tangled'
    BY <2>1 DEF ReadSensor, Open, Device, IInv, TypeOK
  <2> QED BY <2>2, ProcessesDiffer DEF SensorInv, SensorAlone, SensorUntangled, SensorUndisturbed
<1> QED BY <1>4, <1>5

LEMMA SaveSensorSettles ==
  ASSUME IInv, SensorInv, NEW p \in Process, SaveSensor(p)
  PROVE  SensorInv'
<1>1. /\ pc[p] = "sensorSave" /\ pc'[p] \in {"sensorCheck", "sensorSend"}
      /\ mem'[p].sensor = task[p].state
      /\ \A q \in Process : q # p => pc'[q] = pc[q] /\ mem'[q] = mem[q]
  <2>1. task[p].state \in BOOLEAN
    BY TaskKinds DEF SaveSensor, IInv, Known, KnownOf
  <2> DEFINE next == IF task[p].kind = "sensor_report" THEN "sensorCheck" ELSE "sensorSend"
             rows == [mem[p] EXCEPT !.sensor = task[p].state]
  <2>2. Continue(p, next, rows) /\ next # "idle"
    BY DEF SaveSensor
  <2>3. pc'[p] = next /\ mem'[p] = rows
    BY <2>2, ContinueValues
  <2>4. rows.sensor = task[p].state
    BY <2>1, RowsRead
  <2>5. \A q \in Process : q # p => pc'[q] = pc[q] /\ mem'[q] = mem[q]
    BY <2>2, OthersStay
  <2> QED BY <2>3, <2>4, <2>5 DEF SaveSensor
<1>2. /\ UNCHANGED <<retained, lone, disturbed, cache, tangled>>
      /\ mem[p].sensor = sensor => sensor' = task[p].state
  BY DEF SaveSensor
<1>3. InSensor(p) /\ InSensor(p)' /\ \A q \in Process : InSensor(q)' <=> InSensor(q)
  BY <1>1 DEF InSensor, Window
<1>4. \A q \in Process : pc'[q] = "sensorCache" <=> pc[q] = "sensorCache"
  BY <1>1
<1>5. SensorAlone'
  BY <1>1, <1>2, <1>3, <1>4 DEF SensorInv, SensorAlone
<1>6. SensorUntangled'
  BY <1>2, <1>3, <1>4 DEF SensorInv, SensorUntangled
<1>7. SensorUndisturbed'
  BY <1>1, <1>2, <1>3 DEF SensorInv, SensorAlone, SensorUndisturbed
<1> QED BY <1>5, <1>6, <1>7 DEF SensorInv

\* The last steps of a report: the process leaves or stays the only one.
LEMMA CheckCacheSettles ==
  ASSUME IInv, SensorInv, NEW p \in Process, CheckCache(p)
  PROVE  SensorInv'
<1>1. /\ pc[p] = "sensorCheck" /\ InSensor(p) /\ p \in Process /\ mem[p].sensor \in BOOLEAN
      /\ UNCHANGED <<retained, lone, sensor, cache, tangled>>
      /\ \A q \in Process : q # p => pc'[q] = pc[q] /\ mem'[q] = mem[q]
      /\ \A q \in Process : q # p => (InSensor(q)' <=> InSensor(q))
  BY OthersStay DEF CheckCache, Step, sensorVars, InSensor, Window, IInv, Known, KnownOf
<1>2. CASE ShouldPublish(p)
  <2>1. pc'[p] = "sensorSend" /\ mem'[p] = mem[p] /\ InSensor(p)'
    BY <1>2, ContinueValues DEF CheckCache, Step, InSensor, Window
  <2>2. disturbed'["sensor"] = disturbed["sensor"]
    BY <1>2 DEF CheckCache, IInv, TypeOK, Device
  <2>3. SensorAlone'
    BY <1>1, <2>1 DEF SensorInv, SensorAlone
  <2>4. SensorUntangled'
    BY <1>1, <2>1 DEF SensorInv, SensorUntangled
  <2>5. SensorUndisturbed'
    BY <1>1, <2>1, <2>2 DEF SensorInv, SensorUndisturbed
  <2> QED BY <2>3, <2>4, <2>5 DEF SensorInv
<1>3. CASE ~ShouldPublish(p)
  <2>1. pc'[p] = "idle" /\ ~InSensor(p)'
    BY <1>3, ContinueValues DEF CheckCache, Step, InSensor, Window
  <2>2. SensorAlone'
    BY <1>1, <2>1 DEF SensorInv, SensorAlone
  <2>3. SensorUntangled'
    BY <1>1, <2>1 DEF SensorInv, SensorUntangled
  <2>4. SensorUndisturbed'
    <3>1. CASE lone["sensor"] # p
      <4>1. disturbed'["sensor"] = disturbed["sensor"]
        BY <1>3, <3>1 DEF CheckCache, IInv, TypeOK, Device
      <4>2. disturbed["sensor"]
        BY <1>1, <3>1 DEF SensorInv, SensorUndisturbed
      <4> QED BY <4>1, <4>2 DEF SensorUndisturbed
    <3>2. CASE lone["sensor"] = p
      <4>1. disturbed'["sensor"] = tangled
        BY <1>3, <3>2 DEF CheckCache, IInv, TypeOK, Device
      <4>2. /\ \A q \in Process : InSensor(q) => q = p
            /\ mem[p].sensor = sensor
        BY <1>1, <3>2 DEF SensorInv, SensorAlone
      <4>3. \A q \in Process : pc[q] # "sensorCache"
        BY <1>1, <4>2 DEF InSensor, Window
      <4>4. cache = sensor /\ cache # Nobody
        BY <1>1, <1>3, <4>2, ProcessesDiffer DEF ShouldPublish
      <4>5. ~tangled => retained["sensor"] = sensor
        BY <4>3, <4>4 DEF SensorInv, SensorUntangled
      <4>6. \A q \in Process : ~InSensor(q)'
        BY <1>1, <2>1, <4>2
      <4> QED BY <1>1, <4>1, <4>5, <4>6 DEF SensorUndisturbed
    <3> QED BY <3>1, <3>2
  <2> QED BY <2>2, <2>3, <2>4 DEF SensorInv
<1> QED BY <1>2, <1>3

LEMMA SendSensorSettles ==
  ASSUME IInv, SensorInv, NEW p \in Process, NEW arrives \in BOOLEAN, SendSensor(p, arrives)
  PROVE  SensorInv'
<1>1. /\ pc[p] = "sensorSend" /\ InSensor(p)
      /\ UNCHANGED <<lone, sensor, cache, tangled>>
      /\ \A q \in Process : q # p => pc'[q] = pc[q] /\ mem'[q] = mem[q]
      /\ \A q \in Process : q # p => (InSensor(q)' <=> InSensor(q))
  BY OthersStay DEF SendSensor, Step, sensorVars, InSensor, Window
<1>2. CASE arrives
  <2>1. pc'[p] = "sensorCache" /\ mem'[p] = mem[p] /\ InSensor(p)'
    BY <1>2, ContinueValues DEF SendSensor, Step, InSensor, Window
  <2>2. disturbed'["sensor"] = disturbed["sensor"] /\ retained'["sensor"] = mem[p].sensor
    BY <1>2 DEF SendSensor, Transmit, IInv, TypeOK, Device
  <2>3. SensorAlone'
    BY <1>1, <2>1, <2>2 DEF SensorInv, SensorAlone
  <2>4. SensorUntangled'
    BY <1>1, <2>1 DEF SensorInv, SensorUntangled
  <2>5. SensorUndisturbed'
    <3>1. ~disturbed["sensor"] => \A q \in Process : InSensor(q) => q = p
      BY <1>1 DEF SensorInv, SensorAlone, SensorUndisturbed
    <3> QED BY <1>1, <2>1, <2>2, <3>1 DEF SensorInv, SensorUndisturbed
  <2> QED BY <2>3, <2>4, <2>5 DEF SensorInv
<1>3. CASE ~arrives
  <2>1. pc'[p] = "idle" /\ ~InSensor(p)'
    BY <1>3, ContinueValues DEF SendSensor, Step, InSensor, Window
  <2>2. disturbed'["sensor"] /\ retained' = retained
    BY <1>3 DEF SendSensor, Transmit, IInv, TypeOK, Device
  <2>3. SensorAlone'
    BY <1>1, <2>1, <2>2 DEF SensorInv, SensorAlone
  <2>4. SensorUntangled'
    BY <1>1, <2>1, <2>2 DEF SensorInv, SensorUntangled
  <2>5. SensorUndisturbed'
    BY <2>2 DEF SensorUndisturbed
  <2> QED BY <2>3, <2>4, <2>5 DEF SensorInv
<1> QED BY <1>2, <1>3

LEMMA PutCacheSettles ==
  ASSUME IInv, SensorInv, NEW p \in Process, PutCache(p)
  PROVE  SensorInv'
<1>1. /\ pc[p] = "sensorCache" /\ InSensor(p) /\ cache' = mem[p].sensor
      /\ UNCHANGED <<lone, sensor, retained>>
      /\ pc'[p] = "idle" /\ ~InSensor(p)'
      /\ \A q \in Process : q # p => pc'[q] = pc[q] /\ mem'[q] = mem[q]
      /\ \A q \in Process : q # p => (InSensor(q)' <=> InSensor(q))
  BY OthersStay, ContinueValues DEF PutCache, Step, sensorVars, InSensor, Window
<1>2. CASE lone["sensor"] = p
  <2>1. /\ \A q \in Process : InSensor(q) => q = p
        /\ mem[p].sensor = sensor /\ retained["sensor"] = mem[p].sensor
    BY <1>1, <1>2 DEF SensorInv, SensorAlone
  <2>2. \A q \in Process : ~InSensor(q)'
    BY <1>1, <2>1
  <2> QED BY <1>1, <2>1, <2>2 DEF SensorInv, SensorAlone, SensorUntangled, SensorUndisturbed
<1>3. CASE lone["sensor"] # p
  <2>1. disturbed["sensor"] /\ tangled
    BY <1>1, <1>3 DEF SensorInv, SensorUntangled, SensorUndisturbed
  <2>2. disturbed'["sensor"] /\ tangled'
    BY <1>3, <2>1 DEF PutCache, IInv, TypeOK, Device
  <2>3. SensorAlone'
    BY <1>1 DEF SensorInv, SensorAlone
  <2> QED BY <2>2, <2>3 DEF SensorInv, SensorUntangled, SensorUndisturbed
<1> QED BY <1>2, <1>3

LEMMA CutOffSensorSettles ==
  ASSUME IInv, SensorInv, NEW p \in Process, CutOff(p)
  PROVE  SensorInv'
<1>1. /\ UNCHANGED <<retained, sensor, cache>>
      /\ pc'[p] \in {"idle", "down"} /\ ~InSensor(p)'
      /\ \A q \in Process : q # p => pc'[q] = pc[q] /\ mem'[q] = mem[q]
      /\ \A q \in Process : q # p => (InSensor(q)' <=> InSensor(q))
  BY DEF CutOff, InSensor, Window, IInv, TypeOK
<1>2. /\ lone'["sensor"] \in {Nobody, lone["sensor"]}
      /\ lone["sensor"] = p => lone'["sensor"] = Nobody
      /\ ~InSensor(p) /\ lone["sensor"] # p => lone'["sensor"] = lone["sensor"]
      /\ tangled' = (tangled \/ pc[p] = "sensorCache")
  BY DEF CutOff, Device, InSensor, Window
<1>3. /\ disturbed["sensor"] => disturbed'["sensor"]
      /\ pc[p] \in {"sensorCheck", "sensorSend", "sensorCache"} => disturbed'["sensor"]
  BY DEF CutOff, Device, IInv, TypeOK
<1>4. SensorAlone'
  BY <1>1, <1>2, ProcessesDiffer DEF SensorInv, SensorAlone
<1>5. SensorUntangled'
  <2> SUFFICES ASSUME ~tangled, pc[p] # "sensorCache" PROVE SensorUntangled'
    BY <1>2 DEF SensorUntangled
  <2>1. CASE InSensor(p)
    <3>1. lone["sensor"] = p
      BY <2>1 DEF SensorInv, SensorUntangled
    <3>2. \A q \in Process : InSensor(q) => q = p
      BY <2>1, <3>1 DEF SensorInv, SensorAlone
    <3>3. \A q \in Process : pc[q] # "sensorCache"
      BY <3>2 DEF InSensor, Window
    <3> QED BY <1>1, <3>2, <3>3 DEF SensorInv, SensorUntangled
  <2>2. CASE ~InSensor(p)
    <3>1. \A q \in Process : InSensor(q)' => InSensor(q) /\ lone'["sensor"] = q
      BY <1>1, <1>2, <2>2 DEF SensorInv, SensorUntangled
    <3> QED BY <1>1, <3>1 DEF SensorInv, SensorUntangled
  <2> QED BY <2>1, <2>2
<1>6. SensorUndisturbed'
  <2> SUFFICES ASSUME ~disturbed["sensor"],
                      pc[p] \notin {"sensorCheck", "sensorSend", "sensorCache"}
               PROVE  SensorUndisturbed'
    BY <1>3 DEF SensorUndisturbed
  <2>1. CASE InSensor(p)
    <3>1. lone["sensor"] = p /\ pc[p] = "sensorSave" /\ retained["sensor"] = sensor
      BY <2>1 DEF SensorInv, SensorUndisturbed, InSensor, Window
    <3>2. \A q \in Process : InSensor(q) => q = p
      BY <2>1, <3>1 DEF SensorInv, SensorAlone
    <3> QED BY <1>1, <3>1, <3>2 DEF SensorUndisturbed
  <2>2. CASE ~InSensor(p)
    <3>1. \A q \in Process : InSensor(q)' => InSensor(q) /\ lone'["sensor"] = q
      BY <1>1, <1>2, <2>2 DEF SensorInv, SensorUndisturbed
    <3> QED BY <1>1, <2>2, <3>1 DEF SensorInv, SensorUndisturbed
  <2> QED BY <2>1, <2>2
<1> QED BY <1>4, <1>5, <1>6 DEF SensorInv

\* Neither the steps about the lock nor new requests and jobs are about the
\* sensor.
LEMMA LockStepSensor ==
  ASSUME IInv, SensorInv, NEW p \in Process, LockStep(p)
  PROVE  SensorInv'
<1>1. ASSUME NEW next, NEW rows, Continue(p, next, rows),
             pc[p] \notin Window["sensor"], next \notin Window["sensor"]
      PROVE  \A q \in Process : \/ pc'[q] = pc[q] /\ mem'[q] = mem[q]
                                \/ pc[q] \notin Window["sensor"] /\ pc'[q] \notin Window["sensor"]
  BY <1>1, OthersStay, ContinueValues
<1>2. CASE ReadLock(p)
  BY <1>1, <1>2, SensorAside DEF LockStep, ReadLock, Calm, sensorVars, Window
<1>3. CASE ReadArea(p)
  BY <1>1, <1>3, SensorAside DEF LockStep, ReadArea, Calm, sensorVars, Window
<1>4. CASE Save(p)
  <2>1. lone'["sensor"] = lone["sensor"] /\ disturbed'["sensor"] = disturbed["sensor"]
    BY <1>4 DEF Save, Disturb, Calm, IInv, TypeOK, Device
  <2>2. PICK next \in AfterSave(task[p]) : Continue(p, next, NoRows)
    BY <1>4 DEF Save
  <2>3. next \notin Window["sensor"] /\ pc[p] \notin Window["sensor"]
    BY <1>4, AfterSavePlaces DEF Save, Window
  <2> QED BY <1>1, <1>4, <2>1, <2>2, <2>3, SensorAside DEF LockStep, Save, sensorVars
<1>5. CASE Enqueue(p)
  BY <1>1, <1>5, SensorAside DEF LockStep, Enqueue, Step, Calm, sensorVars, Window
<1>6. CASE ReadFresh(p)
  <2>1. lone'["sensor"] = lone["sensor"] /\ disturbed'["sensor"] = disturbed["sensor"]
    BY <1>6 DEF ReadFresh, Open, IInv, TypeOK, Device
  <2> QED BY <1>1, <1>6, <2>1, SensorAside DEF LockStep, ReadFresh, sensorVars, Window
<1>7. CASE ReadFreshArea(p)
  BY <1>1, <1>7, SensorAside DEF LockStep, ReadFreshArea, Calm, sensorVars, Window
<1>8. ASSUME NEW arrives \in BOOLEAN, SendLock(p, arrives)
      PROVE  SensorInv'
  <2>1. /\ lone'["sensor"] = lone["sensor"] /\ disturbed'["sensor"] = disturbed["sensor"]
        /\ retained'["sensor"] = retained["sensor"]
    BY <1>8 DEF SendLock, Transmit, IInv, TypeOK, Device
  <2> QED BY <1>1, <1>8, <2>1, SensorAside DEF LockStep, SendLock, sensorVars, Window
<1> QED BY <1>2, <1>3, <1>4, <1>5, <1>6, <1>7, <1>8 DEF LockStep

LEMMA BeginAside ==
  ASSUME IInv, NEW p \in Process, NEW t, NEW first, Begin(p, t, first), UNCHANGED mem
  PROVE  /\ pc[p] = "idle" /\ pc'[p] = first /\ task'[p] = t
         /\ \A q \in Process : q # p => pc'[q] = pc[q] /\ task'[q] = task[q] /\ mem'[q] = mem[q]
  BY DEF IInv, TypeOK, Begin

LEMMA CommandSensor ==
  ASSUME IInv, SensorInv, Command \/ SensorCommand \/ StartMonitor
  PROVE  SensorInv'
<1>1. ASSUME NEW p \in Process, NEW t, NEW first, Begin(p, t, first), UNCHANGED mem,
             first \notin Window["sensor"]
      PROVE  \A q \in Process : \/ pc'[q] = pc[q] /\ mem'[q] = mem[q]
                                \/ pc[q] \notin Window["sensor"] /\ pc'[q] \notin Window["sensor"]
  BY <1>1, BeginAside DEF Window
<1>2. ASSUME NEW p \in Process, NEW t \in LockTask, Receive(p, t), UNCHANGED sensorVars
      PROVE  SensorInv'
  <2>1. FirstRead(t) \notin Window["sensor"]
    BY FirstReads DEF Window
  <2> QED BY <1>1, <1>2, <2>1, SensorAside DEF Receive, Calm, sensorVars
<1>3. ASSUME NEW p \in Process, NEW j \in Job, TakeJob(p, j), UNCHANGED sensorVars
      PROVE  SensorInv'
  <2>1. FirstRead(j) \notin Window["sensor"]
    BY FirstReads DEF Window
  <2> QED BY <1>1, <1>3, <2>1, SensorAside DEF TakeJob, Calm, sensorVars
<1>4. ASSUME NEW j \in Job, QueueJob(j), UNCHANGED sensorVars
      PROVE  SensorInv'
  BY <1>4, SensorAside DEF QueueJob, Calm, sensorVars
<1>5. ASSUME NEW p \in Process, NEW t, ReceiveSensor(p, t), UNCHANGED lockVars
      PROVE  SensorInv'
  <2>1. "readSensor" \notin Window["sensor"]
    BY DEF Window
  <2> QED BY <1>1, <1>5, <2>1, SensorAside DEF ReceiveSensor, sensorVars
<1>6. CASE StartMonitor
  <2>1. \A q \in Process : \/ pc'[q] = pc[q] /\ mem'[q] = mem[q]
                           \/ pc[q] \notin Window["sensor"] /\ pc'[q] \notin Window["sensor"]
    BY <1>6 DEF StartMonitor, IInv, TypeOK, Window
  <2> QED BY <1>6, <2>1, SensorAside DEF StartMonitor, Calm, sensorVars
<1> QED BY <1>2, <1>3, <1>4, <1>5, <1>6 DEF Command, SensorCommand, Process, LockTask, Job

\* What is known of the sensor is inductive.
THEOREM SensorInductive == Spec => []SensorInv
<1>1. Init => SensorInv
  <2> SUFFICES ASSUME Init PROVE SensorInv
    OBVIOUS
  <2>1. \A p \in Process : ~InSensor(p)
    BY DEF Init, InSensor, Window
  <2>2. retained["sensor"] = sensor /\ cache = sensor
    BY DEF Init, Device
  <2> QED BY <2>1, <2>2 DEF SensorInv, SensorAlone, SensorUntangled, SensorUndisturbed
<1>2. IInv /\ SensorInv /\ [Next]_vars => SensorInv'
  <2> SUFFICES ASSUME IInv, SensorInv, [Next]_vars PROVE SensorInv'
    OBVIOUS
  <2>1. CASE StartMonitor \/ Command \/ SensorCommand
    BY <2>1, CommandSensor
  <2>2. ASSUME NEW p \in Process, LockStep(p)
        PROVE  SensorInv'
    BY <2>2, LockStepSensor
  <2>3. ASSUME NEW p \in Process, SensorStep(p)
        PROVE  SensorInv'
    BY <2>3, ReadSensorSettles, SaveSensorSettles, CheckCacheSettles, SendSensorSettles,
       PutCacheSettles DEF SensorStep
  <2>4. ASSUME NEW p \in Process, CutOff(p)
        PROVE  SensorInv'
    BY <2>4, CutOffSensorSettles
  <2>5. CASE ForgetCache
    <3>1. UNCHANGED <<publisherVars, sensor, tangled>> /\ cache' = Nobody
      BY <2>5 DEF ForgetCache
    <3>2. /\ UNCHANGED <<pc, mem, retained, lone, disturbed>>
          /\ \A q \in Process : InSensor(q)' <=> InSensor(q)
      BY <3>1 DEF publisherVars, InSensor
    <3> QED BY <3>1, <3>2 DEF SensorInv, SensorAlone, SensorUntangled, SensorUndisturbed
  <2>6. CASE UNCHANGED vars
    BY <2>6, SensorAside DEF vars, publisherVars, sensorVars
  <2> QED BY <2>1, <2>2, <2>3, <2>4, <2>5, <2>6 DEF Next, Run
<1> QED BY <1>1, <1>2, Inductive, PTL DEF Spec

\* The retained message of a sensor at rest is the state in its row, but for
\* the excuses of the property, however many requests report and save at once.
THEOREM SensorSettles == Spec => []SensorSettled
<1>1. SensorInv => SensorSettled
  BY DEF SensorInv, SensorUndisturbed, SensorSettled, SensorAtRest, Building, InSensor
<1> QED BY <1>1, SensorInductive, PTL

\* The cache never claims a state that the broker does not retain unless two
\* reports overlapped or one was cut off before its note.
THEOREM CacheHonest == Spec => []CacheIsHonest
<1>1. SensorInv => CacheIsHonest
  <2>1. SensorAtRest => \A p \in Process : pc[p] # "sensorCache"
    BY DEF SensorAtRest, Building, Window
  <2> QED BY <2>1 DEF SensorInv, SensorUntangled, CacheIsHonest
<1> QED BY <1>1, SensorInductive, PTL

-----------------------------------------------------------------------------
(***************************************************************************)
(* The steps and the lock.                                                 *)
(***************************************************************************)

\* What is owed stays so while the one who moves owed nothing.
LEMMA PendingStays ==
  ASSUME Pending, NEW p \in Process, ~Owes(p), UNCHANGED jobs,
         \A q \in Process : q # p => pc'[q] = pc[q] /\ task'[q] = task[q]
  PROVE  Pending'
  BY DEF Pending, Owes

\* A step that does not build, send or change the lock.
LEMMA LockAside ==
  ASSUME LockInv, Pending => Pending',
         \A q \in Process :
           \/ pc'[q] = pc[q] /\ task'[q] = task[q] /\ mem'[q] = mem[q]
           \/ pc[q] \notin Window["lock"] /\ pc'[q] \notin Window["lock"],
         lone'["lock"] = lone["lock"], disturbed'["lock"] = disturbed["lock"],
         retained'["lock"] = retained["lock"], UNCHANGED <<area, lock>>
  PROVE  LockInv'
<1>1. \A q \in Process : /\ InLock(q)' <=> InLock(q)
                         /\ InLock(q) => /\ pc'[q] = pc[q] /\ task'[q] = task[q]
                                         /\ Current(q)' <=> Current(q)
  BY DEF InLock, Current
<1>2. LockAlone'
  BY <1>1 DEF LockInv, LockAlone
<1>3. buildLockStatePayload(area, lock)' = buildLockStatePayload(area, lock)
  BY DEF buildLockStatePayload, Resolve, Clamp, Limit
<1>4. LockUndisturbed'
  BY <1>1, <1>3 DEF LockInv, LockUndisturbed
<1> QED BY <1>2, <1>4 DEF LockInv

\* One process goes on outside of the window, and what it owed it still owes.
LEMMA ContinueAside ==
  ASSUME IInv, LockInv, NEW p \in Process, NEW next, NEW rows, Continue(p, next, rows),
         pc[p] \notin Window["lock"], next \notin Window["lock"],
         UNCHANGED <<area, lock>>,
         Owes(p) => Pending', UNCHANGED jobs \/ Pending',
         lone'["lock"] = lone["lock"], disturbed'["lock"] = disturbed["lock"],
         retained'["lock"] = retained["lock"]
  PROVE  LockInv'
<1>1. /\ pc'[p] = next
      /\ \A q \in Process : q # p => pc'[q] = pc[q] /\ task'[q] = task[q] /\ mem'[q] = mem[q]
  BY ContinueValues, OthersStay
<1>2. Pending => Pending'
  BY <1>1, PendingStays
<1> QED BY <1>1, <1>2, LockAside

LEMMA SensorStepLock ==
  ASSUME IInv, LockInv, NEW p \in Process, SensorStep(p)
  PROVE  LockInv'
<1>1. CASE ReadSensor(p)
  <2>1. lone'["lock"] = lone["lock"] /\ disturbed'["lock"] = disturbed["lock"]
    BY <1>1 DEF ReadSensor, Open, IInv, TypeOK, Device
  <2> QED BY <1>1, <2>1, ContinueAside DEF SensorStep, ReadSensor, lockVars, Owes, Window
<1>2. CASE SaveSensor(p)
  BY <1>2, ContinueAside DEF SensorStep, SaveSensor, lockVars, Owes, Window
<1>3. CASE CheckCache(p)
  <2>1. disturbed'["lock"] = disturbed["lock"]
    BY <1>3 DEF CheckCache, IInv, TypeOK, Device
  <2> QED BY <1>3, <2>1, ContinueAside DEF SensorStep, CheckCache, Step, lockVars, Owes, Window
<1>4. ASSUME NEW arrives \in BOOLEAN, SendSensor(p, arrives)
      PROVE  LockInv'
  <2>1. disturbed'["lock"] = disturbed["lock"] /\ retained'["lock"] = retained["lock"]
    BY <1>4 DEF SendSensor, Transmit, IInv, TypeOK, Device
  <2> QED BY <1>4, <2>1, ContinueAside DEF SensorStep, SendSensor, Step, lockVars, Owes, Window
<1>5. CASE PutCache(p)
  <2>1. disturbed'["lock"] = disturbed["lock"]
    BY <1>5 DEF PutCache, IInv, TypeOK, Device
  <2> QED BY <1>5, <2>1, ContinueAside DEF SensorStep, PutCache, Step, lockVars, Owes, Window
<1> QED BY <1>1, <1>2, <1>3, <1>4, <1>5 DEF SensorStep

LEMMA CommandLock ==
  ASSUME IInv, LockInv, Command \/ SensorCommand \/ StartMonitor
  PROVE  LockInv'
<1>1. ASSUME NEW p \in Process, NEW t, NEW first, Begin(p, t, first), UNCHANGED mem,
             first \notin Window["lock"]
      PROVE  /\ \A q \in Process :
                  \/ pc'[q] = pc[q] /\ task'[q] = task[q] /\ mem'[q] = mem[q]
                  \/ pc[q] \notin Window["lock"] /\ pc'[q] \notin Window["lock"]
             /\ UNCHANGED jobs => (Pending => Pending')
  <2>1. ~Owes(p)
    BY <1>1, BeginAside DEF Owes
  <2> QED BY <1>1, <2>1, BeginAside, PendingStays DEF Window
<1>2. ASSUME NEW p \in Process, NEW t \in LockTask, Receive(p, t), UNCHANGED sensorVars
      PROVE  LockInv'
  <2>1. FirstRead(t) \notin Window["lock"]
    BY FirstReads DEF Window
  <2> QED BY <1>1, <1>2, <2>1, LockAside DEF Receive, Calm, lockVars
<1>3. ASSUME NEW p \in Worker, NEW j \in Job, TakeJob(p, j), UNCHANGED sensorVars
      PROVE  LockInv'
  <2>1. /\ p \in Process /\ Begin(p, j, FirstRead(j)) /\ UNCHANGED mem
        /\ FirstRead(j) \in {"fresh", "readLock"} /\ FirstRead(j) \notin Window["lock"]
        /\ j # PublishAll
    BY <1>3, FirstReads, TaskKinds DEF TakeJob, Process, Window
  <2>2. Owes(p)'
    BY <1>3, <2>1, BeginAside DEF Owes
  <2>3. Pending'
    BY <2>1, <2>2 DEF Pending
  <2> QED BY <1>1, <1>3, <2>1, <2>3, LockAside DEF TakeJob, Calm
<1>4. ASSUME NEW j \in Job, QueueJob(j), UNCHANGED sensorVars
      PROVE  LockInv'
  <2>1. jobs'[j] > 0
    BY <1>4 DEF QueueJob, IInv, TypeOK
  <2>2. Pending'
    BY <2>1 DEF Pending
  <2> QED BY <1>4, <2>2, LockAside DEF QueueJob, Calm
<1>5. ASSUME NEW p \in Process, NEW t, ReceiveSensor(p, t), UNCHANGED lockVars
      PROVE  LockInv'
  <2>1. "readSensor" \notin Window["lock"]
    BY DEF Window
  <2> QED BY <1>1, <1>5, <2>1, LockAside DEF ReceiveSensor, lockVars
<1>6. CASE StartMonitor
  <2>1. /\ Monitor \in Process /\ ~Owes(Monitor)
        /\ \A q \in Process : q # Monitor =>
             pc'[q] = pc[q] /\ task'[q] = task[q] /\ mem'[q] = mem[q]
        /\ pc[Monitor] \notin Window["lock"] /\ pc'[Monitor] \notin Window["lock"]
    BY <1>6 DEF StartMonitor, IInv, TypeOK, Process, Owes, Window
  <2>2. Pending => Pending'
    BY <1>6, <2>1, PendingStays DEF StartMonitor, lockVars
  <2> QED BY <1>6, <2>1, <2>2, LockAside DEF StartMonitor, Calm, lockVars
<1> QED BY <1>2, <1>3, <1>4, <1>5, <1>6 DEF Command, SensorCommand, Process, LockTask, Job

LEMMA ReadLockLock ==
  ASSUME IInv, LockInv, NEW p \in Process, ReadLock(p)
  PROVE  LockInv'
<1> DEFINE next == IF task[p].kind \in {"ha", "mqtt"} THEN "readArea" ELSE "save"
<1>1. /\ Continue(p, next, [mem[p] EXCEPT !.lock = lock]) /\ pc[p] = "readLock"
      /\ pc[p] \notin Window["lock"] /\ next \notin Window["lock"]
  BY DEF ReadLock, Window
<1>2. ASSUME Owes(p) PROVE Pending'
  <2>1. p \in Worker
    BY <1>1, <1>2 DEF Owes
  <2>2. task[p].kind = "state"
    BY <1>1, <2>1, TaskKinds DEF IInv, Known, KnownOf
  <2>3. pc'[p] = "save"
    BY <1>1, <2>2, ContinueValues
  <2> QED BY <2>1, <2>3 DEF Pending, Owes
<1> QED BY <1>1, <1>2, ContinueAside DEF ReadLock, Calm, lockVars

LEMMA ReadAreaLock ==
  ASSUME IInv, LockInv, NEW p \in Process, ReadArea(p)
  PROVE  LockInv'
<1>1. /\ Continue(p, "save", [mem[p] EXCEPT !.area = area]) /\ pc[p] = "readArea"
      /\ pc[p] \notin Window["lock"] /\ "save" \notin Window["lock"] /\ ~Owes(p)
  BY DEF ReadArea, Window, Owes
<1> QED BY <1>1, ContinueAside DEF ReadArea, Calm, lockVars

LEMMA EnqueueLock ==
  ASSUME IInv, LockInv, NEW p \in Process, Enqueue(p)
  PROVE  LockInv'
<1>1. /\ Continue(p, "idle", mem[p]) /\ pc[p] \notin Window["lock"] /\ "idle" \notin Window["lock"]
  BY DEF Enqueue, Step, Window
<1>2. PublishLocksForReader \in Job /\ jobs'[PublishLocksForReader] > 0
  <2>1. PICK n \in 1..Readers : jobs' = [jobs EXCEPT ![PublishLocksForReader] = @ + n]
    BY DEF Enqueue
  <2>2. n \in Nat /\ n > 0
    BY ReadersAreCounted
  <2> QED BY <2>1, <2>2 DEF Job, IInv, TypeOK
<1>3. Pending'
  BY <1>2 DEF Pending
<1> QED BY <1>1, <1>3, ContinueAside DEF Enqueue, Calm

\* After a save somebody owes a message, or the history says that nobody will.
LEMMA SaveLock ==
  ASSUME IInv, LockInv, NEW p \in Process, Save(p)
  PROVE  LockInv'
<1>1. PICK next \in AfterSave(task[p]) :
        /\ Continue(p, next, NoRows)
        /\ IF next = "idle" THEN Disturb("lock") ELSE Calm
  BY DEF Save
<1>2. /\ pc[p] = "save" /\ task[p] \in LockTask /\ UNCHANGED retained
      /\ next \in {"fresh", "enqueue", "idle"} /\ pc'[p] = next
      /\ ~InLock(p) /\ ~InLock(p)'
      /\ \A q \in Process : q # p => pc'[q] = pc[q] /\ task'[q] = task[q] /\ mem'[q] = mem[q]
  BY <1>1, AfterSavePlaces, ContinueValues, OthersStay DEF Save, IInv, Known, KnownOf, InLock, Window
<1>3. \A q \in Process : InLock(q)' <=> InLock(q)
  BY <1>2 DEF InLock
<1>4. CASE next = "idle"
  <2>1. lone'["lock"] = Nobody /\ disturbed'["lock"]
    BY <1>1, <1>4 DEF Disturb, IInv, TypeOK, Device
  <2> QED BY <2>1, ProcessesDiffer DEF LockInv, LockAlone, LockUndisturbed
<1>5. CASE next # "idle"
  <2>1. task'[p] = task[p] /\ task[p] # PublishAll
    BY <1>1, <1>2, <1>5, ContinueValues, TaskKinds
  <2>2. Pending'
    BY <1>2, <1>5, <2>1 DEF Pending, Owes
  <2>3. UNCHANGED <<lone, disturbed>>
    BY <1>1, <1>5 DEF Calm
  <2> QED BY <1>3, <2>2, <2>3 DEF LockInv, LockAlone, LockUndisturbed
<1> QED BY <1>4, <1>5

LEMMA ReadFreshLock ==
  ASSUME IInv, LockInv, NEW p \in Process, ReadFresh(p)
  PROVE  LockInv'
<1> DEFINE rows == [mem[p] EXCEPT !.lock = lock]
<1>1. /\ pc[p] = "fresh" /\ pc'[p] = "freshArea" /\ task'[p] = task[p] /\ mem'[p] = rows
      /\ \A q \in Process : q # p => pc'[q] = pc[q] /\ task'[q] = task[q] /\ mem'[q] = mem[q]
      /\ UNCHANGED <<retained, area, lock, jobs>>
  <2>1. Continue(p, "freshArea", rows)
    BY DEF ReadFresh
  <2> QED BY <2>1, ContinueValues, OthersStay DEF ReadFresh, lockVars
<1>2. /\ ~InLock(p) /\ InLock(p)' /\ Current(p)'
      /\ \A q \in Process : q # p => (InLock(q)' <=> InLock(q))
  BY <1>1, RowsRead DEF InLock, Window, Current
<1>3. CASE \A q \in Process : ~InLock(q)
  <2>1. Building("lock") \ {p} = {}
    BY <1>3 DEF Building, InLock
  <2>2. lone'["lock"] = p /\ disturbed'["lock"] = disturbed["lock"]
    BY <2>1 DEF ReadFresh, Open, Device, IInv, TypeOK
  <2>3. LockAlone'
    BY <1>2, <1>3 DEF LockAlone
  <2>4. ASSUME ~disturbed["lock"], task[p] = PublishAll
        PROVE  Pending' \/ (retained["lock"] = buildLockStatePayload(area, lock))'
    <3>1. ~Owes(p)
      BY <1>1, <2>4, ProcessesDiffer DEF Owes
    <3>2. Pending \/ retained["lock"] = buildLockStatePayload(area, lock)
      BY <1>3, <2>4 DEF LockInv, LockUndisturbed
    <3>3. CASE Pending
      BY <1>1, <3>1, <3>3, PendingStays
    <3>4. CASE retained["lock"] = buildLockStatePayload(area, lock)
      BY <1>1, <3>4 DEF buildLockStatePayload, Resolve, Clamp, Limit
    <3> QED BY <3>2, <3>3, <3>4
  <2>5. LockUndisturbed'
    BY <1>1, <1>2, <1>3, <2>2, <2>4 DEF LockUndisturbed
  <2> QED BY <2>3, <2>5 DEF LockInv
<1>4. CASE \E q \in Process : InLock(q)
  <2>1. Building("lock") \ {p} # {}
    BY <1>2, <1>4 DEF Building, InLock
  <2>2. lone'["lock"] = Nobody /\ disturbed'["lock"]
    BY <2>1 DEF ReadFresh, Open, Device, IInv, TypeOK
  <2> QED BY <2>2, ProcessesDiffer DEF LockInv, LockAlone, LockUndisturbed
<1> QED BY <1>3, <1>4

LEMMA ReadFreshAreaLock ==
  ASSUME IInv, LockInv, NEW p \in Process, ReadFreshArea(p)
  PROVE  LockInv'
<1> DEFINE rows == [mem[p] EXCEPT !.area = area]
<1>1. /\ pc[p] = "freshArea" /\ pc'[p] = "lockSend" /\ task'[p] = task[p] /\ mem'[p] = rows
      /\ \A q \in Process : q # p => pc'[q] = pc[q] /\ task'[q] = task[q] /\ mem'[q] = mem[q]
      /\ UNCHANGED <<retained, lone, disturbed, area, lock, jobs>>
  <2>1. Continue(p, "lockSend", rows)
    BY DEF ReadFreshArea
  <2> QED BY <2>1, ContinueValues, OthersStay DEF ReadFreshArea, Calm, lockVars
<1>2. /\ Current(p) => Current(p)'
      /\ ~Owes(p)
      /\ \A q \in Process : InLock(q)' <=> InLock(q)
      /\ \A q \in Process : q # p => (Current(q)' <=> Current(q))
  BY <1>1, RowsRead DEF InLock, Window, Current, Owes
<1>3. InLock(p)
  BY <1>1 DEF InLock, Window
<1>4. Pending => Pending'
  BY <1>1, <1>2, <1>3, PendingStays
<1>5. \A q \in Process : InLock(q) /\ Current(q) => Current(q)'
  BY <1>2, <1>3
<1>6. LockAlone'
  BY <1>1, <1>2, <1>4, <1>5 DEF LockInv, LockAlone
<1>7. buildLockStatePayload(area, lock)' = buildLockStatePayload(area, lock)
  BY <1>1 DEF buildLockStatePayload, Resolve, Clamp, Limit
<1>8. \A q \in Process : task'[q] = task[q]
  BY <1>1
<1>9. LockUndisturbed'
  BY <1>1, <1>2, <1>4, <1>5, <1>7, <1>8 DEF LockInv, LockUndisturbed
<1> QED BY <1>6, <1>9 DEF LockInv

LEMMA SendLockLock ==
  ASSUME IInv, LockInv, NEW p \in Process, NEW arrives \in BOOLEAN, SendLock(p, arrives)
  PROVE  LockInv'
<1>1. /\ pc[p] = "lockSend" /\ InLock(p) /\ ~InLock(p)' /\ ~Owes(p)
      /\ \A q \in Process : q # p => pc'[q] = pc[q] /\ task'[q] = task[q] /\ mem'[q] = mem[q]
      /\ UNCHANGED <<lone, area, lock, jobs>>
  <2> DEFINE next == IF task[p].kind = "publish_all" THEN "readSensor" ELSE "idle"
  <2>1. Continue(p, next, NoRows) /\ next \notin Window["lock"]
    BY DEF SendLock, Window
  <2>2. pc'[p] = next
    BY <2>1, ContinueValues
  <2> QED BY <2>1, <2>2, OthersStay DEF SendLock, lockVars, InLock, Owes, Window
<1>2. Pending => Pending'
  BY <1>1, PendingStays
<1>3. \A q \in Process : q # p => (InLock(q)' <=> InLock(q)) /\ (Current(q)' <=> Current(q))
  BY <1>1 DEF InLock, Current
<1>4. LockAlone'
  BY <1>1, <1>2, <1>3 DEF LockInv, LockAlone
<1>5. LockUndisturbed'
  <2>1. CASE ~arrives
    <3>1. disturbed'["lock"]
      BY <2>1 DEF SendLock, IInv, TypeOK, Device
    <3> QED BY <3>1 DEF LockUndisturbed
  <2>2. CASE arrives /\ lone["lock"] # p
    <3>1. disturbed["lock"]
      BY <1>1, <2>2 DEF LockInv, LockUndisturbed
    <3>2. disturbed'["lock"]
      BY <2>2, <3>1 DEF SendLock, IInv, TypeOK, Device
    <3> QED BY <3>2 DEF LockUndisturbed
  <2>3. CASE arrives /\ lone["lock"] = p
    <3>1. (\A q \in Process : InLock(q) => q = p) /\ (Pending \/ Current(p))
      BY <1>1, <2>3 DEF LockInv, LockAlone
    <3>2. \A q \in Process : ~InLock(q)'
      BY <1>1, <1>3, <3>1
    <3>3. CASE Pending
      BY <1>2, <3>2, <3>3 DEF LockUndisturbed
    <3>4. CASE Current(p)
      <4>1. retained'["lock"] = buildLockStatePayload(mem[p].area, mem[p].lock)
        BY <2>3 DEF SendLock, Transmit, IInv, TypeOK, Device
      <4>2. mem[p].area = area /\ mem[p].lock = lock
        BY <1>1, <3>4 DEF Current
      <4>3. (retained["lock"] = buildLockStatePayload(area, lock))'
        BY <1>1, <4>1, <4>2 DEF buildLockStatePayload, Resolve, Clamp, Limit
      <4> QED BY <3>2, <4>3 DEF LockUndisturbed
    <3> QED BY <3>1, <3>3, <3>4
  <2> QED BY <2>1, <2>2, <2>3
<1> QED BY <1>4, <1>5 DEF LockInv

\* A worker's job goes back to the queue; another process that is cut off
\* after its save leaves a disturbance, publishAllDeviceStates nothing.
LEMMA CutOffLock ==
  ASSUME IInv, LockInv, NEW p \in Process, CutOff(p)
  PROVE  LockInv'
<1>1. /\ pc'[p] \in {"idle", "down"} /\ ~InLock(p)'
      /\ \A q \in Process : q # p => pc'[q] = pc[q] /\ task'[q] = task[q] /\ mem'[q] = mem[q]
      /\ UNCHANGED <<retained, area, lock>>
  BY DEF CutOff, InLock, Window, IInv, TypeOK
<1>2. /\ lone'["lock"] \in {Nobody, lone["lock"]}
      /\ lone["lock"] = p => lone'["lock"] = Nobody
      /\ disturbed["lock"] => disturbed'["lock"]
  BY DEF CutOff, Device, IInv, TypeOK
<1>3. \A q \in Process : q # p => (InLock(q)' <=> InLock(q)) /\ (Current(q)' <=> Current(q))
  BY <1>1 DEF InLock, Current
<1>4. CASE /\ p \notin Worker /\ task[p] # PublishAll
           /\ pc[p] \in {"enqueue", "fresh", "freshArea", "lockSend"}
  <2>1. lone'["lock"] = Nobody /\ disturbed'["lock"]
    BY <1>4 DEF CutOff, Device, IInv, TypeOK
  <2> QED BY <2>1, ProcessesDiffer DEF LockInv, LockAlone, LockUndisturbed
<1>5. CASE ~ /\ p \notin Worker /\ task[p] # PublishAll
             /\ pc[p] \in {"enqueue", "fresh", "freshArea", "lockSend"}
  <2>1. Pending => Pending'
    <3>1. CASE p \in Worker
      <4>1. task[p] \in Job /\ jobs' = [jobs EXCEPT ![task[p]] = @ + 1]
        BY <3>1, ProcessesDiffer DEF CutOff, IInv, Known, KnownOf
      <4>2. jobs'[task[p]] > 0
        BY <4>1 DEF IInv, TypeOK
      <4> QED BY <4>1, <4>2 DEF Pending
    <3>2. CASE p \notin Worker
      <4>1. ~Owes(p) /\ UNCHANGED jobs
        BY <1>5, <3>2 DEF Owes, CutOff
      <4> QED BY <1>1, <4>1, PendingStays
    <3> QED BY <3>1, <3>2
  <2>2. LockAlone'
    BY <1>1, <1>2, <1>3, <2>1, ProcessesDiffer DEF LockInv, LockAlone
  <2>3. ASSUME ~disturbed'["lock"]
        PROVE  /\ \A q \in Process : InLock(q)' => lone'["lock"] = q
               /\ (\A q \in Process : InLock(q) /\ task[q] # PublishAll /\ Current(q) => q # p) \/ Pending'
    <3>1. ~disturbed["lock"]
      BY <1>2, <2>3
    <3>2. lone["lock"] # p => lone'["lock"] = lone["lock"]
      BY <1>5 DEF CutOff, Device
    <3>3. \A q \in Process : InLock(q)' => lone'["lock"] = q
      BY <1>1, <1>3, <3>1, <3>2 DEF LockInv, LockUndisturbed
    <3>4. CASE p \in Worker
      <4>1. task[p] \in Job /\ jobs' = [jobs EXCEPT ![task[p]] = @ + 1]
        BY <3>4, ProcessesDiffer DEF CutOff, IInv, Known, KnownOf
      <4>2. jobs'[task[p]] > 0
        BY <4>1 DEF IInv, TypeOK
      <4> QED BY <3>3, <4>1, <4>2 DEF Pending
    <3>5. CASE p \notin Worker
      BY <1>5, <3>3, <3>5 DEF InLock, Window
    <3> QED BY <3>4, <3>5
  <2>4. buildLockStatePayload(area, lock)' = buildLockStatePayload(area, lock)
    BY <1>1 DEF buildLockStatePayload, Resolve, Clamp, Limit
  <2>5. LockUndisturbed'
    BY <1>1, <1>2, <1>3, <2>1, <2>3, <2>4 DEF LockInv, LockUndisturbed
  <2> QED BY <2>2, <2>5 DEF LockInv
<1> QED BY <1>4, <1>5

\* What is known of the lock is inductive.
THEOREM LockInductive == Spec => []LockInv
<1>1. Init => LockInv
  <2> SUFFICES ASSUME Init PROVE LockInv
    OBVIOUS
  <2>1. \A p \in Process : ~InLock(p)
    BY DEF Init, InLock, Window
  <2>2. retained["lock"] = buildLockStatePayload(area, lock)
    BY DEF Init, Device
  <2> QED BY <2>1, <2>2 DEF LockInv, LockAlone, LockUndisturbed
<1>2. IInv /\ LockInv /\ [Next]_vars => LockInv'
  <2> SUFFICES ASSUME IInv, LockInv, [Next]_vars PROVE LockInv'
    OBVIOUS
  <2>1. CASE StartMonitor \/ Command \/ SensorCommand
    BY <2>1, CommandLock
  <2>2. ASSUME NEW p \in Process, LockStep(p)
        PROVE  LockInv'
    BY <2>2, ReadLockLock, ReadAreaLock, SaveLock, EnqueueLock, ReadFreshLock,
       ReadFreshAreaLock, SendLockLock DEF LockStep
  <2>3. ASSUME NEW p \in Process, SensorStep(p)
        PROVE  LockInv'
    BY <2>3, SensorStepLock
  <2>4. ASSUME NEW p \in Process, CutOff(p)
        PROVE  LockInv'
    BY <2>4, CutOffLock
  <2>5. CASE (ForgetCache /\ UNCHANGED lockVars) \/ UNCHANGED vars
    <3>1. UNCHANGED <<publisherVars, lockVars>>
      BY <2>5 DEF ForgetCache, vars
    <3>2. Pending => Pending'
      BY <3>1 DEF Pending, Owes, publisherVars, lockVars
    <3> QED BY <3>1, <3>2, LockAside DEF publisherVars, lockVars
  <2> QED BY <2>1, <2>2, <2>3, <2>4, <2>5 DEF Next, Run
<1> QED BY <1>1, <1>2, Inductive, PTL DEF Spec

\* The retained message of a lock at rest is what its row and its area's
\* resolve to, but for the excuses of the property, whoever changes one of
\* them: a relation of seven handlers, the jobs and the monitor.
THEOREM LockSettles == Spec => []LockSettled
<1>1. IInv /\ LockInv => LockSettled
  <2> SUFFICES ASSUME IInv, LockInv, LockAtRest, ~disturbed["lock"]
               PROVE  retained["lock"] = buildLockStatePayload(area, lock)
    BY DEF LockSettled
  <2>1. \A p \in Process : ~InLock(p) /\ ~Owes(p)
    BY DEF LockAtRest, InLock, Owes
  <2>2. ~Pending
    BY <2>1 DEF LockAtRest, Pending
  <2> QED BY <2>1, <2>2 DEF LockInv, LockUndisturbed
<1> QED BY <1>1, Inductive, LockInductive, PTL

-----------------------------------------------------------------------------
(***************************************************************************)
(* The halves of the lock's row and of its setting.                        *)
(***************************************************************************)

\* Only the process that saves changes the rows of the lock and the area.
LEMMA OnlySaves ==
  ASSUME IInv, [Next]_vars, NEW p \in Process, pc[p] = "save", pc'[p] # pc[p],
         ~UNCHANGED <<area, lock>>
  PROVE  Save(p) /\ UNCHANGED sensorVars
<1>1. CASE StartMonitor
  BY <1>1 DEF StartMonitor, IInv, TypeOK, Process, lockVars
<1>2. CASE Command
  <2>1. \A q \in Process : \A t, first :
        Begin(q, t, first) => pc[q] = "idle" /\ (q # p => pc'[p] = pc[p])
    BY DEF Begin, IInv, TypeOK
  <2> QED BY <1>2, <2>1 DEF Command, Receive, TakeJob, QueueJob, Process
<1>3. CASE SensorCommand
  BY <1>3 DEF SensorCommand, ReceiveSensor, Begin, Process, IInv, TypeOK
<1>4. ASSUME NEW q \in Process, LockStep(q)
      PROVE  Save(p) /\ UNCHANGED sensorVars
  <2>1. ASSUME q # p PROVE FALSE
    BY <1>4, <2>1, OthersStay DEF LockStep, ReadLock, ReadArea, Save, Enqueue, Step, ReadFresh,
       ReadFreshArea, SendLock
  <2> QED BY <1>4, <2>1 DEF LockStep, ReadLock, ReadArea, Enqueue, ReadFresh, ReadFreshArea, SendLock
<1>5. ASSUME NEW q \in Process, SensorStep(q)
      PROVE  FALSE
  <2>1. pc[q] # "save" /\ \E next, rows : Continue(q, next, rows)
    BY <1>5 DEF SensorStep, ReadSensor, SaveSensor, CheckCache, SendSensor, PutCache, Step
  <2> QED BY <2>1, OthersStay
<1>6. ASSUME NEW q \in Process, CutOff(q)
      PROVE  FALSE
  BY <1>6 DEF CutOff, IInv, TypeOK
<1>7. CASE ForgetCache \/ UNCHANGED vars
  BY <1>7 DEF ForgetCache, vars, publisherVars
<1> QED BY <1>1, <1>2, <1>3, <1>4, <1>5, <1>6, <1>7 DEF Next, Run

\* A setting never brings back an older lock state, nor a lock state an older
\* setting, although both are written to the row by processes that read it
\* earlier: a save writes the columns that differ.
THEOREM HalvesApart == Spec => HalvesOfRowApart
<1>1. ASSUME IInv, [Next]_vars, NEW p \in Process, pc[p] = "save", pc'[p] # pc[p]
      PROVE  /\ lock'.power # lock.power => task[p].kind \in {"state", "lock_form"}
             /\ lock'.config # lock.config => task[p].kind \in OfLock \ {"state"}
  <2> SUFFICES ASSUME lock' # lock
               PROVE  /\ lock'.power # lock.power => task[p].kind \in {"state", "lock_form"}
                      /\ lock'.config # lock.config => task[p].kind \in OfLock \ {"state"}
    OBVIOUS
  <2>1. Save(p)
    BY <1>1, OnlySaves
  <2>2. task[p].kind \in OfLock /\ lock' \in LockSaved(p)
    BY <2>1 DEF Save
  <2>3. lock \in LockRow /\ mem[p].lock \in LockRow
    BY <1>1, <2>2 DEF IInv, TypeOK, Known, KnownOf
  <2>4. task[p].kind \notin {"state", "lock_form"} => lock'.power = lock.power
    BY <2>2, <2>3 DEF LockSaved, Saved, LockRow
  <2>5. task[p].kind = "state" => lock'.config = lock.config
    BY <2>2, <2>3 DEF LockSaved, Saved, LockRow
  <2> QED BY <2>2, <2>4, <2>5
<1>2. IInv /\ [Next]_vars =>
        \A p \in Process : pc[p] = "save" /\ pc'[p] # pc[p] =>
          /\ lock'.power # lock.power => task[p].kind \in {"state", "lock_form"}
          /\ lock'.config # lock.config => task[p].kind \in OfLock \ {"state"}
  BY <1>1
<1> QED BY <1>2, Inductive, PTL DEF Spec, HalvesOfRowApart

\* What is resolved are seconds and a flag, limited or not.
LEMMA ResolvedSeconds ==
  ASSUME NEW a \in Setting, NEW l \in LockRow
  PROVE  /\ Resolve(a, l).enabled \in BOOLEAN /\ Resolve(a, l).duration \in Nat
         /\ Clamp(Resolve(a, l).duration) \in Nat
<1>1. Seconds \subseteq Nat
  BY DurationsAreSeconds DEF Limit, Seconds
<1>2. Resolve(a, l).enabled \in BOOLEAN /\ Resolve(a, l).duration \in Seconds
  BY ResolveType
<1>3. Clamp(Resolve(a, l).duration) \in Seconds
  BY <1>2, ClampType
<1> QED BY <1>1, <1>2, <1>3

\* What a message says of a half depends on what that half resolves to.
LEMMA HalfOfPayload ==
  ASSUME NEW a \in Setting, NEW l \in LockRow, NEW b \in Setting, NEW k \in LockRow
  PROVE  /\ Resolve(b, k).enabled = Resolve(a, l).enabled =>
              buildLockStatePayload(b, k).enabled = buildLockStatePayload(a, l).enabled
         /\ Resolve(b, k).duration \in {Resolve(a, l).duration, Clamp(Resolve(a, l).duration)} =>
              buildLockStatePayload(b, k).duration = buildLockStatePayload(a, l).duration
<1>1. Resolve(a, l).duration \in Nat
  BY ResolvedSeconds
<1>2. \A d \in Nat : Clamp(Clamp(d)) = Clamp(d)
  BY DEF Clamp, Limit
<1>3. ASSUME Resolve(b, k).duration \in {Resolve(a, l).duration, Clamp(Resolve(a, l).duration)}
      PROVE  Clamp(Resolve(b, k).duration) = Clamp(Resolve(a, l).duration)
  BY <1>1, <1>2, <1>3
<1> QED BY <1>3 DEF buildLockStatePayload

\* A command about one half of the setting publishes the other half as it was.
THEOREM OtherHalfStays == Spec => OtherHalfKept
<1>1. ASSUME IInv, [Next]_vars, NEW p \in Process,
             pc[p] = "save", pc'[p] # "save", ~UNCHANGED <<area, lock>>,
             task[p].kind \in {"ha", "mqtt", "reader_api"},
             mem[p].area = area, task[p].kind \in OfLock => mem[p].lock = lock
      PROVE  LET before == buildLockStatePayload(area, lock)
                 after == buildLockStatePayload(area', lock')
             IN  /\ task[p].enabled = Keep => after.enabled = before.enabled
                 /\ task[p].duration = Keep => after.duration = before.duration
  <2>1. Save(p) /\ UNCHANGED sensorVars
    BY <1>1, OnlySaves
  <2>2. IInv'
    BY <1>1, <2>1, SaveKeeps
  <2>3. /\ task[p] \in LockTask /\ area \in Setting /\ lock \in LockRow
        /\ area' \in Setting /\ lock' \in LockRow
    BY <1>1, <2>2 DEF IInv, TypeOK, Known, KnownOf
  <2>4. /\ Resolve(area, lock).enabled \in BOOLEAN /\ Resolve(area, lock).duration \in Nat
        /\ Clamp(Resolve(area, lock).duration) \in Nat
    BY <2>3, ResolvedSeconds
  <2>5. CASE task[p].kind \in {"ha", "mqtt"}
    <3> DEFINE asked == OverrideAsked(task[p], area, lock)
    <3>1. mem[p].lock = lock /\ task[p].kind \in OfLock
      BY <1>1, <2>5 DEF OfLock
    <3>2. area' = area /\ lock' \in LockSaved(p)
      BY <2>1, <3>1 DEF Save
    <3>3. lock'.config = asked
      BY <1>1, <2>5, <3>1, <3>2 DEF LockSaved, Saved
    <3>4. /\ task[p].enabled = Keep => asked.enabled = Resolve(area, lock).enabled
          /\ task[p].duration = Keep =>
               asked.duration \in {Resolve(area, lock).duration, Clamp(Resolve(area, lock).duration)}
      BY DEF OverrideAsked
    <3>5. /\ task[p].enabled = Keep => Resolve(area', lock').enabled = Resolve(area, lock).enabled
          /\ task[p].duration = Keep =>
               Resolve(area', lock').duration
                 \in {Resolve(area, lock).duration, Clamp(Resolve(area, lock).duration)}
      <4>1. ASSUME task[p].enabled = Keep
            PROVE  Resolve(area', lock').enabled = Resolve(area, lock).enabled
        <5>1. lock'.config.enabled = Resolve(area, lock).enabled /\ lock'.config.enabled # Unset
          BY <2>4, <3>3, <3>4, <4>1, MarksDiffer
        <5> QED BY <5>1 DEF Resolve
      <4>2. ASSUME task[p].duration = Keep
            PROVE  Resolve(area', lock').duration
                     \in {Resolve(area, lock).duration, Clamp(Resolve(area, lock).duration)}
        <5>1. lock'.config.duration = asked.duration /\ asked.duration # Unset
          BY <2>4, <3>3, <3>4, <4>2, MarksDiffer
        <5>2. Resolve(area', lock').duration = lock'.config.duration
          BY <5>1 DEF Resolve
        <5> QED BY <3>4, <4>2, <5>1, <5>2
      <4> QED BY <4>1, <4>2
    <3> QED BY <2>3, <3>5, HalfOfPayload
  <2>6. CASE task[p].kind = "reader_api"
    <3>1. task[p].kind \notin OfLock /\ task[p].enabled # Keep
      BY <2>3, <2>6, LockTaskFields, MarksDiffer DEF OfLock
    <3>2. lock' = lock /\ (area' = DefaultAsked(task[p], area) \/ area' = area)
      BY <1>1, <2>1, <3>1 DEF Save
    <3>3. task[p].duration = Keep => area'.duration = area.duration
      BY <3>2 DEF DefaultAsked
    <3>4. task[p].duration = Keep => Resolve(area', lock').duration = Resolve(area, lock).duration
      BY <3>2, <3>3 DEF Resolve
    <3> QED BY <2>3, <3>1, <3>4, HalfOfPayload
  <2> QED BY <1>1, <2>5, <2>6
<1>2. ASSUME UNCHANGED <<area, lock>>
      PROVE  buildLockStatePayload(area', lock') = buildLockStatePayload(area, lock)
  BY <1>2
<1>3. IInv /\ [Next]_vars =>
        \A p \in Process :
          /\ pc[p] = "save" /\ pc'[p] # "save"
          /\ task[p].kind \in {"ha", "mqtt", "reader_api"}
          /\ mem[p].area = area /\ (task[p].kind \in OfLock => mem[p].lock = lock)
          => LET before == buildLockStatePayload(area, lock)
                 after == buildLockStatePayload(area', lock')
             IN  /\ task[p].enabled = Keep => after.enabled = before.enabled
                 /\ task[p].duration = Keep => after.duration = before.duration
  BY <1>1, <1>2
<1> QED BY <1>3, Inductive, PTL DEF Spec, OtherHalfKept
=============================================================================
