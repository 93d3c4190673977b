-------------------------- MODULE PublishedStates ---------------------------
(***************************************************************************)
(* A lock and a sensor of one area with everything that publishes them:    *)
(* the requests and jobs of AutolockSettings and SensorReports, and the    *)
(* MQTT monitor, which publishes every device when it starts and takes one *)
(* command at a time afterwards.                                           *)
(***************************************************************************)
EXTENDS AutolockSettings, SensorReports

vars == <<publisherVars, lockVars, sensorVars>>

PublishAll == [kind |-> "publish_all"]

\* What web requests are about.
WebRequest ==
  HomeAssistantCommand \cup LockApiAutolock \cup LockForm \cup AreaForm
  \cup AreaPageAutolock \cup ReaderApiAutolock \cup ToggleAutolock

SensorRequest == SensorForm \cup BindingForm \cup Report

\* The monitor has started and published both devices.
Init ==
  /\ pc = [p \in Process |-> "idle"]
  /\ task = [p \in Process |-> Nobody]
  /\ mem = [p \in Process |-> NoRows]
  /\ lone = [d \in Device |-> Nobody]
  /\ disturbed = [d \in Device |-> FALSE]
  /\ requests = 0 /\ faults = 0
  /\ area \in [enabled : {TRUE}, duration : Duration]
  /\ lock = [config |-> [enabled |-> Unset, duration |-> Unset], power |-> 0]
  /\ jobs = [j \in Job |-> 0]
  /\ sensor = FALSE /\ cache = sensor /\ tangled = FALSE
  /\ retained = [d \in Device |-> IF d = "lock" THEN buildLockStatePayload(area, lock) ELSE sensor]

-----------------------------------------------------------------------------
\* publishAllDeviceStates, before the monitor subscribes.
StartMonitor ==
  /\ pc[Monitor] = "down"
  /\ pc' = [pc EXCEPT ![Monitor] = "fresh"]
  /\ task' = [task EXCEPT ![Monitor] = PublishAll]
  /\ Calm /\ UNCHANGED <<mem, retained, requests, faults, lockVars, sensorVars>>

Command ==
  /\ \/ \E w \in Web, t \in WebRequest : Receive(w, t)
     \/ \E t \in MqttAutolock : Receive(Monitor, t)
     \/ \E j \in Job : QueueJob(j)
     \/ \E w \in Worker, j \in Job : TakeJob(w, j)
  /\ UNCHANGED sensorVars

SensorCommand ==
  /\ \E w \in Web, t \in SensorRequest : ReceiveSensor(w, t)
  /\ UNCHANGED lockVars

LockStep(p) ==
  /\ \/ ReadLock(p) \/ ReadArea(p) \/ Save(p) \/ Enqueue(p)
     \/ ReadFresh(p) \/ ReadFreshArea(p)
     \/ \E arrives \in BOOLEAN : SendLock(p, arrives)
  /\ UNCHANGED sensorVars

SensorStep(p) ==
  /\ \/ ReadSensor(p) \/ SaveSensor(p) \/ CheckCache(p)
     \/ \E arrives \in BOOLEAN : SendSensor(p, arrives)
     \/ PutCache(p)
  /\ UNCHANGED lockVars

\* A process is cut off: a request ends with an error, a job goes back to its
\* queue, the monitor reconnects or is started anew.  What it saved stays.
CutOff(p) ==
  /\ pc[p] \notin IF p = Monitor THEN {"down"} ELSE {"idle"}
  /\ faults < MaxFaults /\ faults' = faults + 1
  /\ pc' \in {[pc EXCEPT ![p] = s] :
                s \in IF p # Monitor THEN {"idle"}
                      ELSE IF task[p] \in {Nobody, PublishAll} THEN {"down"} ELSE {"idle", "down"}}
  /\ task' = [task EXCEPT ![p] = Nobody] /\ mem' = [mem EXCEPT ![p] = NoRows]
  /\ jobs' = IF p \in Worker THEN [jobs EXCEPT ![task[p]] = @ + 1] ELSE jobs
  /\ LET owes(d) == \/ d = "lock" /\ p \notin Worker /\ task[p] # PublishAll
                       /\ pc[p] \in {"enqueue", "fresh", "freshArea", "lockSend"}
                    \/ d = "sensor" /\ pc[p] \in {"sensorCheck", "sensorSend", "sensorCache"}
     IN  /\ lone' = [d \in Device |-> IF owes(d) \/ lone[d] = p THEN Nobody ELSE lone[d]]
         /\ disturbed' = [d \in Device |-> disturbed[d] \/ owes(d)]
  /\ tangled' = (tangled \/ pc[p] = "sensorCache")
  /\ UNCHANGED <<retained, requests, area, lock, sensor, cache>>

Run(p) == LockStep(p) \/ SensorStep(p)

Next ==
  \/ StartMonitor \/ Command \/ SensorCommand
  \/ \E p \in Process : Run(p) \/ CutOff(p)
  \/ ForgetCache /\ UNCHANGED lockVars

Spec == Init /\ [][Next]_vars
-----------------------------------------------------------------------------
Place ==
  {"idle", "down", "readLock", "readArea", "save", "enqueue", "fresh", "readSensor"}
  \cup Window["lock"] \cup Window["sensor"]

Task == {Nobody, PublishAll} \cup Job \cup WebRequest \cup MqttAutolock \cup SensorRequest

Memory == [lock : LockRow \cup {Nobody}, area : Setting \cup {Nobody},
           sensor : BOOLEAN \cup {Nobody}]

LockMessage ==
  [power : {0, 1}, enabled : BOOLEAN, duration : {d \in Seconds : d <= Limit},
   source : {"area_default", "lock_override"}]

\* Every variable has its type; no message tells a duration beyond the limit.
TypeOK ==
  /\ pc \in [Process -> Place] /\ task \in [Process -> Task] /\ mem \in [Process -> Memory]
  /\ area \in Setting /\ lock \in LockRow /\ jobs \in [Job -> Nat]
  /\ retained = [d \in Device |-> retained[d]]
  /\ retained["lock"] \in LockMessage /\ retained["sensor"] \in BOOLEAN
  /\ lone \in [Device -> Process \cup {Nobody}] /\ disturbed \in [Device -> BOOLEAN]
  /\ requests \in 0..MaxRequests /\ faults \in 0..MaxFaults
  /\ sensor \in BOOLEAN /\ cache \in {Nobody} \cup BOOLEAN /\ tangled \in BOOLEAN

\* Nobody is changing or publishing the lock.
LockAtRest ==
  /\ \A p \in Process : pc[p] \notin Window["lock"] \cup {"enqueue", "fresh"}
  /\ \A w \in Worker : pc[w] = "idle"
  /\ \A j \in Job : jobs[j] = 0

\* Nobody is changing or publishing the sensor.
SensorAtRest == Building("sensor") = {}

\* The retained message of a lock at rest is what its row and its area's say,
\* through every handler that changes one of them.  Excepted is what the code
\* leaves out: the requests that publish nothing (the lock's API and form, the
\* area's API and form), a default that is changed through readers of which
\* none publishes this lock (an area without readers, or a lock that no output
\* names and that is not the primary one), a state that is stored and not
\* published, a lost publish, a handler that is cut off after its save, and
\* messages built at the same time; the next message that is built alone ends
\* every one of these.
LockSettled ==
  LockAtRest /\ ~disturbed["lock"] => retained["lock"] = buildLockStatePayload(area, lock)

\* The same for the sensor, whose reports are not all published: one that is
\* skipped had nothing to tell, even after a lost publish.
SensorSettled ==
  SensorAtRest /\ ~disturbed["sensor"] => retained["sensor"] = sensor

\* The cache claims only what the broker retains, so that no state is held
\* back that was not published, unless two reports overlapped or one was cut
\* off between its publish and its note.
CacheIsHonest ==
  SensorAtRest /\ ~tangled => cache \in {Nobody, retained["sensor"]}

\* A command about one half of the auto-lock setting leaves the other half
\* of what is published as it is, whether the lock inherits it, overrides it or
\* exceeds the limit, provided the rows it read are the rows it changes.
OtherHalfKept ==
  [][\A p \in Process :
       /\ pc[p] = "save" /\ pc'[p] # "save"
       /\ task[p].kind \in {"ha", "mqtt", "reader_api"}
       /\ mem[p].area = area /\ (task[p].kind \in OfLock => mem[p].lock = lock)
       => LET before == buildLockStatePayload(area, lock)
              after == buildLockStatePayload(area', lock')
          IN  /\ task[p].enabled = Keep => after.enabled = before.enabled
              /\ task[p].duration = Keep => after.duration = before.duration]_vars

\* The lock state and the settings share a row and are read and written by
\* different processes, yet a setting never brings back an older lock state and
\* a lock state never an older setting: only the lock form, which posts both.
HalvesOfRowApart ==
  [][\A p \in Process : pc[p] = "save" /\ pc'[p] # pc[p] =>
       /\ lock'.power # lock.power => task[p].kind \in {"state", "lock_form"}
       /\ lock'.config # lock.config => task[p].kind \in OfLock \ {"state"}]_vars
=============================================================================
