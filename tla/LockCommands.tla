---------------------------- MODULE LockCommands ----------------------------
(***************************************************************************)
(* The life of a lock command: the entry points that dispatch a            *)
(* ProcessReaderEvent job, the queue, the queue workers that run the job   *)
(* step by step, the lock outputs it drives, and the three records of the  *)
(* result it leaves behind: the reader's expected state, the locks' stored *)
(* state and the retained MQTT state.                                      *)
(*                                                                         *)
(* Each worker step is one interaction with the outside (a queue pop, a    *)
(* hardware read or write, a database write, a publish), so that the steps *)
(* of two workers interleave as they do in two processes.  Time is         *)
(* abstract: a delayed job may fall due at any moment.  An output holds    *)
(* the canonical lock state (the wire polarity is SignalValueMapper's).    *)
(***************************************************************************)
EXTENDS Integers, Sequences, FiniteSets

CONSTANTS
  Reader, Lock, Channel, Worker, JobId,
  Outputs,       \* [Reader -> Seq(Channel)] resolveLockPowerBindings
  StoredLocks,   \* [Reader -> Seq(Lock)] locks LockStateStore updates
  TopicLocks,    \* [Reader -> Seq(Lock)] locks publishLocksForReader publishes
  AreaReader,    \* [Lock -> SUBSET Reader] first reader of the lock's area
  BoundReader,   \* [Lock -> SUBSET Reader] readerForLock
  MonitorReader, \* [Lock -> SUBSET Reader] the MQTT monitor's choice
  Autolock,      \* the readers for which AutolockSettingsResolver says enabled
  Illegible,     \* channels whose reading may be no value SignalValueMapper knows
  EntryPoints,   \* which sources of commands are in use
  MaxTries,      \* ProcessReaderEvent::$tries
  MaxRequests,   \* bound: commands issued in a behaviour
  FaultBudget,   \* bound: exceptions, crashes and lost publishes in a behaviour
  NoJob

Locked == "locked"
Unlocked == "unlocked"
Unknown == "unknown"
Unset == "unset"
Toggle == "toggle"

Power == {Locked, Unlocked}
LockStates == Power \cup {Unknown}
Sources == {"card", "mqtt", "webhook", "lock_api", "reader_api", "area", "dashboard"}
Job == [reader : Reader, target : Power \cup {Toggle}, relock : BOOLEAN,
        tries : 0..MaxTries]
Stage == {"idle", "decide", "write", "expect", "record", "build", "send", "event", "relock", "ack"}
Status == {"lock_locked", "lock_unlocked", "lock_command_failed", "lock_state_reconciled"}

ASSUME WiringAssumption ==
  /\ Outputs \in [Reader -> Seq(Channel)]
  /\ StoredLocks \in [Reader -> Seq(Lock)]
  /\ TopicLocks \in [Reader -> Seq(Lock)]
  /\ AreaReader \in [Lock -> SUBSET Reader]
  /\ BoundReader \in [Lock -> SUBSET Reader]
  /\ MonitorReader \in [Lock -> SUBSET Reader]
  /\ Autolock \subseteq Reader
  /\ Illegible \subseteq Channel

ASSUME BoundAssumption ==
  /\ MaxTries \in Nat \ {0}
  /\ MaxRequests \in Nat
  /\ FaultBudget \in Nat
  /\ NoJob \notin Job
  /\ NoJob \notin JobId

VARIABLES
  output,     \* [Channel -> Power] the lock outputs
  expected,   \* [Reader -> ..] readers.metadata lock_state.expected_lock_power
  lockState,  \* [Lock -> ..] locks.metadata lock_state, as LockStateStore::forLock reads it
  retained,   \* [Lock -> ..] state in the retained message of the lock's topic
  audit,      \* the <<reader, status>> of the lock events recorded so far
  jobs,       \* [JobId -> Job or NoJob] payloads of the jobs not yet deleted
  ready,      \* Seq(JobId) the queue
  delayed,    \* set of JobId waiting for a backoff, a relock delay or redelivery
  pc, holds,  \* each worker's step and reserved job
  goal,       \* the lock state the job decided on
  at,         \* position in the list the step walks through
  snap,       \* lock states in the payloads being published
  autoOpened, \* history: channels standing open by an auto-relocking unlock
  requests, faults

deviceVars == <<output, autoOpened>>
storeVars == <<expected, lockState, retained, audit>>
queueVars == <<jobs, ready, delayed>>
workerVars == <<pc, holds, goal, at, snap>>
vars == <<deviceVars, storeVars, queueVars, workerVars, requests, faults>>

Blank == [l \in Lock |-> Unknown]
Live(j) == jobs[j] # NoJob
Held(w) == jobs[holds[w]]
Opposite(s) == IF s = Locked THEN Unlocked ELSE Locked
ElementsOf(s) == {s[i] : i \in DOMAIN s}
Drives(r) == ElementsOf(Outputs[r])

\* A worker walks a list within its bounds, and starts every walk at its head.
Walking(w) ==
  /\ pc[w] = "write" => at[w] <= Len(Outputs[Held(w).reader])
  /\ pc[w] = "record" => at[w] <= Len(StoredLocks[Held(w).reader])
  /\ pc[w] = "send" => at[w] <= Len(TopicLocks[Held(w).reader])
  /\ pc[w] \notin {"write", "record", "send"} => at[w] = 1

TypeOK ==
  /\ output \in [Channel -> Power]
  /\ expected \in [Reader -> Power \cup {Unset}]
  /\ lockState \in [Lock -> LockStates]
  /\ retained \in [Lock -> LockStates]
  /\ audit \subseteq Reader \X Status
  /\ jobs \in [JobId -> Job \cup {NoJob}]
  /\ ready \in Seq(JobId)
  /\ delayed \subseteq JobId
  /\ pc \in [Worker -> Stage]
  /\ holds \in [Worker -> JobId \cup {NoJob}]
  /\ goal \in [Worker -> Power]
  /\ at \in [Worker -> Nat \ {0}]
  /\ snap \in [Worker -> [Lock -> LockStates]]
  /\ autoOpened \subseteq Channel
  /\ requests \in 0..MaxRequests
  /\ faults \in 0..FaultBudget
  /\ \A w \in Worker : Walking(w)

\* A fresh installation, the doors in whatever position they are.
Init ==
  /\ output \in [Channel -> Power]
  /\ expected = [r \in Reader |-> Unset]
  /\ lockState = Blank
  /\ retained = Blank
  /\ audit = {}
  /\ jobs = [j \in JobId |-> NoJob]
  /\ ready = <<>>
  /\ delayed = {}
  /\ pc = [w \in Worker |-> "idle"]
  /\ holds = [w \in Worker |-> NoJob]
  /\ goal = [w \in Worker |-> Locked]
  /\ at = [w \in Worker |-> 1]
  /\ snap = [w \in Worker |-> Blank]
  /\ autoOpened = {}
  /\ requests = 0
  /\ faults = 0

-----------------------------------------------------------------------------
(***************************************************************************)
(* Entry points.  Each dispatches ProcessReaderEvent(reader, target,       *)
(* allowAutoRelock); the audit event of the request itself is left out.    *)
(***************************************************************************)
HasRoom == \E j \in JobId : ~Live(j)
FreeId == CHOOSE j \in JobId : ~Live(j)
NewJob(r, target, relock) ==
  [reader |-> r, target |-> target, relock |-> relock, tries |-> 0]

Dispatch(source, r, target, relock) ==
  /\ source \in EntryPoints
  /\ requests < MaxRequests
  /\ HasRoom
  /\ requests' = requests + 1
  /\ jobs' = [jobs EXCEPT ![FreeId] = NewJob(r, target, relock)]
  /\ ready' = Append(ready, FreeId)
  /\ UNCHANGED <<deviceVars, storeVars, delayed, workerVars, faults>>

\* A card accepted at the reader toggles the door.
CardGranted(r) == Dispatch("card", r, Toggle, TRUE)

\* An MQTT command on the lock's topic.
MqttCommand(l) ==
  \E r \in MonitorReader[l], target \in Power \cup {Toggle} :
    Dispatch("mqtt", r, target, TRUE)

\* A Home Assistant webhook for the lock.
WebhookLock(l) == \E r \in BoundReader[l] : Dispatch("webhook", r, Locked, FALSE)
WebhookUnlock(l) == \E r \in BoundReader[l] : Dispatch("webhook", r, Unlocked, TRUE)

\* The lock endpoints of the API.  Their toggle endpoint fails before it dispatches.
LockApi(l) ==
  \E r \in AreaReader[l], target \in Power : Dispatch("lock_api", r, target, FALSE)

\* The reader endpoints of the API: an unlock names allow_auto_relock.
ReaderApi(r) ==
  \/ Dispatch("reader_api", r, Locked, FALSE)
  \/ \E relock \in BOOLEAN : Dispatch("reader_api", r, Unlocked, relock)

\* Lock and unlock of a whole area in the admin pages.
AreaControl(l) ==
  \E r \in AreaReader[l] :
    \/ Dispatch("area", r, Locked, FALSE)
    \/ Dispatch("area", r, Unlocked, TRUE)

\* The dashboard card: asks for the opposite of the first output's live state.
DashboardToggle(r) ==
  /\ Outputs[r] # <<>>
  /\ LET target == Opposite(output[Outputs[r][1]])
     IN  Dispatch("dashboard", r, target, target = Unlocked)

Request ==
  \/ \E r \in Reader : CardGranted(r) \/ ReaderApi(r) \/ DashboardToggle(r)
  \/ \E l \in Lock : \/ MqttCommand(l) \/ WebhookLock(l) \/ WebhookUnlock(l)
                     \/ LockApi(l) \/ AreaControl(l)

-----------------------------------------------------------------------------
(***************************************************************************)
(* The queue and the worker loop.                                          *)
(***************************************************************************)

Fault == faults < FaultBudget /\ faults' = faults + 1

\* A delayed job falls due and joins the end of the queue.
Mature(j) ==
  /\ j \in delayed
  /\ delayed' = delayed \ {j}
  /\ ready' = Append(ready, j)
  /\ UNCHANGED <<deviceVars, storeVars, jobs, workerVars, requests, faults>>

\* The worker lets go of its job.
Rest(w) ==
  /\ pc' = [pc EXCEPT ![w] = "idle"]
  /\ holds' = [holds EXCEPT ![w] = NoJob]
  /\ goal' = [goal EXCEPT ![w] = Locked]
  /\ at' = [at EXCEPT ![w] = 1]
  /\ snap' = [snap EXCEPT ![w] = Blank]

\* The job fails for good: failed() records lock_command_failed.
FailJob(j) ==
  /\ jobs' = [jobs EXCEPT ![j] = NoJob]
  /\ audit' = audit \cup {<<jobs[j].reader, "lock_command_failed">>}

\* A worker pops the next job; one that has used up its attempts is failed unrun.
Reserve(w) ==
  /\ pc[w] = "idle"
  /\ ready # <<>>
  /\ ready' = Tail(ready)
  /\ LET j == Head(ready)
     IN  IF jobs[j].tries >= MaxTries
         THEN FailJob(j) /\ UNCHANGED workerVars
         ELSE /\ jobs' = [jobs EXCEPT ![j].tries = @ + 1]
              /\ pc' = [pc EXCEPT ![w] = "decide"]
              /\ holds' = [holds EXCEPT ![w] = j]
              /\ UNCHANGED <<audit, goal, at, snap>>
  /\ UNCHANGED <<deviceVars, expected, lockState, retained, delayed, requests, faults>>

\* Slip: a job that throws is not released back to the queue.
ThrowUnreleased(w) ==
  /\ pc[w] \notin {"idle", "ack"}
  /\ Fault
  /\ Rest(w)
  /\ IF Held(w).tries < MaxTries
     THEN UNCHANGED <<jobs, audit, delayed>>
     ELSE FailJob(holds[w]) /\ UNCHANGED delayed
  /\ UNCHANGED <<deviceVars, expected, lockState, retained, ready, requests>>

\* handle() throws: released with a backoff, or failed when this was the last try.
Throw(w) ==
  /\ pc[w] \notin {"idle", "ack"}
  /\ Fault
  /\ Rest(w)
  /\ IF Held(w).tries < MaxTries
     THEN delayed' = delayed \cup {holds[w]} /\ UNCHANGED <<jobs, audit>>
     ELSE FailJob(holds[w]) /\ UNCHANGED delayed
  /\ UNCHANGED <<deviceVars, expected, lockState, retained, ready, requests>>

\* The worker process dies; the queue redelivers the reserved job later.
Crash(w) ==
  /\ pc[w] # "idle"
  /\ Fault
  /\ Rest(w)
  /\ delayed' = delayed \cup {holds[w]}
  /\ UNCHANGED <<deviceVars, storeVars, jobs, ready, requests>>

\* handle() has returned: the worker deletes the job.
Acknowledge(w) ==
  /\ Rest(w)
  /\ jobs' = [jobs EXCEPT ![holds[w]] = NoJob]
  /\ UNCHANGED <<deviceVars, storeVars, ready, delayed, requests, faults>>

Ack(w) == pc[w] = "ack" /\ Acknowledge(w)

-----------------------------------------------------------------------------
(***************************************************************************)
(* The steps of ProcessReaderEvent::handle.                                *)
(***************************************************************************)

\* No output is bound to the reader: handle() returns without a trace.
DropUnbound(w) == pc[w] = "decide" /\ Outputs[Held(w).reader] = <<>> /\ Acknowledge(w)

\* The new state: the one asked for, or the opposite of the first legible reading.
newLocked(job, legible) ==
  IF job.target # Toggle THEN job.target
  ELSE IF legible = {} THEN Locked
  ELSE LET first == CHOOSE i \in legible : \A k \in legible : i <= k
       IN  Opposite(output[Outputs[job.reader][first]])

\* setLockState reads every output; a reading may be illegible.  Only the first
\* legible one can decide anything, so the reads are one step.
Decide(w) ==
  /\ pc[w] = "decide"
  /\ Outputs[Held(w).reader] # <<>>
  /\ \E legible \in SUBSET DOMAIN Outputs[Held(w).reader] :
       /\ \A i \in DOMAIN Outputs[Held(w).reader] \ legible :
            Outputs[Held(w).reader][i] \in Illegible
       /\ goal' = [goal EXCEPT ![w] = newLocked(Held(w), legible)]
  /\ pc' = [pc EXCEPT ![w] = "write"]
  /\ UNCHANGED <<deviceVars, storeVars, queueVars, holds, at, snap, requests, faults>>

\* Slip: a walk goes one element too far.
AdvanceTooFar(w, list, next) ==
  IF at[w] <= Len(list)
  THEN at' = [at EXCEPT ![w] = @ + 1] /\ UNCHANGED pc
  ELSE at' = [at EXCEPT ![w] = 1] /\ pc' = [pc EXCEPT ![w] = next]

\* Go on to the next element of the list, or to the next stage after the last.
Advance(w, list, next) ==
  IF at[w] < Len(list)
  THEN at' = [at EXCEPT ![w] = @ + 1] /\ UNCHANGED pc
  ELSE at' = [at EXCEPT ![w] = 1] /\ pc' = [pc EXCEPT ![w] = next]

\* Whether the job schedules a relock once it has unlocked.
Relocks(job) == job.relock /\ job.reader \in Autolock

\* Slip: only the first output of a door with several is driven.
WriteFirstOutput(w) ==
  /\ pc[w] = "write"
  /\ LET c == Outputs[Held(w).reader][1]
     IN  /\ output' = [output EXCEPT ![c] = goal[w]]
         /\ autoOpened' = IF goal[w] = Unlocked /\ Relocks(Held(w))
                          THEN autoOpened \cup {c} ELSE autoOpened \ {c}
  /\ pc' = [pc EXCEPT ![w] = "expect"]
  /\ UNCHANGED <<storeVars, queueVars, holds, goal, at, snap, requests, faults>>

\* setLockState writes the outputs one after the other.
Write(w) ==
  /\ pc[w] = "write"
  /\ LET c == Outputs[Held(w).reader][at[w]]
     IN  /\ output' = [output EXCEPT ![c] = goal[w]]
         /\ autoOpened' = IF goal[w] = Unlocked /\ Relocks(Held(w))
                          THEN autoOpened \cup {c} ELSE autoOpened \ {c}
  /\ Advance(w, Outputs[Held(w).reader], "expect")
  /\ UNCHANGED <<storeVars, queueVars, holds, goal, snap, requests, faults>>

\* ExpectedLockStateStore::storeExpectedLockPower on the reloaded reader.
StoreExpected(w) ==
  /\ pc[w] = "expect"
  /\ expected' = [expected EXCEPT ![Held(w).reader] = goal[w]]
  /\ pc' = [pc EXCEPT ![w] = IF StoredLocks[Held(w).reader] = <<>> THEN "build" ELSE "record"]
  /\ UNCHANGED <<deviceVars, lockState, retained, audit, queueVars,
                 holds, goal, at, snap, requests, faults>>

\* LockStateStore::storeForReader saves the locks one after the other.
RecordLockState(w) ==
  /\ pc[w] = "record"
  /\ lockState' = [lockState EXCEPT ![StoredLocks[Held(w).reader][at[w]]] = goal[w]]
  /\ Advance(w, StoredLocks[Held(w).reader], "build")
  /\ UNCHANGED <<deviceVars, expected, retained, audit, queueVars,
                 holds, goal, snap, requests, faults>>

\* publishLocksForReader loads the locks whose state it is about to publish.
BuildPayloads(w) ==
  /\ pc[w] = "build"
  /\ LET locks == TopicLocks[Held(w).reader]
     IN  /\ snap' = [snap EXCEPT ![w] =
                       [l \in Lock |-> IF l \in ElementsOf(locks) THEN lockState[l] ELSE Unknown]]
         /\ pc' = [pc EXCEPT ![w] = IF locks = <<>> THEN "event" ELSE "send"]
  /\ UNCHANGED <<deviceVars, storeVars, queueVars, holds, goal, at, requests, faults>>

\* One retained publish per lock; a publish that fails is logged and forgotten.
SendPayload(w) ==
  /\ pc[w] = "send"
  /\ LET l == TopicLocks[Held(w).reader][at[w]]
     IN  \/ retained' = [retained EXCEPT ![l] = snap[w][l]] /\ UNCHANGED faults
         \/ Fault /\ UNCHANGED retained
  /\ Advance(w, TopicLocks[Held(w).reader], "event")
  /\ UNCHANGED <<deviceVars, expected, lockState, audit, queueVars,
                 holds, goal, snap, requests>>

\* Slip: a command that does not unlock leaves no event.
RecordEventOfUnlock(w) ==
  /\ pc[w] = "event"
  /\ audit' = IF goal[w] = Unlocked
              THEN audit \cup {<<Held(w).reader, "lock_unlocked">>} ELSE audit
  /\ pc' = [pc EXCEPT ![w] = "relock"]
  /\ UNCHANGED <<deviceVars, expected, lockState, retained, queueVars,
                 holds, goal, at, snap, requests, faults>>

\* The lock event of the new state.
RecordEvent(w) ==
  /\ pc[w] = "event"
  /\ audit' = audit \cup {<<Held(w).reader,
                            IF goal[w] = Unlocked THEN "lock_unlocked" ELSE "lock_locked">>}
  /\ pc' = [pc EXCEPT ![w] = "relock"]
  /\ UNCHANGED <<deviceVars, expected, lockState, retained, queueVars,
                 holds, goal, at, snap, requests, faults>>

\* Slip: only the first attempt of a job schedules the relock.
RelockOnFirstTry(w) ==
  /\ pc[w] = "relock"
  /\ IF goal[w] = Unlocked /\ Relocks(Held(w)) /\ Held(w).tries = 1
     THEN /\ HasRoom
          /\ jobs' = [jobs EXCEPT ![FreeId] = NewJob(Held(w).reader, Locked, FALSE)]
          /\ delayed' = delayed \cup {FreeId}
     ELSE UNCHANGED <<jobs, delayed>>
  /\ pc' = [pc EXCEPT ![w] = "ack"]
  /\ UNCHANGED <<deviceVars, storeVars, ready, holds, goal, at, snap, requests, faults>>

\* The delayed relock job when the door was unlocked; handle() returns.
ScheduleRelock(w) ==
  /\ pc[w] = "relock"
  /\ IF goal[w] = Unlocked /\ Relocks(Held(w))
     THEN /\ HasRoom
          /\ jobs' = [jobs EXCEPT ![FreeId] = NewJob(Held(w).reader, Locked, FALSE)]
          /\ delayed' = delayed \cup {FreeId}
     ELSE UNCHANGED <<jobs, delayed>>
  /\ pc' = [pc EXCEPT ![w] = "ack"]
  /\ UNCHANGED <<deviceVars, storeVars, ready, holds, goal, at, snap, requests, faults>>

-----------------------------------------------------------------------------
Run(w) ==
  \/ Reserve(w) \/ DropUnbound(w) \/ Decide(w) \/ Write(w) \/ StoreExpected(w)
  \/ RecordLockState(w) \/ BuildPayloads(w) \/ SendPayload(w) \/ RecordEvent(w)
  \/ ScheduleRelock(w) \/ Ack(w)

Next ==
  \/ Request
  \/ \E j \in JobId : Mature(j)
  \/ \E w \in Worker : Run(w) \/ Throw(w) \/ Crash(w)

\* Supervisor keeps the workers running, and delays end; nobody has to send
\* commands and nothing has to fail.
Fairness ==
  /\ \A j \in JobId : WF_vars(Mature(j))
  /\ \A w \in Worker : WF_vars(Run(w))

Spec == Init /\ [][Next]_vars /\ Fairness
-----------------------------------------------------------------------------
(***************************************************************************)
(* Properties.                                                             *)
(***************************************************************************)

InHand == {holds[w] : w \in {v \in Worker : pc[v] # "idle"}}

\* No command is lost or run twice at once: a job that is not deleted is either
\* queued once, or delayed, or held by exactly one worker (Queue::pop, release,
\* delete as the worker loop uses them for ProcessReaderEvent).
JobPlacement ==
  /\ \A i, k \in DOMAIN ready : ready[i] = ready[k] => i = k
  /\ \A v, w \in Worker : pc[v] # "idle" /\ pc[w] # "idle" /\ holds[v] = holds[w] => v = w
  /\ ElementsOf(ready) \cap delayed = {}
  /\ ElementsOf(ready) \cap InHand = {}
  /\ delayed \cap InHand = {}
  /\ {j \in JobId : Live(j)} = ElementsOf(ready) \cup delayed \cup InHand

CommandFailed(r) == <<r, "lock_command_failed">> \in audit

\* A worker that has not got past channel c, or that will schedule the relock.
StillOwes(w, c) ==
  \/ pc[w] = "decide"
  \/ pc[w] = "write" /\ \E i \in at[w]..Len(Outputs[Held(w).reader]) :
                           Outputs[Held(w).reader][i] = c
  \/ /\ pc[w] \in {"write", "expect", "record", "build", "send", "event", "relock"}
     /\ goal[w] = Unlocked
     /\ Relocks(Held(w))

\* Job j will yet write channel c or schedule a job that does.
Owes(j, c) ==
  /\ Live(j)
  /\ c \in Drives(jobs[j].reader)
  /\ \A w \in Worker : pc[w] # "idle" /\ holds[w] = j => StillOwes(w, c)

\* A door opened by an unlock that should relock is never left to itself: while it
\* stands open some job is still going to write its output or to schedule the
\* relock, or a lock_command_failed event tells of a reader of that door.
AutoRelockOwed ==
  \A c \in autoOpened :
    \/ \E j \in JobId : Owes(j, c)
    \/ \E r \in Reader : c \in Drives(r) /\ CommandFailed(r)

\* A stored expectation is never silent: once a job has set a reader's expected
\* state, the event log has an entry for the reader or the job is still under way.
ExpectationAudited ==
  \A r \in Reader : expected[r] # Unset =>
    \/ \E s \in Status : <<r, s>> \in audit
    \/ \E j \in JobId : Live(j) /\ jobs[j].reader = r /\ jobs[j].tries > 0

Settled(r) ==
  /\ \A w \in Worker : pc[w] = "idle"
  /\ \A j \in JobId : Live(j) => jobs[j].tries = 0
  /\ ~CommandFailed(r)

\* With a single worker, whenever no job is running or waiting for a retry, the
\* four places that hold the door's state agree: the reader's expected state, all
\* its outputs, the locks' stored state and, if no publish was lost, the broker's.
SettledAgreement ==
  \A r \in Reader : Settled(r) /\ expected[r] # Unset =>
    /\ \A c \in Drives(r) : output[c] = expected[r]
    /\ \A l \in ElementsOf(StoredLocks[r]) : lockState[l] = expected[r]
    /\ faults = 0 => \A l \in ElementsOf(TopicLocks[r]) : retained[l] = lockState[l]

\* How far the command of job j is, for a caller who sees neither queue nor worker.
Phase(j) ==
  IF ~Live(j) THEN "absent"
  ELSE IF j \notin InHand THEN "waiting"
  ELSE IF \E w \in Worker : holds[w] = j /\ pc[w] \in {"relock", "ack"} THEN "reported"
  ELSE "running"

CommandOf(j) ==
  [phase |-> Phase(j),
   tries |-> IF Live(j) THEN jobs[j].tries ELSE 0,
   reader |-> IF Live(j) THEN jobs[j].reader ELSE NoJob]

commands == [j \in JobId |-> CommandOf(j)]
carriedOut == {r \in Reader : \E s \in {"lock_locked", "lock_unlocked"} : <<r, s>> \in audit}
givenUp == {r \in Reader : CommandFailed(r)}

C == INSTANCE CommandJobs WITH
  cmd <- commands, done <- carriedOut, failed <- givenUp,
  Driving <- {r \in Reader : Outputs[r] # <<>>}, Nobody <- NoJob

\* Queue, workers and ProcessReaderEvent keep what a caller of a lock command is
\* promised: through exceptions, crashes and redelivery a command is attempted one
\* attempt at a time and $tries times at most, ends with the event of its own
\* attempt or with the one failed() records, and does end.
CommandsKept == C!Spec

\* Every door opened by an unlock that should relock is eventually closed or opened
\* for good by a later command, unless lock_command_failed is recorded for it.
AutoRelockHappens ==
  \A c \in Channel : c \in autoOpened ~>
    (c \notin autoOpened \/ \E r \in Reader : c \in Drives(r) /\ CommandFailed(r))

\* A retry lets a transient failure recover (ProcessReaderEvent.php:25): a single
\* accepted card leaves the door in the state opposite to the one it found.
ToggleTakesEffect ==
  \A c \in Channel, s \in Power : output[c] = s =>
    []((/\ requests = 1
        /\ \A j \in JobId : ~Live(j)
        /\ \A r \in Reader : ~CommandFailed(r)) => output[c] # s)
=============================================================================
