-------------------------- MODULE AutolockSettings --------------------------
(***************************************************************************)
(* The auto-lock settings of a lock: the default of its area, the override *)
(* in the config column of the lock, every page, API and command that      *)
(* changes one of them, and the lock's retained message, which carries     *)
(* what they resolve to beside the lock state that the workers write into  *)
(* the metadata column of the same row.                                    *)
(*                                                                         *)
(* A JSON column is read and written whole, and a save writes the columns  *)
(* that differ from the row as it was read.                                *)
(*                                                                         *)
(* Of the locks of an area the model follows one.  A reader publishes the  *)
(* locks its outputs name, or else the area's primary lock; which outputs  *)
(* there are is left out, so that what goes through readers may publish    *)
(* this lock or not.                                                       *)
(***************************************************************************)
EXTENDS RetainedStates

CONSTANTS
  Duration,  \* seconds that are asked for, some above the limit
  Unset,     \* no override
  Keep,      \* a field that a request leaves out
  Readers    \* bound: readers of the area that publish the lock

Limit == 3600

ASSUME DurationsAreSeconds == Duration \subseteq Nat

ASSUME ReadersAreCounted == Readers \in Nat \ {0}

ASSUME MarksDiffer == Unset \notin BOOLEAN \cup Nat /\ Keep \notin BOOLEAN \cup Nat \cup {Unset}

VARIABLES
  area,  \* the area's default
  lock,  \* the lock's row: its override (config) and state (metadata)
  jobs   \* how often each job is queued

lockVars == <<area, lock, jobs>>

Seconds == Duration \cup {0, Limit}

Setting == [enabled : BOOLEAN, duration : Seconds]
Override == [enabled : BOOLEAN \cup {Unset}, duration : Seconds \cup {Unset}]
LockRow == [config : Override, power : {0, 1}]

Clamp(d) == IF d > Limit THEN Limit ELSE d

\* AutolockSettingsResolver::resolveForAreaAndLock, each field on its own.
Resolve(a, l) ==
  [enabled |-> IF l.config.enabled = Unset THEN a.enabled ELSE l.config.enabled,
   duration |-> IF l.config.duration = Unset THEN a.duration ELSE l.config.duration,
   source |-> IF l.config.enabled = Unset /\ l.config.duration = Unset
              THEN "area_default" ELSE "lock_override"]

\* Slip: the duration is not limited.
PayloadUnlimited(a, l) ==
  LET autolock == Resolve(a, l)
  IN  [power |-> l.power, enabled |-> autolock.enabled,
       duration |-> autolock.duration, source |-> autolock.source]

buildLockStatePayload(a, l) ==
  LET autolock == Resolve(a, l)
  IN  [power |-> l.power, enabled |-> autolock.enabled,
       duration |-> Clamp(autolock.duration), source |-> autolock.source]

-----------------------------------------------------------------------------
(***************************************************************************)
(* Requests.  The fields a request leaves out are Keep; the lock form can  *)
(* also take an override away, and posts the metadata it was rendered      *)
(* with, which may be of any age.                                          *)
(***************************************************************************)
Accepted == {d \in Duration : d <= Limit}

Half(durations) ==
  [enabled : BOOLEAN, duration : {Keep}] \cup [enabled : {Keep}, duration : durations]

Asks(k, fields) == {[kind |-> k, enabled |-> f.enabled, duration |-> f.duration] : f \in fields}

HomeAssistantCommand == Asks("ha", Half(Accepted))

MqttAutolock ==
  Asks("mqtt", Half(Accepted) \cup [enabled : BOOLEAN, duration : Accepted])

LockApiAutolock == Asks("lock_api", [enabled : BOOLEAN, duration : Accepted])

LockForm ==
  [kind : {"lock_form"}, enabled : BOOLEAN \cup {Unset}, duration : Duration \cup {Unset},
   power : {0, 1}]

\* The form of the area, and its API, which accepts what is within the limit.
AreaForm == Asks("area_form", [enabled : BOOLEAN, duration : Duration])

AreaPageAutolock == Asks("area_page", [enabled : BOOLEAN, duration : Duration])

\* A duration that is null is taken as 0.
ReaderApiAutolock ==
  Asks("reader_api", [enabled : BOOLEAN, duration : Duration \cup {0, Keep}])

ToggleAutolock == [kind : {"toggle"}, enabled : {Keep}, duration : {Keep}]

OfLock == {"ha", "mqtt", "lock_api", "lock_form", "state"}

\* A job of a reader's command that gives the lock a state, and the job that
\* publishes the locks of a reader, this one among them.
StateJob == [kind : {"state"}, power : {0, 1}]
PublishLocksForReader == [kind |-> "publish"]
Job == StateJob \cup {PublishLocksForReader}

FirstRead(t) ==
  CASE t.kind = "publish" -> "fresh"
    [] t.kind \in OfLock -> "readLock"
    [] OTHER -> "readArea"

Receive(p, t) ==
  /\ Count("lock")
  /\ Begin(p, t, FirstRead(t))
  /\ Calm /\ UNCHANGED <<mem, retained, faults, lockVars>>

\* Commands of readers queue the jobs; so do, for the second one, the pages of
\* readers, locks and bindings.
QueueJob(j) ==
  /\ Count("lock")
  /\ jobs' = [jobs EXCEPT ![j] = @ + 1]
  /\ Calm /\ UNCHANGED <<pc, task, mem, retained, faults, area, lock>>

TakeJob(p, j) ==
  /\ jobs[j] > 0 /\ jobs' = [jobs EXCEPT ![j] = @ - 1]
  /\ Begin(p, j, FirstRead(j))
  /\ Calm /\ UNCHANGED <<mem, retained, requests, faults, area, lock>>

-----------------------------------------------------------------------------
(***************************************************************************)
(* Reading and saving.                                                     *)
(***************************************************************************)
ReadLock(p) ==
  /\ pc[p] = "readLock"
  /\ Continue(p, IF task[p].kind \in {"ha", "mqtt"} THEN "readArea" ELSE "save",
              [mem[p] EXCEPT !.lock = lock])
  /\ Calm /\ UNCHANGED <<retained, requests, faults, lockVars>>

ReadArea(p) ==
  /\ pc[p] = "readArea"
  /\ Continue(p, "save", [mem[p] EXCEPT !.area = area])
  /\ Calm /\ UNCHANGED <<retained, requests, faults, lockVars>>

\* Slip: what is left out is taken from the override alone.
OverrideOfOverride(t, a, l) ==
  [enabled |-> IF t.enabled = Keep THEN l.config.enabled = TRUE ELSE t.enabled,
   duration |-> IF t.duration = Keep THEN IF l.config.duration = Unset THEN 0 ELSE l.config.duration
                ELSE t.duration]

\* The override a request asks for: what it leaves out is pinned to what is
\* in force, which only Home Assistant's handler limits first.
OverrideAsked(t, a, l) ==
  LET current == Resolve(a, l)
  IN  [enabled |-> IF t.enabled = Keep THEN current.enabled ELSE t.enabled,
       duration |-> IF t.duration # Keep THEN t.duration
                    ELSE IF t.kind = "ha" THEN Clamp(current.duration) ELSE current.duration]

\* The default a request asks for.  A toggle turns what it read.
DefaultAsked(t, a) ==
  [enabled |-> IF t.kind = "toggle" THEN ~a.enabled ELSE t.enabled,
   duration |-> IF t.duration = Keep THEN a.duration ELSE t.duration]

\* Slip: the whole row is written.
SavedWhole(new, read, row) == new

\* Model::save: the columns that differ from the row as read.
Saved(new, read, row) ==
  [config |-> IF new.config # read.config THEN new.config ELSE row.config,
   power |-> IF new.power # read.power THEN new.power ELSE row.power]

\* The row after a request that saves the lock, or the job that stores its
\* state, whose new timestamp makes the metadata differ in any case.  What a
\* form posts may differ by its timestamp alone.
LockSaved(p) ==
  LET t == task[p]
      read == mem[p].lock
      state == IF t.kind \in {"state", "lock_form"} THEN t.power ELSE read.power
      config == IF t.kind = "state" THEN read.config ELSE OverrideAsked(t, mem[p].area, read)
      row == Saved([config |-> config, power |-> state], read, lock)
      whole == [row EXCEPT !.power = state]
  IN  CASE t.kind = "state" -> {whole}
        [] t.kind = "lock_form" -> {row, whole}
        [] OTHER -> {row}

\* The lock's API and form and the area's API and form publish nothing.
Silent == {"lock_api", "lock_form", "area_form"}

\* Where a handler goes after its save.  The pages that switch an area's default
\* queue a publish for each reader of the area, of which none may publish this
\* lock; nor may the reader of the API, or that of a command, whose outputs may
\* be switched off.
AfterSave(t) ==
  IF t.kind \in Silent THEN {"idle"}
  ELSE IF t.kind \in {"area_page", "toggle"} THEN {"idle", "enqueue"}
  ELSE IF t.kind \in {"reader_api", "state"} THEN {"idle", "fresh"}
  ELSE {"fresh"}

Save(p) ==
  /\ pc[p] = "save"
  /\ IF task[p].kind \in OfLock
     THEN lock' \in LockSaved(p) /\ UNCHANGED area
     ELSE LET asked == DefaultAsked(task[p], mem[p].area)
          IN  area' = (IF asked # mem[p].area THEN asked ELSE area) /\ UNCHANGED lock
  /\ \E next \in AfterSave(task[p]) :
       /\ Continue(p, next, NoRows)
       /\ IF next = "idle" THEN Disturb("lock") ELSE Calm
  /\ UNCHANGED <<retained, requests, faults, jobs>>

\* Slip: a toggle forgets the publish.
EnqueueOfPage(p) ==
  /\ pc[p] = "enqueue"
  /\ jobs' = IF task[p].kind = "toggle" THEN jobs ELSE [jobs EXCEPT ![PublishLocksForReader] = @ + 1]
  /\ Step(p, "idle")
  /\ Calm /\ UNCHANGED <<retained, requests, faults, area, lock>>

Enqueue(p) ==
  /\ pc[p] = "enqueue"
  /\ \E n \in 1..Readers : jobs' = [jobs EXCEPT ![PublishLocksForReader] = @ + n]
  /\ Step(p, "idle")
  /\ Calm /\ UNCHANGED <<retained, requests, faults, area, lock>>

-----------------------------------------------------------------------------
(***************************************************************************)
(* Publishing the lock.                                                    *)
(***************************************************************************)

ReadFresh(p) ==
  /\ pc[p] = "fresh"
  /\ Open(p, "lock") /\ Continue(p, "freshArea", [mem[p] EXCEPT !.lock = lock])
  /\ UNCHANGED <<retained, requests, faults, lockVars>>

\* The fresh model has no area yet: the relation is read when it is needed.
ReadFreshArea(p) ==
  /\ pc[p] = "freshArea"
  /\ Continue(p, "lockSend", [mem[p] EXCEPT !.area = area])
  /\ Calm /\ UNCHANGED <<retained, requests, faults, lockVars>>

SendLock(p, arrives) ==
  /\ pc[p] = "lockSend"
  /\ Transmit("lock", buildLockStatePayload(mem[p].area, mem[p].lock), arrives)
  /\ disturbed' = [disturbed EXCEPT !["lock"] = IF arrives THEN @ /\ lone["lock"] # p ELSE TRUE]
  /\ Continue(p, IF task[p].kind = "publish_all" THEN "readSensor" ELSE "idle", NoRows)
  /\ UNCHANGED <<lone, requests, lockVars>>
=============================================================================
