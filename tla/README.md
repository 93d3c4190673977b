# aurora-access-core in TLA+

This directory models the core of aurora-access-core (a Laravel package that
controls doors): who is let in, how readers are wired to locks, how lights are
switched, and above all what a lock command does from the moment a card, a button, an MQTT
message or an API call asks for it until the door, the database and the broker
agree about it, and what happens when workers crash, jobs are retried, publishes
are lost and the scheduled reconciler runs at the same time. Beside that it
models the auto-lock settings and sensor states with everything that publishes
them, and the scripts of the administration's list pages.

Paths below are relative to the package (`src/src/...` in PROJECT.json is
`src/...` here).

## 1. Inventory

| part | state it keeps | operations | correct when |
|---|---|---|---|
| Lock command job (`Jobs/ProcessReaderEvent`, `AccessOutputOrchestrator`, `ExpectedLockStateStore`, `LockStateStore`) | lock outputs; `readers.metadata.lock_state`; `locks.metadata.lock_state`; events; the queued jobs | `handle`, `failed`, delayed self-dispatch for the auto-relock | the four records of a door's state agree once its commands are done; every unlock that should relock does or leaves a failure event; no command is lost, or run twice at once |
| Entry points (card, MQTT monitor, webhook, lock/reader API, area pages, dashboard) | none of their own | choose a reader, a target and the relock flag, dispatch the job | the reader they choose drives the lock they were asked for |
| Topology (`AccessBindingResolver`, `Reader::targetLocks`, `Area::primaryLock`, ...) | `readers`, `locks`, `reader_lock_bindings`, `adapter_bindings` | five look-alike queries | a command stores and publishes the locks it drives |
| Reconciler (`ReconcileReaderLockState`, every minute) | the pass in progress | read, seed, correct, republish | drift is repaired for good; a newer command is never undone |
| MQTT publisher | retained messages; cache of published sensor states | publish lock, sensor, light, all | the retained message tells the stored state; a state the cache holds back was published |
| MQTT monitor | its connection; the rows of the command it handles | publish all at the start, dispatch lock commands, set autolock, light commands | after a restart everything is published again; a command about one half of a setting keeps the other |
| Card decision (`HandleAccessRequest`) | events | look up card and reader, count the user's permissions, read the latest for the area, record, dispatch | the answer was right at some moment of the request; no door opens unrecorded; reader and API answer alike |
| Signal mapping (`SignalValueMapper`) | none | canonical state to wire value and back | reading what was written gives what was meant |
| Autolock settings | the area's default; the override in the lock's `config` column | resolve, set (eight handlers), publish | lock over area, field by field; what is retained is what they resolve to; settings and lock state, which share a row, do not undo each other |
| Sensors | the sensor's row; its retained message; the cache of what was published | report, form, publish | the retained message tells the row although unchanged reports are not published |
| List pages (`resources/js/admin.js`, `datatables.js`) | the document, its table, the queries on their way, the session's token | set up the table, move its controls, search, delete | the controls end in the footer, the table shows what the box says, a confirmed deletion happens once |
| Lights (`ProcessLightEvent`, API, webhook, MQTT) | the light's row; its retained message | save, dispatch, save again, publish | the row ends as last commanded and the retained message tells it |
| Reader feedback | outputs | pulse and reset | the output comes to rest when the last pulse ends |
| Wiring administration (locks, readers, bindings, areas, permissions) | the topology tables, soft deletion; `readers.metadata` | create, update, delete, restore | one primary lock per area; re-adding works; live state survives a form |
| Settings repository | settings and their cache | get, set | a read after an update sees it |
| Home Assistant, health, supervisor, registries, users, pages | one setting or file each | queries, forms | - |

How they interact: entry points put jobs on one database queue; two worker
processes (Supervisor, `numprocs=2`) run them; jobs and the reconciler share the
outputs, both JSON columns and the retained MQTT messages without any lock. The
hard parts are therefore the interleavings of two workers, of a worker and the
reconciler, the retries of a job whose steps are not idempotent, and the delayed
relock. `PROJECT.json` lists each hazard at its line.

## 2. Modules

| module | models |
|---|---|
| `LockTopology` | the queries from reader to locks and outputs, and from lock to reader, over the four tables; their differences are kept (enabled or all bindings, first bound reader or first of the area) |
| `LockCommands` | entry points, queue, workers, `ProcessReaderEvent` step by step, outputs and the three records |
| `CommandJobs` | what a caller is promised of a lock command, queue and workers left out; `LockCommands` implements it |
| `LockReconciliation` | extends `LockCommands` with the scheduled pass and with drift |
| `WiringAdmin` | the area, lock, reader and binding pages over the tables that `LockTopology` queries (instantiated over the variables) |
| `BindingForms` | the forms and the page that edit one target's rows of `adapter_bindings` |
| `AccessDecision` | the validation of a card while administrators edit permissions and the card |
| `LightControl` | one light: API, webhook and MQTT commands, `ProcessLightEvent`, the retained state |
| `RetainedStates` | what the published devices have in common: processes that read, save and send, the retained messages, what may be lost |
| `AutolockSettings` | extends it with a lock, its area, and every handler and job that changes or publishes them |
| `SensorReports` | extends it with a sensor, its forms and reports, and the publish cache |
| `PublishedStates` | composes the two with the MQTT monitor that publishes every device when it starts |
| `AdminListPage` | a list page in the browser and the server it talks to |
| `*_proofs` | theorems about the module each is named after (section 5); `LockReconciliation_proofs` builds on `LockCommands_proofs` |
| `MCLockCommands`, `MCLockReconciliation`, `MCAccessDecision`, `MCPublishedStates` | instances for TLC; the wiring constants of the first two are computed by `LockTopology` from small tables. The other modules take their constants from their `.cfg` directly |

### LockCommands: state and steps

`output` is what the hardware holds, in canonical form (`SignalValueMapper`
translates; a reading it does not know is modelled by `Illegible`). `expected`
is the reader's `expected_lock_power`, `lockState` the lock's stored state,
`retained` the state in the retained message, `audit` the kinds of event
recorded per reader. `jobs`, `ready`, `delayed` are the queue; `pc`, `holds`,
`goal`, `at`, `snap` are a worker's position in `handle()` and its locals.
`autoOpened` is history: the outputs that stand open because of an unlock that
should relock.

A worker step is one interaction with the outside:

| step | code |
|---|---|
| `Reserve` | the queue's pop; a job that has used its attempts fails without running |
| `DropUnbound` | `setLockState` returned null: `handle()` returns |
| `Decide` | `setLockState` reads the outputs and takes the opposite of the first legible one (or the state asked for). The reads are one step because one of them alone matters |
| `Write` | one `writeBinding`; as many steps as outputs |
| `StoreExpected`, `RecordLockState` | the two stores, the second lock by lock |
| `BuildPayloads`, `SendPayload` | `publishLocksForReader`: load, then one publish per lock, each of which may be lost silently |
| `RecordEvent`, `ScheduleRelock` | the event, then the delayed relock |
| `Ack` | the worker deletes the job |

`Throw` may happen at any step before `Ack`: the job is released with a backoff,
or `failed()` records `lock_command_failed`. `Crash` may happen at any step: the
job is delivered again. Time is abstract: a delayed job may fall due at any
moment, so delays of 5 s and 120 s are covered alike.

Left out: the audit event of the request itself and the publish that the area page
queues after it (in `AutolockSettings` it is one of those that `QueueJob` queues); a reader
deleted while its job waits; an exception inside `failed()`, or a crash between the deletion
of a job that has failed and its event (`FailJob` is one step); a change of wiring or settings during a
behaviour; areas are taken to exist. `channel` in the tables stands for the
whole signature by which `AccessBindingResolver` removes duplicates.

### CommandJobs

The abstract specification of a command: submitted, attempted, reported, returned
to the queue, finished or given up. `LockCommands` instantiates it as `C` with the
refinement mapping `commands` (a live job that no worker holds is waiting, one in
hand is running until its event is recorded and reported from then on),
`carriedOut` and `givenUp` (the readers with the one or the other event). The
steps of `handle()` before the event stutter; `ScheduleRelock` submits a command;
`Throw` and `Crash` return one, also after its event, so that a command may be
carried out and later be reported as failed, as in the code.

### LockReconciliation

One pass takes the readers in order: `Load` (fresh reader and its expectation),
`ReadActual`, then nothing, `Seed`, or `Correct`, `StoreAgain`, `LoadPayloads`,
`PublishLoaded`, `RecordReconciled`. `GiveUpReader` is the `catch` inside the
loop. `Drift` is the hardware changing by itself. `SaveReaderForm` is a reader's
form saved as it was rendered, which drops `expected_lock_power` with the rest of
the metadata it has no field for. With name, config, area and bindings unchanged it
queues no publish, so it is one write of one row. A pass that has loaded the
reader before puts the expectation back.

### WiringAdmin

`areas`, `readers`, `locks` and `bindings` are the tables in id order; deleting
sets a flag, as the models soft-delete. Each request is one step, so that the properties
relate queries over whatever wiring requests leave that come one after the other. Requests
that overlap are not modelled: a lock form binds its lock before its transaction and
writes only the columns that differ, so that one which re-saves a primary lock may
unset another one that has just become primary, and leave none. What the
code refuses is a guard (`AreaSave` when the Unassigned area was deleted and its
identifier cannot be created again, `RemoveBinding` of a deleted lock,
`AddBinding` against the unique index). `T` gives the queries the tables;
`EventLocks` and `LockTopology`'s `storedLocks` and `publishedLocks` are what three
classes resolve a reader to. Left out: the adapter bindings and metadata of the same forms.

### BindingForms

`rows` are the adapter bindings of one reader or lock, a row a key (what the form
looks a row up by), a value, and `extra`: what only the bindings page can set, the
periodic MQTT settings in `config` and the metadata. The forms show the periodic
settings and post them, but their rules do not name the fields, so that `validate()` drops
them, and `normalizeBindingRows` then unsets them in the `config` of the line. A posted
form is the list of lines that this leaves, which have no `extra`; a row that is stored from a line
has the `extra` `Plain` (`AsLive`). `Post` is the request up to and including the
load of the live rows; `Sync` the transaction: `Stored`, the loop that does `Store` for
every line, then `Without`, the deletions. Between the two another post or the bindings page
(`BindingStore`, `BindingUpdate`, `BindingDestroy`) may write. Transactions are
taken as atomic. The reader's form posts inputs and outputs together: the
direction is part of the key. Left out: what the rules refuse, empty lines, and an edit
that moves a row to another target.

### AccessDecision

`rows` are `area_permissions`, `pc` the step of a validation: `Present` (card and
reader are looked up), `CountRows`, `LatestRow`, `Record` (one event per step),
`Dispatch`. `Die` ends it anywhere. `Check` and `Save` are the two statements of
the permission page, `AreaForm` the area form's transaction, `CardChange` the
card page. `overlapped` and `witness` are history, the latter every ruling that
held for the holder while the request ran. A reader without an area and a card without a user cannot be
stored, so the branch that lets them in is left out, as are the doorbell and the
`metadata` of a permission.

### LightControl

A command is the set of fields it sets; `Saved` writes those that differ from the
row as loaded, which is what Eloquent does and what makes stale loads matter.
`Api`, `Webhook` and `Mqtt` load; `SaveApi` and `SaveWebhook` save; `DispatchJob`
queues. The API's request ends at its save, because its event's status is not in
`AccessEventStatus`. A job goes through `Find`, `Act`, `Fresh`, `Publish`,
`Acknowledge`; `Swallow` is its catch block. `last`, `disturbed` and `disorder`
are history. The light supports brightness and colour; MQTT messages and webhook
calls with unusable values, which change nothing, are left out.

### RetainedStates, AutolockSettings, SensorReports, PublishedStates

A process (a web request, a queue worker, the monitor) goes from place to place
(`pc`) with the request it serves (`task`) and the rows it has read (`mem`); a
step is one query, one save, one publish or one access to the cache.

| step | code |
|---|---|
| `Receive`, `TakeJob` | a request or MQTT message arrives; a worker pops a job |
| `ReadLock`, `ReadArea` | the rows a handler decides from, each in a query of its own |
| `Save` | `$lock->update` / `$area->update`: `Saved` writes the columns that differ from the row as read (Eloquent's dirty columns); a job of a command always writes the metadata, whose timestamp is new |
| `Enqueue` | the area's page and the dashboard's toggle queue a `PublishLocksForReader` for every reader of the area; those that publish the lock count |
| `QueueJob` | a command's state job, or a publish that another page queues |
| `ReadFresh`, `ReadFreshArea`, `SendLock` | `$lock->fresh()`, then the area when the payload is built, then the publish |
| `ReadSensor`, `SaveSensor`, `CheckCache`, `SendSensor`, `PutCache` | the sensor form and `publishSensorState` |
| `StartMonitor`, `CutOff` | `publishAllDeviceStates` at the monitor's start; a request, job or monitor that is cut off anywhere |

Of the locks of an area the model follows one. `PublishLocksForReader` and the
reader's API publish the locks that the reader's outputs name, or else the area's primary
lock (`publishLocksForReader`), so the followed lock may be among them or not: it may be
named by the outputs of several readers, or of none, and the area may have no reader at all.
Which outputs there are is left out: after its save a handler that goes through readers may
find that none of them publishes this lock (`AfterSave` allows both), and else `Enqueue`
queues between one and `Readers` publishes. Only publishes that reach the lock are counted
in `jobs`.
The publishes that the reconciler and the health check send are of the form of a queued publish.

The handlers differ in what they read, what they pin and whether they publish,
and `OverrideAsked`, `DefaultAsked` and `AfterSave` keep these differences: Home
Assistant's handler limits the duration that it pins, the MQTT one does not; the
lock's API and form and the area's API and form publish nothing (`Silent`). A state that a
command gives the lock is a job (`StateJob`) with that command's last two writes;
the rest of it is `LockCommands`. The form of the lock posts both halves of the row
as they were rendered, at any age.

`lone`, `disturbed` and `tangled` are history. `disturbed` says that the last
thing that happened to a device has no publish (a silent handler, a change of the
area's default that reaches no reader of this lock, a state stored by a reader whose outputs
are off, a lost publish, a handler cut off after its save) or that messages were built at the same
time; a message that is then built alone clears it. Left out: connection settings, topics, and
the `force` republish interval, whose condition cannot become true (see
Disagreements).

### AdminListPage

`doc` is the document: which handlers are bound, the table, where its controls
are, the search box. A handler runs to its end before the page does anything else,
so it is one step; `confirm()` blocks. `RunAdminScript` is `admin.js`, `MakeTable`
the script that a page ends with, `Type` and `ClickDelete` what a user does; the
server answers queries (`Serve`) and deletions (`Destroy`) in any order, and
`Receive` drops what is older than the last draw, as DataTables does. Until the page
that answers a form arrives the old page can be clicked, and a second submission
replaces the first (`dropped`) or not. A term is the set of items it matches.
`unheard` is history. jQuery, DataTables and the server's side of a query are
external. `bootstrap.js` and `app.js` only load libraries.

## 3. Runs

| run | shows |
|---|---|
| `lock_commands_double` | one worker, a reader driving both leaves of a double door, the other driving nothing, one output sometimes illegible, 2 commands, 2 faults: `TypeOK`; `SettledAgreement`, the four records agree whenever nothing is running or waiting for a retry |
| `lock_commands_workers` | two workers, two readers of one door, all seven entry points, 2 commands, 1 fault: `JobPlacement`, `AutoRelockOwed`, `ExpectationAudited` |
| `lock_commands_liveness` | two workers, 2 faults: `CommandsKept`, the refinement of `CommandJobs` with the end of every command; `AutoRelockHappens` |
| `reconcile_repair` | reconciler and worker, a command, a saved reader form, a fault and a drift: `ReconcilerTypeOK`, `DriftRepaired`, `FirstObservationKept` |
| `wiring_pages` | two readers, two locks, an area and the Unassigned area, all pages, 6 requests: `TypeOK`, `EventsNameStoredLocks`, `StoredIsPublished`, `BoundLockReached`, `PrimaryTakesEffect`, `OnePrimaryKept` |
| `binding_forms` | two sessions, two posts, two single-row edits, three rows: `TypeOK`, `SyncLeavesForm`, `LaterBindingSurvives`, `ResaveClearsExtraOnly` |
| `access_decision` | one validation, two administrators, three edits, two rows: `TypeOK`, `AnswerWasRight`, `OpenedIsRecorded`, `OnePermissionEach`, `CardAndApiAgree` |
| `light_workers` | two workers, two commands at once from any page, two faults, two crashes: `TypeOK`, `RetainedSettles`, `LastCommandWins` |
| `published_states` | two web requests, a worker and the monitor, a lock and a sensor, a fault: `TypeOK`, `LockSettled`, `SensorSettled`, `CacheIsHonest`, `OtherHalfKept`, `HalvesOfRowApart` |
| `admin_list_page` | two items, two set-ups, two changes of the box, two deletions, two faults: `TypeOK`, `ControlsInFooter`, `SearchSettles`, `FailuresAreRepetitions`, `OneQueryEach`, `ConfirmedGoes` |

Runs that TLC must find violated; each states what a comment or description of
the code says:

| run | counterexample |
|---|---|
| `lock_toggle_retry` | the retry of a toggle undoes its first attempt |
| `reconcile_undoes_relock` | a relock between load and read is undone |

Bounds. A fault is needed per retry, so `FaultBudget` 2 with `MaxTries` 2 reaches
both "retried" and "failed for good"; a job's steps do not depend on how many
attempts came before, so more add nothing but states. Two commands are enough
for two jobs to overlap on two workers and each may add a relock. `JobId` is
sized so that a free slot always exists. Two outputs are enough for "some but not
all". `SYMMETRY` is used in invariant-only runs (workers, administrators' sessions). Deadlock is not checked: when
the budgets are spent and the queue is empty the system may stop. The same
holds of the other modules, whose requests, edits and commands are counted.

In `wiring_pages` six requests create two locks and a reader, bind both locks,
and leave one for disabling, deleting or moving; two readers and two locks are
enough for a query to pick the wrong one of either. In `binding_forms` three rows
hold a duplicate and another key, with `extra` or without, and two posts overlap in every order. In
`access_decision` two rows and three edits put an edit before, between and after
the two queries of a validation. In `light_workers` two commands meet on two
workers, and a crash brings either back alone or beside the other, so overlap,
repair and the end of the tries (`Tries` 2, two crashes) all occur; the program's
`--tries=3` only makes the last rarer. In `published_states` a request about the
lock costs 3, one about the sensor 2, and `MaxRequests` is 6: two about the lock
(a stale row needs a second writer), three about the sensor (a tangled cache needs
two, and a third to be held back by it), or one of each. One fault is a lost
publish, a cut-off, or a restart of the monitor, which publishes both. The durations
lie on both sides of the limit, and a change of the default reaches the lock through no
reader or one (`Readers` 1; a second publish of the lock is queued by another page, as
`QueueJob`). In `admin_list_page` one change of the box overtakes another, a
deletion is repeated, and the two faults put a lost query beside a renewed session;
`reconcile_undoes_relock` has no reader form (`FormBudget` 0), because its
counterexample needs none.

What the conditions of some properties exclude is as telling as what they state:
`DriftRepaired` an output that is not its reader's first or is shared by two
readers, `StoredIsPublished` a reader whose bindings are all disabled,
`OnePrimaryKept` the area form, `OnePermissionEach` edits that overlap, `AnswerWasRight` a
user whose last permission is deleted between the two queries,
`ResaveClearsExtraOnly` a later duplicate that was deleted, `RetainedSettles` jobs
that overlap last, `LockSettled` and `SensorSettled` what `disturbed` names,
`SearchSettles` a box that was changed before there was a table. The code behaves differently in each of these cases.

Fairness. Supervisor restarts the workers (`autorestart`) and delays end: weak
fairness of each worker's `Run` and each job's `Mature`. The schedule starts a
pass every minute: weak fairness of `Reconcile`. A browser runs the scripts of the
page it shows and handles what arrives, and the server answers: weak fairness of
`RunAdminScript`, `MakeTable`, `Receive`, `Arrive`, `Serve` and `Destroy`. Requests,
clicks, saved forms, faults and drift have none, and `PublishedStates` states no
fairness, as all it says is safety. Each fault is an action of its own and the budget is finite, so liveness
speaks about the time after the last fault.

`SettledAgreement` is checked with one worker, and proved for one worker and readers
whose doors do not overlap (`RecordsAgree`): with two workers, which Supervisor starts,
jobs of one reader interleave and a mixture may stay, and so it may when two readers
share a door. Both are hazards on the list; by the theorem nothing else leaves one, short of a command
that was given up. The instance of `lock_commands_double` satisfies both hypotheses.

## 4. Disagreements

Two are findings with a run (above). The following were met while modelling; the
models do what the code does, and no run is spent on them:

- A light command by API changes the row and then fails: `event`'s status is not
  in `AccessEventStatus` (`LightControlController.php:73`), so the job that the doc
  comment announces ("Queue light command", line 85) is never queued. In
  `LightControl` the API's request ends there.
- Deleting a lock leaves its bindings live, although
  `ReaderLockBindingPhase1Test.php:285` says that the deletion "cascades to
  bindings": models soft-delete and the foreign key never fires. `WiringAdmin`
  keeps the rows.
- The area's auto-lock API says it "cascades to all locks"
  (`AreaStatusController.php:30`); it leaves overrides alone and publishes nothing.
- The periodic republish of a sensor is never due: `now()->diffInSeconds(past)` is
  negative in the Carbon that Laravel 13 brings (`AccessControlMqttPublisher.php:204`).
- Home Assistant's auto-lock switch pins the limited duration, the MQTT one the
  unlimited; both show the same retained message.
- Two commands about the two halves of one override, each having read the row
  before the other's save, leave one of them: the column is written whole.
  `OtherHalfKept` is about a command whose rows are current.
- The lock's API and form and the area's API and form publish nothing.
- The area page, the dashboard's toggle and the reader's API change the default of every
  lock of the area, but publish only the locks that readers reach: the area's readers (there
  may be none; `AccessAreaController.php:58`), or the one reader in the address
  (`ReaderControlController.php:183`). A lock that none of their outputs names and that is
  not the primary one keeps a retained message with the old default.
- The binding forms of locks and readers show the periodic MQTT settings of every row
  (`locks/bindings.blade.php:84`), and saving clears them: the rules leave the fields
  out (`AccessLockController.php:104`, `AccessReaderController.php:199`), and
  `normalizeBindingRows` unsets what it does not find. They can be set on the bindings
  page alone, and a row's metadata likewise.
- The sensor form writes the state it was rendered with over a newer one.

## 5. Proofs

Every invariant and every action property that a passing run checks is proved for all
values of the constants. TLC checked each property on its instance first; one proof
then found an error of the model that the instance did not show (see AccessDecision).

### LockCommands

For every wiring, number of workers, jobs and attempts, from `WiringAssumption` and
`BoundAssumption` alone:

- `TypeCorrect`: `Spec => []TypeOK`
- `JobsArePlaced`: `Spec => []JobPlacement`
- `RelockIsOwed`: `Spec => []AutoRelockOwed`
- `NoSilentExpectation`: `Spec => []ExpectationAudited`
- `CommandsAreKept`: `Spec => C!Safety`, the refinement of `CommandJobs`
- `RecordsAgree`: `Spec => []SettledAgreement`, if `OneWorker` and `DoorsApart`

The inductive invariant is `IInv == TypeOK /\ JobPlacement` (theorem
`Inductive`). Neither half is inductive alone: a worker's step reads the payload
of the job it holds, so typing needs the held job to be live, and that a held job
is live and held by nobody else is `JobPlacement`. `Walking`, the last conjunct
of `TypeOK`, is the strengthening that keeps a worker's index inside its list.
`RelockIsOwed` is shown inductive relative to `IInv`, one lemma per step; the
steps that do not touch what it speaks about share one lemma.

`NoSilentExpectation` needs two more facts, inductive relative to `IInv`. `Working`: of
every worker `Behind` says that its job counts as tried, that it drives an output from the
decision on and that its reader has an event from the event on. `Expecting`: only
a reader that drives an output has an expectation, besides the property itself. A job may then be
deleted only with an event on record, or because it drives nothing, and such a
job has never set an expectation. `CommandsAreKept` uses both invariants: one lemma
per kind of step (`SubmitMaps`, `ReserveMaps`, `ReleaseMaps`, `HandleMaps`, `ReportMaps`,
`RelockMaps`) shows that it changes at most one command and how. `IInv` says that at
most one worker holds a job, so the mapped phase is well defined; `Behind` that a
command is not reported for a reader that drives nothing.

`RecordsAgree` is the statement of the four records. Its two hypotheses are what
the code does not give: Supervisor starts two workers, and nothing stops an administrator
from binding two readers to one door (`DoorsApart` asks that no two readers share an
output or a stored lock, and that none publishes a lock another one stores). The invariant is
`AgreementInv`: `Carried` says of the worker how much of its job the records already show
at each stage, and `Agreeing` of each reader that its records agree, or that it was never
commanded, or that a command has begun and is not over, or that one was given up. A retry starts
from the beginning, so `Carried` holds of it whatever its first attempt left.

### LockReconciliation

From `SweepAssumption` and those of `LockCommands`, for any number of workers:
`ReconcilerTypes`, `ObservationKept` (the action property `FirstObservationKept`),
`StillPlaced`, `RelockStillOwed` and `CommandsStillKept` (`JobPlacement`, `AutoRelockOwed`
and the refinement hold beside the reconciler too, which no run checks). `RInv` adds
to `IInv`: what the pass remembers is of the kind its step needs (`Knows`, `Seeding`), it
stays inside the list it walks (`InList`), and before the first command nobody else touches the
expectation it has loaded (`Untouched`, `Remembered`): the form may only drop it, and
then the pass writes back the same one.

### PublishedStates

For any number of web requests and workers, all
durations and all bounds, from `RequestBounds`, `ProcessesDiffer`,
`DurationsAreSeconds`, `ReadersAreCounted` and `MarksDiffer`:

- `TypeCorrect`: `Spec => []TypeOK`
- `LockSettles`: `Spec => []LockSettled`, for any number of readers that publish the lock
- `SensorSettles`, `CacheHonest`: `Spec => []SensorSettled`, `Spec => []CacheIsHonest`
- `HalvesApart`, `OtherHalfStays`: the two action properties

The first is inductive with `Known`, which says of each place what a process there
is doing and has read. For the sensor, `SensorInv` adds three facts to it
(`SensorAlone`, `SensorUntangled`, `SensorUndisturbed`): whoever is `lone` is the
only one at it and has read what the row says, an untangled cache agrees with the broker
unless somebody is about to note what it sent, and an undisturbed broker tells the
row or somebody who is alone is about to. `LockInv` says the same of a lock, where what is
owed to the broker may also be a job in the queue or a process that has saved and
not yet read anew (`Pending`). While messages overlap neither says anything, and a
message that is built alone establishes it again. The action properties need only
`Known`: what a save writes is compared with the row the process had read.

### AdminListPage

For any items, search terms, posts and bounds, from
`PageBounds`:

- `TypeCorrect`: `Spec => []TypeOK`
- `FooterIsKept`, `SearchEnds`, `OnlyRepetitionsFail`: `Spec => []ControlsInFooter`,
  `Spec => []SearchSettles`, `Spec => []FailuresAreRepetitions`
- `QueriesAreSingle`: the action property `OneQueryEach`

The inductive invariant is `TypeOK` with three parts. `SetUp`: a page that was set up
has each handler bound once, and a control of the table is in its wrapper until the
first draw lays it out and in the footer from then on; `OneQueryEach` is the first
half of it read at the step that types. `Searching`: queries and answers of the last
draw are about the table's term, older ones are never taken, and unless something
went unheard one of them, or what is shown, is there. `Deleting`: no token is newer
than the session's, and without outside faults every item that is missing was deleted
from here, so a post that finds it missing has a predecessor. What each script does
to the document is a lemma of its own (`OffDoes`, `OnDoes`, ...), cited by the steps.

### WiringAdmin

For any areas, pages and bounds, from `WiringBounds`: `TypeCorrect`; `EventsNameStored`,
`StoredPublished`, `BoundReached` (the invariants about what the queries of different
classes return); `PrimaryTakes`, `PrimaryIsKept` (the action properties about the lock
forms). The invariant is `TypeOK` with `OneBindingEach`, the unique index: without it
the bound that `TypeOK` puts on the number of bindings, that of the pairs of a reader and
a lock, would not be kept. The queries are `LockTopology`'s, so lemmas about
`Lowest`, `primaryLock` and `targetLocks` come first; a `->first()` that returns something
needs that a set of ids has a least one (`LeastExists`, from the well-ordering of `Nat`).

### BindingForms

For any keys, values, sessions and bounds, from `BindingBounds`: `TypeCorrect` and the three
action properties `FormIsLeft`, `LaterBindingStays`, `ResaveClears`. They are about
what a loop leaves, for forms and tables of any length, so they need induction over the
lines. `Stored` is therefore a recursive function, which `LoopExists` shows to exist, and
the induction is the statement that the set of line numbers at which the loop invariant
holds has no least number outside it (`ReachesBound`). The invariant of the loop is `Turned`: the rows whose ids
it remembers are live and hold nothing that forms do not save, each the latest with its key and
with the last value posted for it, every key met so far has one, and the other rows are as they were.

### AccessDecision

For any finite set of users, any areas, doors, requests, sessions and bounds, from
`DecisionBounds`: `TypeCorrect`, `AnswersWereRight`, `OpenedAreRecorded`, `OnePermission`,
`CardAndApi`. The invariant has three parts. `Counted` ties the number of events to the
step. `Witnessed`: the history holds what the rules say now, so that a ruling read now is in it,
and a deletion between the two queries is in it as well. `Pending`: unless edits
overlapped, at most one session has passed its duplicate check, and its check still
holds; the insert that follows cannot make a second row. `CardAndApi` is a consequence of
`OnePermissionEach`. The type proof found that the model bounded the events of a reader
without locks by 0, although the code records one (`MostEvents` corrects it); the instances
all have locks.

### LightControl

For any number of workers and requests, any levels and colours, from `LightBounds` and
`IdleIsNone`: `TypeCorrect`, `RetainedIsRepaired`, `LastWins`. `Counting` says that commands being
handled, in hand and waiting are no more than were given. `Settling`: unless disturbed, a
command is on its way, or the job in hand still has the row to publish or has published
it, or the retained message tells it. `Ordered`: until jobs overlapped, each field was last
set by a handler about to queue its job, or by the last job in the queue that sets it, or by
what the job in hand is about to write, or is as it was commanded.

### Model-checked only

Liveness, which is out of the prover's reach: `AutoRelockHappens`, `DriftRepaired`,
`ConfirmedGoes`, and in `CommandsKept` the end of every command. The two runs that TLC must
find violated (`ToggleTakesEffect`, `RelockSticks`) say what the code does not do.

## 6. Not modelled, and why

- Reader feedback pulses: a write and a delayed job of one output. What overlapping
  pulses do follows from the two lines, and nothing says what they should do.
- Settings repository: a few values behind a cache of five minutes. A stale value
  ends with its entry.
- Signal mapping: pure, and total over a few spellings; `LockCommands` holds
  canonical values and `Illegible` stands for what it does not know.
- Output adapters and observers: other packages implement them; an output is a value
  that a write sets and that may drift.
- Early redelivery of a running job: it needs a `retry_after` shorter than the
  workers' timeout, which the host application sets.
- The rows of a sensor's binding form are the same code as those of `BindingForms`.
- Home Assistant's queries, health checks, registries, data tables, views, login,
  user administration, the file for Supervisor and the setup script hold no state
  that several steps share.

## 7. Plan

Done: the command jobs with their abstract specification, the reconciler, the wiring
and its pages, the card decision, the lights, auto-lock settings and sensors with
their publishes, the list page. Every safety
property of the runs is proved. What is left: lemmas that two proof modules now state each
for themselves (`Bounded`, `LeastExists`), steps that are hard to read, and the hazards
without a property, most of which no doc or comment promises anything about.
