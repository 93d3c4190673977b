---------------------- MODULE LockReconciliation_proofs ----------------------
(***************************************************************************)
(* Proofs about LockReconciliation for every wiring, sweep, number of      *)
(* workers and all values of the bounds.                                   *)
(***************************************************************************)
EXTENDS LockReconciliation, LockCommands_proofs

-----------------------------------------------------------------------------
(***************************************************************************)
(* The inductive invariant.  The reconciler writes back what it remembers  *)
(* several steps after it has looked, so that the types alone do not       *)
(* follow: what it adopts is a state it could read, what it writes is one  *)
(* it had an expectation of, and it stays within the list it walks.        *)
(***************************************************************************)
Knows ==
  /\ step = "seed" => seen # Unknown
  /\ step = "write" => want # Unset

InList ==
  /\ step = "write" => pos <= Len(Outputs[Current])
  /\ step = "send" => pos <= Len(TopicLocks[Current])
  /\ step \notin {"write", "send"} => pos = 1

\* Before the first command there is no job, so that nobody but the reconciler and
\* the form touches the expectation since it was loaded.
Untouched == requests = 0 => \A j \in JobId : ~Live(j)
Remembered ==
  requests = 0 /\ step \in {"read", "seed", "write", "store"} => expected[Current] \in {Unset, want}

Seeding == step = "seed" => want = Unset

RInv ==
  IInv /\ ReconcilerTypeOK /\ Knows /\ InList /\ Untouched /\ Remembered /\ Seeding

LEMMA InitRInv == InitReconciler => RInv
<1> SUFFICES ASSUME InitReconciler PROVE RInv
  OBVIOUS
<1>1. IInv
  BY InitInv DEF InitReconciler
<1>2. ReconcilerTypeOK
  BY <1>1, SweepAssumption DEF IInv, InitReconciler, ReconcilerTypeOK, LockStates, Blank
<1>3. Knows /\ InList /\ Remembered /\ Seeding
  BY DEF InitReconciler, Knows, InList, Remembered, Seeding
<1>4. Untouched
  BY DEF InitReconciler, Init, Untouched, Live
<1> QED
  BY <1>1, <1>2, <1>3, <1>4 DEF RInv

-----------------------------------------------------------------------------
(***************************************************************************)
(* Steps of the workers and the queue.                                     *)
(***************************************************************************)

\* A command counts as one, and sets no expectation.
LEMMA RequestCounts ==
  ASSUME TypeOK, Request
  PROVE  requests' = requests + 1 /\ UNCHANGED storeVars
BY DEF Request, CardGranted, MqttCommand, WebhookLock, WebhookUnlock, LockApi, ReaderApi,
       AreaControl, DashboardToggle, Dispatch

\* No step takes a request back.
LEMMA RequestsGrow ==
  ASSUME TypeOK, [Next]_vars
  PROVE  requests' \in Nat /\ requests <= requests'
<1>1. requests \in Nat
  BY BoundAssumption DEF TypeOK
<1>2. ASSUME NEW w \in Worker, Run(w) \/ Throw(w) \/ Crash(w)
      PROVE  requests' = requests
  <2>1. CASE Reserve(w)
    BY <2>1, Zenon DEF Reserve
  <2> QED
    BY <1>2, <2>1
       DEF Run, DropUnbound, Acknowledge, Ack, Decide, Write, StoreExpected, RecordLockState,
           BuildPayloads, SendPayload, RecordEvent, ScheduleRelock, Throw, Crash
<1>3. ASSUME NEW j \in JobId, Mature(j)
      PROVE  requests' = requests
  BY <1>3 DEF Mature
<1>4. CASE UNCHANGED vars
  BY <1>1, <1>4 DEF vars
<1> QED
  BY <1>1, <1>2, <1>3, <1>4, RequestCounts DEF Next

\* Before the first command workers and queue have nothing to do.
LEMMA NothingToDo ==
  ASSUME IInv, Untouched, requests = 0, Next
  PROVE  Request
<1>1. \A j \in JobId : ~Live(j)
  BY DEF Untouched
<1>2. ElementsOf(ready) = {} /\ delayed = {} /\ InHand = {}
  BY <1>1 DEF IInv, JobPlacement
<1>3. \A w \in Worker : pc[w] = "idle"
  BY <1>2 DEF InHand
<1>4. ready = <<>>
  BY <1>2, PopFacts DEF IInv, TypeOK, JobPlacement, Distinct
<1> QED
  BY <1>2, <1>3, <1>4
     DEF Next, Mature, Run, Reserve, DropUnbound, Ack, Decide, Write, StoreExpected,
         RecordLockState, BuildPayloads, SendPayload, RecordEvent, ScheduleRelock, Throw, Crash

LEMMA WorkerStep ==
  ASSUME RInv, [Next]_vars, UNCHANGED <<reconcilerVars, surroundings>>
  PROVE  RInv'
<1>1. IInv'
  BY StepInv DEF RInv
<1>2. ReconcilerTypeOK' /\ Knows' /\ InList' /\ Seeding'
  BY <1>1 DEF RInv, IInv, ReconcilerTypeOK, Knows, InList, Seeding, Current,
              reconcilerVars, surroundings
<1>3. ASSUME requests' = 0
      PROVE  UNCHANGED vars
  <2>1. requests = 0
    BY <1>3, RequestsGrow, BoundAssumption DEF RInv, IInv, TypeOK
  <2>2. ~Next
    BY <1>3, <2>1, NothingToDo, RequestCounts DEF RInv, IInv
  <2> QED
    BY <2>2
<1>4. Untouched'
  BY <1>3 DEF RInv, Untouched, Live, vars, queueVars
<1>5. Remembered'
  BY <1>3 DEF RInv, Remembered, Current, vars, storeVars, reconcilerVars
<1> QED
  BY <1>1, <1>2, <1>4, <1>5 DEF RInv

-----------------------------------------------------------------------------
(***************************************************************************)
(* Steps of the reconciler and its surroundings.                           *)
(***************************************************************************)

\* They leave jobs and workers alone, so that these stay where they are.
LEMMA JobsStay ==
  ASSUME IInv, UNCHANGED <<queueVars, workerVars, requests>>,
         output' \in [Channel -> Power], autoOpened' \subseteq Channel,
         expected' \in [Reader -> Power \cup {Unset}],
         lockState' \in [Lock -> LockStates], retained' \in [Lock -> LockStates],
         audit' \subseteq Reader \X Status, faults' \in 0..FaultBudget
  PROVE  IInv'
<1>1. JobPlacement'
  BY DEF IInv, JobPlacement, Live, InHand, queueVars, workerVars
<1>2. ASSUME NEW w \in Worker
      PROVE  Walking(w)'
  BY <1>2, OthersWalk DEF IInv, TypeOK, queueVars, workerVars
<1>3. TypeOK'
  BY <1>2 DEF IInv, TypeOK, queueVars, workerVars
<1> QED
  BY <1>1, <1>3 DEF IInv

\* The next reader, or the end of the pass: nothing is remembered of the last one.
LEMMA NextReaderInv ==
  ASSUME RInv, NextReader, IInv', drifts' \in 0..DriftBudget, forms' \in 0..FormBudget,
         UNCHANGED <<jobs, requests>>
  PROVE  RInv'
<1>1. /\ turn \in 1..Len(Sweep) /\ Len(Sweep) \in Nat
      /\ turn' \in 1..Len(Sweep) /\ step' \in {"load", "rest"}
      /\ want' = Unset /\ seen' = Unknown /\ pos' = 1 /\ loaded' = Blank
  BY SweepAssumption DEF RInv, ReconcilerTypeOK, NextReader
<1>2. ReconcilerTypeOK'
  BY <1>1 DEF IInv, ReconcilerTypeOK, Blank, LockStates
<1>3. Knows' /\ InList' /\ Seeding' /\ Remembered'
  BY <1>1 DEF Knows, InList, Seeding, Remembered
<1>4. Untouched'
  BY DEF RInv, Untouched, Live
<1> QED
  BY <1>2, <1>3, <1>4 DEF RInv

\* The reader whose turn it is has finite lists.
LEMMA CurrentFacts ==
  ASSUME RInv
  PROVE  /\ Current \in Reader /\ expected[Current] \in Power \cup {Unset}
         /\ pos \in Nat \ {0}
         /\ Len(Outputs[Current]) \in Nat /\ Len(TopicLocks[Current]) \in Nat
         /\ \A i \in 1..Len(Outputs[Current]) : Outputs[Current][i] \in Channel
         /\ \A i \in 1..Len(TopicLocks[Current]) : TopicLocks[Current][i] \in Lock
         /\ Outputs[Current] # <<>> => Len(Outputs[Current]) >= 1
         /\ TopicLocks[Current] # <<>> => Len(TopicLocks[Current]) >= 1
<1>1. Current \in Reader
  BY SweepAssumption DEF RInv, ReconcilerTypeOK, Current
<1> QED
  BY <1>1, ListFacts DEF RInv, IInv, TypeOK, ReconcilerTypeOK

\* A step of the reconciler within the turn of a reader.
LEMMA WithinTurn ==
  ASSUME RInv, IInv', UNCHANGED <<jobs, requests, turn, drifts, forms>>,
         step' \in {"load", "read", "seed", "write", "store", "build", "send", "event"},
         want' \in Power \cup {Unset}, seen' \in LockStates, pos' \in Nat \ {0},
         loaded' \in [Lock -> LockStates],
         (Knows /\ InList /\ Seeding /\ Remembered)'
  PROVE  RInv'
<1>1. ReconcilerTypeOK'
  BY DEF RInv, IInv, ReconcilerTypeOK
<1>2. Untouched'
  BY DEF RInv, Untouched, Live
<1> QED
  BY <1>1, <1>2 DEF RInv

LEMMA StartPassInv ==
  ASSUME RInv, StartPass
  PROVE  RInv'
<1>1. IInv'
  BY StutterInv DEF RInv, StartPass
<1>2. (Knows /\ InList /\ Seeding /\ Remembered)'
  BY DEF RInv, InList, StartPass, Knows, Seeding, Remembered
<1> QED
  BY <1>1, <1>2, WithinTurn
     DEF RInv, ReconcilerTypeOK, StartPass, vars, queueVars, surroundings

LEMMA LoadInv ==
  ASSUME RInv, Load
  PROVE  RInv'
<1>1. IInv'
  BY StutterInv DEF RInv, Load
<1>2. (Knows /\ InList /\ Seeding /\ Remembered)'
  BY DEF RInv, InList, Load, Knows, Seeding, Remembered, Current, vars, storeVars
<1> QED
  BY <1>1, <1>2, WithinTurn, CurrentFacts
     DEF RInv, ReconcilerTypeOK, Load, vars, queueVars, surroundings

LEMMA ReadActualInv ==
  ASSUME RInv, ReadActual
  PROVE  RInv'
<1>1. IInv' /\ UNCHANGED <<vars, jobs, requests, drifts, forms>>
  BY StutterInv DEF RInv, ReadActual, vars, queueVars, surroundings
<1>2. CASE NextReader
  BY <1>1, <1>2, NextReaderInv DEF RInv, ReconcilerTypeOK
<1>3. CASE ~NextReader
  <2>1. PICK actual \in Readings(Current) :
          /\ actual # Unknown /\ actual # want /\ seen' = actual
          /\ step' = IF want = Unset THEN "seed" ELSE "write"
          /\ UNCHANGED <<turn, want, pos, loaded>>
    BY <1>3 DEF ReadActual
  <2>2. Outputs[Current] # <<>> /\ actual \in LockStates
    BY <2>1, CurrentFacts DEF Readings, RInv, IInv, TypeOK, LockStates
  <2>3. step = "read"
    BY DEF ReadActual
  <2>4. (Knows /\ InList /\ Seeding /\ Remembered)'
    BY <1>1, <2>1, <2>2, <2>3, CurrentFacts
       DEF RInv, InList, Knows, Seeding, Remembered, Current, vars, storeVars
  <2> QED
    BY <1>1, <2>1, <2>2, <2>4, WithinTurn DEF RInv, ReconcilerTypeOK
<1> QED
  BY <1>2, <1>3

LEMMA SeedInv ==
  ASSUME RInv, Seed
  PROVE  RInv'
<1>1. seen \in Power
  BY DEF RInv, Seed, Knows, ReconcilerTypeOK, LockStates
<1>2. IInv'
  BY <1>1, JobsStay, CurrentFacts DEF RInv, IInv, TypeOK, Seed, deviceVars
<1> QED
  BY <1>2, NextReaderInv DEF RInv, ReconcilerTypeOK, Seed, queueVars, surroundings

\* A walk that is within its list stays there or ends.
LEMMA WalkFacts ==
  ASSUME NEW list, Len(list) \in Nat, pos \in Nat \ {0}, NEW next, Walk(list, next)
  PROVE  /\ pos' \in Nat \ {0}
         /\ \/ step' = step /\ pos' <= Len(list)
            \/ step' = next /\ pos' = 1
BY DEF Walk

LEMMA CorrectInv ==
  ASSUME RInv, Correct
  PROVE  RInv'
<1>1. want \in Power /\ Outputs[Current][pos] \in Channel
  BY CurrentFacts DEF RInv, Correct, Knows, InList, ReconcilerTypeOK
<1>2. IInv'
  BY <1>1, JobsStay DEF RInv, IInv, TypeOK, Correct, storeVars
<1>3. /\ pos' \in Nat \ {0}
      /\ \/ step' = "write" /\ pos' <= Len(Outputs[Current])
         \/ step' = "store" /\ pos' = 1
  BY CurrentFacts, WalkFacts DEF Correct
<1>4. (Knows /\ InList /\ Seeding /\ Remembered)'
  BY <1>3 DEF RInv, InList, Correct, Knows, Seeding, Remembered, Current, storeVars
<1> QED
  BY <1>2, <1>3, <1>4, WithinTurn
     DEF RInv, ReconcilerTypeOK, Correct, queueVars, surroundings

LEMMA StoreAgainInv ==
  ASSUME RInv, StoreAgain
  PROVE  RInv'
<1>1. IInv'
  BY JobsStay, CurrentFacts DEF RInv, IInv, TypeOK, ReconcilerTypeOK, StoreAgain, deviceVars
<1>2. (Knows /\ InList /\ Seeding /\ Remembered)'
  BY DEF RInv, InList, StoreAgain, Knows, Seeding, Remembered
<1> QED
  BY <1>1, <1>2, WithinTurn DEF RInv, ReconcilerTypeOK, StoreAgain, queueVars, surroundings

LEMMA LoadPayloadsInv ==
  ASSUME RInv, LoadPayloads
  PROVE  RInv'
<1>1. IInv'
  BY StutterInv DEF RInv, LoadPayloads
<1>2. loaded' \in [Lock -> LockStates]
  BY DEF LoadPayloads, RInv, IInv, TypeOK, LockStates
<1>3. (Knows /\ InList /\ Seeding /\ Remembered)'
  BY CurrentFacts DEF RInv, InList, LoadPayloads, Knows, Seeding, Remembered, Current
<1> QED
  BY <1>1, <1>2, <1>3, WithinTurn
     DEF RInv, ReconcilerTypeOK, LoadPayloads, vars, queueVars, surroundings

LEMMA FaultCounts ==
  ASSUME TypeOK, Fault
  PROVE  faults' \in 0..FaultBudget
BY BoundAssumption DEF TypeOK, Fault

LEMMA PublishLoadedInv ==
  ASSUME RInv, PublishLoaded
  PROVE  RInv'
<1>1. TopicLocks[Current][pos] \in Lock
  BY CurrentFacts DEF RInv, PublishLoaded, InList
<1>2. retained' \in [Lock -> LockStates] /\ faults' \in 0..FaultBudget
  BY <1>1, FaultCounts DEF PublishLoaded, RInv, IInv, TypeOK, ReconcilerTypeOK
<1>3. IInv'
  BY <1>2, JobsStay DEF RInv, IInv, TypeOK, PublishLoaded, deviceVars
<1>4. /\ pos' \in Nat \ {0}
      /\ \/ step' = "send" /\ pos' <= Len(TopicLocks[Current])
         \/ step' = "event" /\ pos' = 1
  BY CurrentFacts, WalkFacts DEF PublishLoaded
<1>5. (Knows /\ InList /\ Seeding /\ Remembered)'
  BY <1>4 DEF RInv, InList, PublishLoaded, Knows, Seeding, Remembered, Current
<1> QED
  BY <1>3, <1>4, <1>5, WithinTurn
     DEF RInv, ReconcilerTypeOK, PublishLoaded, queueVars, surroundings

LEMMA RecordReconciledInv ==
  ASSUME RInv, RecordReconciled
  PROVE  RInv'
<1>1. IInv'
  BY JobsStay, CurrentFacts DEF RInv, IInv, TypeOK, RecordReconciled, deviceVars, Status
<1> QED
  BY <1>1, NextReaderInv DEF RInv, ReconcilerTypeOK, RecordReconciled, queueVars, surroundings

LEMMA GiveUpReaderInv ==
  ASSUME RInv, GiveUpReader
  PROVE  RInv'
<1>1. IInv'
  BY JobsStay, FaultCounts DEF RInv, IInv, TypeOK, GiveUpReader, deviceVars, storeVars
<1> QED
  BY <1>1, NextReaderInv DEF RInv, ReconcilerTypeOK, GiveUpReader, queueVars, surroundings

LEMMA DriftInv ==
  ASSUME RInv, NEW c \in Channel, Drift(c)
  PROVE  RInv'
<1>1. output' \in [Channel -> Power] /\ drifts' \in 0..DriftBudget
  BY SweepAssumption DEF RInv, IInv, TypeOK, ReconcilerTypeOK, Drift, Opposite, Power
<1>2. IInv'
  BY <1>1, JobsStay DEF RInv, IInv, TypeOK, Drift, storeVars
<1>3. ReconcilerTypeOK' /\ Knows' /\ InList' /\ Seeding'
  BY <1>1, <1>2 DEF RInv, IInv, ReconcilerTypeOK, Knows, InList, Seeding, Current, Drift,
                    reconcilerVars
<1>4. Untouched' /\ Remembered'
  BY DEF RInv, Untouched, Remembered, Live, Current, Drift, storeVars, queueVars, reconcilerVars
<1> QED
  BY <1>2, <1>3, <1>4 DEF RInv

LEMMA SaveReaderFormInv ==
  ASSUME RInv, NEW r \in Reader, SaveReaderForm(r)
  PROVE  RInv'
<1>1. /\ expected' \in [Reader -> Power \cup {Unset}] /\ forms' \in 0..FormBudget
      /\ \A s \in Reader : expected'[s] \in {expected[s], Unset}
  BY SweepAssumption DEF RInv, IInv, TypeOK, ReconcilerTypeOK, SaveReaderForm
<1>2. IInv'
  BY <1>1, JobsStay DEF RInv, IInv, TypeOK, SaveReaderForm, deviceVars
<1>3. ReconcilerTypeOK' /\ Knows' /\ InList' /\ Seeding'
  BY <1>1, <1>2 DEF RInv, IInv, ReconcilerTypeOK, Knows, InList, Seeding, Current,
                    SaveReaderForm, reconcilerVars
<1>4. Untouched' /\ Remembered'
  BY <1>1, CurrentFacts
     DEF RInv, Untouched, Remembered, Live, Current, SaveReaderForm, queueVars, reconcilerVars
<1> QED
  BY <1>2, <1>3, <1>4 DEF RInv

LEMMA StepRInv == RInv /\ [NextReconciled]_allVars => RInv'
<1> SUFFICES ASSUME RInv, [NextReconciled]_allVars PROVE RInv'
  OBVIOUS
<1>1. CASE Next /\ UNCHANGED <<reconcilerVars, surroundings>>
  BY <1>1, WorkerStep
<1>2. CASE UNCHANGED allVars
  BY <1>2, WorkerStep DEF allVars
<1>3. CASE Reconcile
  BY <1>3, StartPassInv, LoadInv, ReadActualInv, SeedInv, CorrectInv, StoreAgainInv,
     LoadPayloadsInv, PublishLoadedInv, RecordReconciledInv DEF Reconcile
<1> QED
  BY <1>1, <1>2, <1>3, GiveUpReaderInv, DriftInv, SaveReaderFormInv DEF NextReconciled

\* The inductive invariant of workers, queue and reconciler together.
THEOREM RInvHolds == SpecReconciled => []RInv
BY InitRInv, StepRInv, PTL DEF SpecReconciled

\* Every variable of workers, queue and reconciler keeps its type.
THEOREM ReconcilerTypes == SpecReconciled => []ReconcilerTypeOK
<1>1. RInv => ReconcilerTypeOK
  BY DEF RInv
<1> QED
  BY <1>1, RInvHolds, PTL

\* The places of the jobs survive the reconciler too.
THEOREM StillPlaced == SpecReconciled => []JobPlacement
<1>1. RInv => JobPlacement
  BY DEF RInv, IInv
<1> QED
  BY <1>1, RInvHolds, PTL

-----------------------------------------------------------------------------
Kept(r) ==
  /\ expected[r] # Unset => expected'[r] = expected[r]
  /\ step = "store" /\ Current = r => expected'[r] \in {expected[r], want}

LEMMA KeptStep ==
  ASSUME RInv, [NextReconciled]_allVars, NEW r \in Reader, requests = 0, forms' = forms
  PROVE  Kept(r)
<1>1. CASE UNCHANGED expected
  BY <1>1 DEF Kept
<1>2. CASE Next
  BY <1>1, <1>2, NothingToDo, RequestCounts DEF RInv, IInv, storeVars
<1>3. CASE Seed
  <2>1. expected[Current] = Unset /\ step = "seed"
    BY <1>3 DEF RInv, Seed, Seeding, Remembered
  <2>2. r # Current => expected'[r] = expected[r]
    BY <1>3 DEF Seed, RInv, IInv, TypeOK
  <2> QED
    BY <2>1, <2>2 DEF Kept
<1>4. CASE StoreAgain
  <2>1. expected[Current] \in {Unset, want}
    BY <1>4 DEF RInv, StoreAgain, Remembered
  <2>2. /\ r # Current => expected'[r] = expected[r]
        /\ r = Current => expected'[r] = want
    BY <1>4 DEF StoreAgain, RInv, IInv, TypeOK
  <2> QED
    BY <2>1, <2>2 DEF Kept
<1>5. CASE \E s \in Reader : SaveReaderForm(s)
  BY <1>5, SweepAssumption DEF SaveReaderForm, RInv, ReconcilerTypeOK
<1> QED
  BY <1>1, <1>2, <1>3, <1>4, <1>5
     DEF NextReconciled, Reconcile, StartPass, Load, ReadActual, Correct, LoadPayloads,
         PublishLoaded, RecordReconciled, GiveUpReader, Drift, allVars, vars, storeVars

\* Until the first command the reconciler keeps the state it first observed: drift is
\* corrected and never adopted, and a correction under way puts back the state it
\* remembers (ReconcileReaderLockState::handle).
THEOREM ObservationKept == SpecReconciled => FirstObservationKept
<1>1. RInv /\ [NextReconciled]_allVars =>
        \A r \in Reader : requests = 0 /\ forms' = forms
          => /\ expected[r] # Unset => expected'[r] = expected[r]
             /\ step = "store" /\ Current = r => expected'[r] \in {expected[r], want}
  BY KeptStep DEF Kept
<1> QED
  BY <1>1, RInvHolds, PTL DEF SpecReconciled, FirstObservationKept

-----------------------------------------------------------------------------
(***************************************************************************)
(* What the queue and its workers promise survives the reconciler beside   *)
(* them: it touches neither jobs nor workers and only adds to the log.     *)
(***************************************************************************)
LEMMA Beside ==
  ASSUME [NextReconciled]_allVars, ~[Next]_vars
  PROVE  /\ UNCHANGED <<autoOpened, queueVars, workerVars, requests>>
         /\ \/ audit' = audit
            \/ audit' = audit \cup {<<Current, "lock_state_reconciled">>}
BY DEF NextReconciled, Reconcile, StartPass, Load, ReadActual, Seed, Correct, StoreAgain,
       LoadPayloads, PublishLoaded, RecordReconciled, GiveUpReader, Drift, SaveReaderForm,
       allVars, vars, deviceVars, storeVars

\* The auto-relock of a door is owed by some job, or reported as failed, although the
\* reconciler drives the same outputs.
THEOREM RelockStillOwed == SpecReconciled => []AutoRelockOwed
<1>1. InitReconciler => AutoRelockOwed
  BY DEF InitReconciler, Init, AutoRelockOwed
<1>2. RInv /\ RInv' /\ AutoRelockOwed /\ [NextReconciled]_allVars => AutoRelockOwed'
  <2> SUFFICES ASSUME RInv, RInv', AutoRelockOwed, [NextReconciled]_allVars
               PROVE  AutoRelockOwed'
    OBVIOUS
  <2>1. CASE [Next]_vars
    BY <2>1, RelockOwedStep DEF RInv
  <2>2. CASE ~[Next]_vars
    <3>1. /\ UNCHANGED <<autoOpened, queueVars, workerVars>>
          /\ audit \subseteq audit'
      BY <2>2, Beside
    <3>2. \A j \in JobId, c \in autoOpened : Owes(j, c) => Owes(j, c)'
      BY <3>1, OwesKept DEF queueVars, workerVars
    <3> QED
      BY <3>1, <3>2 DEF AutoRelockOwed, Drives, ElementsOf, CommandFailed
  <2> QED
    BY <2>1, <2>2
<1> QED
  BY <1>1, <1>2, RInvHolds, PTL DEF SpecReconciled

\* With the reconciler beside them queue and workers still keep the safety part of what
\* the caller of a lock command is promised.
THEOREM CommandsStillKept == SpecReconciled => C!Safety
<1>1. InitReconciler => C!Init /\ Working
  BY InitCommands DEF InitReconciler, Init, Working, Behind
<1>2. RInv /\ Working /\ [NextReconciled]_allVars => Working'
  <2> SUFFICES ASSUME RInv, Working, [NextReconciled]_allVars PROVE Working'
    OBVIOUS
  <2>1. CASE [Next]_vars
    BY <2>1, AuditStep DEF RInv
  <2>2. CASE ~[Next]_vars
    <3>1. audit \subseteq audit' /\ UNCHANGED <<queueVars, workerVars>>
      BY <2>2, Beside
    <3> QED
      BY <3>1, BehindKept DEF Working, queueVars, workerVars
  <2> QED
    BY <2>1, <2>2
<1>3. RInv /\ RInv' /\ Working /\ [NextReconciled]_allVars => [C!Next]_(C!vars)
  <2> SUFFICES ASSUME RInv, RInv', Working, [NextReconciled]_allVars
               PROVE  [C!Next]_(C!vars)
    OBVIOUS
  <2>1. CASE [Next]_vars
    BY <2>1, CommandStep DEF RInv
  <2>2. CASE ~[Next]_vars
    <3>1. /\ UNCHANGED <<jobs, holds, pc>>
          /\ \/ audit' = audit
             \/ audit' = audit \cup {<<Current, "lock_state_reconciled">>}
      BY <2>2, Beside DEF queueVars, workerVars
    <3>2. commands' = commands
      BY <3>1, CommandKept, NoCommand
    <3>3. carriedOut' = carriedOut /\ givenUp' = givenUp
      BY <3>1 DEF carriedOut, givenUp, CommandFailed
    <3> QED
      BY <3>2, <3>3 DEF C!vars
  <2> QED
    BY <2>1, <2>2
<1> QED
  BY <1>1, <1>2, <1>3, RInvHolds, PTL DEF SpecReconciled, C!Safety
=============================================================================
