------------------------- MODULE LockReconciliation -------------------------
(***************************************************************************)
(* The scheduled command app:reconcile-reader-lock-state running beside    *)
(* the queue workers of LockCommands: it takes the readers one by one,     *)
(* remembers the reader's expected state, reads its first output and       *)
(* either adopts what it sees or writes the remembered state back.  The    *)
(* schedule starts a pass only when the one before has ended.  The page of *)
(* a reader may replace the metadata that hold the expected state at any   *)
(* time.                                                                   *)
(***************************************************************************)
EXTENDS LockCommands

CONSTANTS
  Sweep,       \* Seq(Reader): the readers ordered by name
  DriftBudget, \* bound: times an output changes by itself
  FormBudget   \* bound: times the form of a reader is saved

ASSUME SweepAssumption ==
  /\ Sweep \in Seq(Reader)
  /\ Sweep # <<>>
  /\ DriftBudget \in Nat /\ FormBudget \in Nat

VARIABLES
  step,   \* where the reconciler is: "rest" between two passes
  turn,   \* index in Sweep of the reader being reconciled
  want,   \* the expected state as it was when the reader was loaded
  seen,   \* the state read from the first output
  pos,    \* position in the list the step walks through
  loaded, \* lock states in the payloads being published
  drifts, forms

reconcilerVars == <<step, turn, want, seen, pos, loaded>>
surroundings == <<drifts, forms>>
allVars == <<vars, reconcilerVars, surroundings>>

Current == Sweep[turn]

ReconcilerTypeOK ==
  /\ TypeOK
  /\ step \in {"rest", "load", "read", "seed", "write", "store", "build", "send", "event"}
  /\ turn \in 1..Len(Sweep)
  /\ want \in Power \cup {Unset}
  /\ seen \in LockStates
  /\ pos \in Nat \ {0}
  /\ loaded \in [Lock -> LockStates]
  /\ drifts \in 0..DriftBudget /\ forms \in 0..FormBudget

InitReconciler ==
  /\ Init
  /\ step = "rest" /\ turn = 1 /\ want = Unset /\ seen = Unknown
  /\ pos = 1 /\ loaded = Blank
  /\ drifts = 0 /\ forms = 0

-----------------------------------------------------------------------------
\* Slip: the sweep goes one reader too far.
NextReaderTooFar ==
  /\ IF turn <= Len(Sweep) THEN turn' = turn + 1 /\ step' = "load"
                           ELSE turn' = 1 /\ step' = "rest"
  /\ want' = Unset /\ seen' = Unknown /\ pos' = 1 /\ loaded' = Blank

\* On to the next reader, or the end of the pass.
NextReader ==
  /\ IF turn < Len(Sweep) THEN turn' = turn + 1 /\ step' = "load"
                          ELSE turn' = 1 /\ step' = "rest"
  /\ want' = Unset /\ seen' = Unknown /\ pos' = 1 /\ loaded' = Blank

StartPass ==
  /\ step = "rest"
  /\ step' = "load"
  /\ UNCHANGED <<vars, turn, want, seen, pos, loaded, surroundings>>

Load ==
  /\ step = "load"
  /\ want' = expected[Current]
  /\ step' = "read"
  /\ UNCHANGED <<vars, turn, seen, pos, loaded, surroundings>>

\* readLockState asks the first output only.
Readings(r) ==
  IF Outputs[r] = <<>> THEN {Unknown}
  ELSE {output[Outputs[r][1]]} \cup (IF Outputs[r][1] \in Illegible THEN {Unknown} ELSE {})

\* Unknown: skipped.  No expectation: adopt.  In sync: done.  Otherwise correct.
ReadActual ==
  /\ step = "read"
  /\ \E actual \in Readings(Current) :
       IF actual = Unknown \/ actual = want THEN NextReader
       ELSE /\ seen' = actual
            /\ step' = IF want = Unset THEN "seed" ELSE "write"
            /\ UNCHANGED <<turn, want, pos, loaded>>
  /\ UNCHANGED <<vars, surroundings>>

Seed ==
  /\ step = "seed"
  /\ expected' = [expected EXCEPT ![Current] = seen]
  /\ NextReader
  /\ UNCHANGED <<deviceVars, lockState, retained, audit, queueVars, workerVars,
                 requests, faults, surroundings>>

\* Go on to the next element of the list, or to the next step after the last.
Walk(list, next) ==
  IF pos < Len(list) THEN pos' = pos + 1 /\ UNCHANGED step
                     ELSE pos' = 1 /\ step' = next

\* Slip: the state that was read is written back.
CorrectToSeen ==
  /\ step = "write"
  /\ output' = [output EXCEPT ![Outputs[Current][pos]] = seen]
  /\ Walk(Outputs[Current], "store")
  /\ UNCHANGED <<autoOpened, storeVars, queueVars, workerVars, requests, faults,
                 turn, want, seen, loaded, surroundings>>

\* setLockState(reader, remembered state): all outputs, one after the other.
Correct ==
  /\ step = "write"
  /\ output' = [output EXCEPT ![Outputs[Current][pos]] = want]
  /\ Walk(Outputs[Current], "store")
  /\ UNCHANGED <<autoOpened, storeVars, queueVars, workerVars, requests, faults,
                 turn, want, seen, loaded, surroundings>>

\* Slip: the state that was read becomes the expected one.
StoreSeen ==
  /\ step = "store"
  /\ expected' = [expected EXCEPT ![Current] = seen]
  /\ step' = "build"
  /\ UNCHANGED <<deviceVars, lockState, retained, audit, queueVars, workerVars,
                 requests, faults, turn, want, seen, pos, loaded, surroundings>>

\* The remembered state is saved again, from the reader as it was loaded.
StoreAgain ==
  /\ step = "store"
  /\ expected' = [expected EXCEPT ![Current] = want]
  /\ step' = "build"
  /\ UNCHANGED <<deviceVars, lockState, retained, audit, queueVars, workerVars,
                 requests, faults, turn, want, seen, pos, loaded, surroundings>>

\* The locks' stored state is published as it is: nothing has corrected it.
LoadPayloads ==
  /\ step = "build"
  /\ LET locks == TopicLocks[Current]
     IN  /\ loaded' = [l \in Lock |-> IF l \in ElementsOf(locks) THEN lockState[l] ELSE Unknown]
         /\ step' = IF locks = <<>> THEN "event" ELSE "send"
  /\ UNCHANGED <<vars, turn, want, seen, pos, surroundings>>

PublishLoaded ==
  /\ step = "send"
  /\ LET l == TopicLocks[Current][pos]
     IN  \/ retained' = [retained EXCEPT ![l] = loaded[l]] /\ UNCHANGED faults
         \/ Fault /\ UNCHANGED retained
  /\ Walk(TopicLocks[Current], "event")
  /\ UNCHANGED <<deviceVars, expected, lockState, audit, queueVars, workerVars,
                 requests, turn, want, seen, loaded, surroundings>>

RecordReconciled ==
  /\ step = "event"
  /\ audit' = audit \cup {<<Current, "lock_state_reconciled">>}
  /\ NextReader
  /\ UNCHANGED <<deviceVars, expected, lockState, retained, queueVars, workerVars,
                 requests, faults, surroundings>>

\* An exception is caught inside the loop: the reader is given up for this pass.
GiveUpReader ==
  /\ step # "rest"
  /\ Fault
  /\ NextReader
  /\ UNCHANGED <<deviceVars, storeVars, queueVars, workerVars, requests, surroundings>>

Reconcile ==
  \/ StartPass \/ Load \/ ReadActual \/ Seed \/ Correct \/ StoreAgain
  \/ LoadPayloads \/ PublishLoaded \/ RecordReconciled

\* An output changes by itself: a remote unit restarts, somebody throws a switch.
Drift(c) ==
  /\ drifts < DriftBudget
  /\ drifts' = drifts + 1
  /\ output' = [output EXCEPT ![c] = Opposite(@)]
  /\ UNCHANGED <<autoOpened, storeVars, queueVars, workerVars, requests, faults,
                 reconcilerVars, forms>>

\* The form of a reader is saved as it was rendered.  It replaces the metadata with
\* what it has fields for, and the expected state is not among them; with name,
\* config, area and bindings unchanged it publishes nothing.
SaveReaderForm(r) ==
  /\ forms < FormBudget
  /\ forms' = forms + 1
  /\ expected' = [expected EXCEPT ![r] = Unset]
  /\ UNCHANGED <<deviceVars, lockState, retained, audit, queueVars, workerVars,
                 requests, faults, reconcilerVars, drifts>>

NextReconciled ==
  \/ Next /\ UNCHANGED <<reconcilerVars, surroundings>>
  \/ Reconcile
  \/ GiveUpReader
  \/ \E c \in Channel : Drift(c)
  \/ \E r \in Reader : SaveReaderForm(r)

\* The scheduler starts the command every minute and each pass runs to its end.
SpecReconciled ==
  /\ InitReconciler
  /\ [][NextReconciled]_allVars
  /\ \A j \in JobId : WF_allVars(Mature(j) /\ UNCHANGED <<reconcilerVars, surroundings>>)
  /\ \A w \in Worker : WF_allVars(Run(w) /\ UNCHANGED <<reconcilerVars, surroundings>>)
  /\ WF_allVars(Reconcile)

-----------------------------------------------------------------------------
\* Drift is repaired for good: whatever commands, forms, faults and drift came before, the
\* first output of every reader, the one that is read, ends up, and stays, in the
\* reader's expected state, unless another reader drives it too.
DriftRepaired ==
  \A r \in Reader :
    Outputs[r] # <<>> /\ (\A s \in Reader \ {r} : Outputs[r][1] \notin Drives(s))
      => <>[](output[Outputs[r][1]] = expected[r])

\* Until the first command the reconciler keeps the state it first observed as the
\* reader's expected state: drift is corrected, never adopted, unless the reader's
\* form dropped the expectation.  A correction that is under way then puts back the
\* state it remembers, never another one.
FirstObservationKept ==
  [][\A r \in Reader : requests = 0 /\ forms' = forms
        => /\ expected[r] # Unset => expected'[r] = expected[r]
           /\ step = "store" /\ Current = r => expected'[r] \in {expected[r], want}]_allVars

\* "Unlock action should auto-relock when enabled." (ProcessReaderEvent.php:146):
\* a locked door that accepted cards unlock ends up locked again.
RelockSticks ==
  (\A c \in Channel : output[c] = Locked) => <>[](\A c \in Channel : output[c] = Locked)
=============================================================================
