---------------------------- MODULE CommandJobs ----------------------------
(***************************************************************************)
(* What a caller is promised of a lock command, workers and queue left     *)
(* out: it is attempted one attempt at a time and MaxTries times at most,  *)
(* it ends once an attempt has recorded the lock event or when the         *)
(* attempts are used up, with a failure event, and it does end.  A reader  *)
(* that drives nothing is the one whose commands may end without a trace.  *)
(***************************************************************************)
EXTENDS Naturals

CONSTANTS
  JobId, Reader, MaxTries,
  Driving,  \* the readers that drive an output
  Nobody    \* the reader of a job number that is free

VARIABLES
  cmd,      \* [JobId -> a command and how far it is]
  done,     \* the readers with an event of a lock command carried out
  failed    \* the readers with an event of a lock command given up

vars == <<cmd, done, failed>>

\* A command of reader r in phase p, in its attempt n.
At(p, n, r) == [phase |-> p, tries |-> n, reader |-> r]
Absent == At("absent", 0, Nobody)
In(j, phases) == cmd[j].phase \in phases

\* Command j is now in phase p, in its attempt n.
Turn(j, p, n) == cmd' = [cmd EXCEPT ![j] = At(p, n, cmd[j].reader)]

Init == cmd = [j \in JobId |-> Absent] /\ done = {} /\ failed = {}

\* A command is given by a caller, or the relock by a command under way.
Submit(j) ==
  /\ In(j, {"absent"})
  /\ \E r \in Reader : cmd' = [cmd EXCEPT ![j] = At("waiting", 0, r)]
  /\ UNCHANGED <<done, failed>>

\* An attempt begins.
Start(j) ==
  /\ In(j, {"waiting"}) /\ cmd[j].tries < MaxTries
  /\ Turn(j, "running", cmd[j].tries + 1)
  /\ UNCHANGED <<done, failed>>

\* The lock event is recorded.
Report(j) ==
  /\ In(j, {"running"}) /\ cmd[j].reader \in Driving
  /\ Turn(j, "reported", cmd[j].tries)
  /\ done' = done \cup {cmd[j].reader}
  /\ UNCHANGED failed

\* An attempt breaks off, after its event as well as before it.
Return(j) ==
  /\ In(j, {"running", "reported"})
  /\ Turn(j, "waiting", cmd[j].tries)
  /\ UNCHANGED <<done, failed>>

\* The command ends: its event is on record or there was nothing to do.
Finish(j) ==
  /\ In(j, {"reported"}) \/ (In(j, {"running"}) /\ cmd[j].reader \notin Driving)
  /\ cmd' = [cmd EXCEPT ![j] = Absent]
  /\ UNCHANGED <<done, failed>>

\* The command is given up after its last attempt.
GiveUp(j) ==
  /\ ~In(j, {"absent"}) /\ cmd[j].tries = MaxTries
  /\ cmd' = [cmd EXCEPT ![j] = Absent]
  /\ failed' = failed \cup {cmd[j].reader}
  /\ UNCHANGED done

Next ==
  \E j \in JobId :
    Submit(j) \/ Start(j) \/ Report(j) \/ Return(j) \/ Finish(j) \/ GiveUp(j)

Ends == \A j \in JobId : ~In(j, {"absent"}) ~> In(j, {"absent"})

Safety == Init /\ [][Next]_vars
Spec == Safety /\ Ends
=============================================================================
