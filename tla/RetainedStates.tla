--------------------------- MODULE RetainedStates ---------------------------
(***************************************************************************)
(* What the device states that AccessControlMqttPublisher publishes have   *)
(* in common: the processes that publish them, the retained message of     *)
(* each device at the broker, and what can go wrong on the way there.      *)
(* Nobody locks anything: a payload is built from rows read earlier, and   *)
(* whoever sends last is what the broker retains.                          *)
(***************************************************************************)
EXTENDS Naturals, FiniteSets

CONSTANTS
  Web,          \* requests served at the same time
  Worker,       \* queue workers
  Monitor,      \* the process of monitor-device-mqtt-commands
  Nobody,       \* no process, no task, nothing retained
  MaxRequests,  \* bound: what requests, commands and jobs of readers may cost
  MaxFaults     \* bound: lost publishes and processes that are cut off

ASSUME RequestBounds == MaxRequests \in Nat /\ MaxFaults \in Nat

Process == Web \cup Worker \cup {Monitor}

ASSUME ProcessesDiffer ==
  /\ Web \cap Worker = {} /\ Monitor \notin Web \cup Worker
  /\ Nobody \notin Process \cup BOOLEAN
Device == {"lock", "sensor"}

\* The costs are for the bound alone: two requests about the lock, three about
\* the sensor or one of each when it is six.
Cost == [lock |-> 3, sensor |-> 2]

VARIABLES
  pc,         \* the next step of each process
  task,       \* what it is doing
  mem,        \* the rows it has read
  retained,   \* the retained message of each device
  lone,       \* history: the process that builds a device's message alone
  disturbed,  \* history: why a retained message may lag (see Settled)
  requests, faults

publisherVars == <<pc, task, mem, retained, lone, disturbed, requests, faults>>

\* From the first read for a message until it was sent (and noted).
Window == [lock |-> {"freshArea", "lockSend"},
           sensor |-> {"sensorSave", "sensorCheck", "sensorSend", "sensorCache"}]

Building(d) == {p \in Process : pc[p] \in Window[d]}

\* Process p begins to build a message of d.
Open(p, d) ==
  LET others == Building(d) \ {p}
  IN  /\ lone' = [lone EXCEPT ![d] = IF others = {} THEN p ELSE Nobody]
      /\ disturbed' = [disturbed EXCEPT ![d] = @ \/ others # {}]

\* Something happened to d that nobody is going to publish.
Disturb(d) ==
  /\ lone' = [lone EXCEPT ![d] = Nobody]
  /\ disturbed' = [disturbed EXCEPT ![d] = TRUE]

Calm == UNCHANGED <<lone, disturbed>>

NoRows == [lock |-> Nobody, area |-> Nobody, sensor |-> Nobody]

\* Process p goes on with what it has read; one that ends forgets everything.
Continue(p, next, rows) ==
  /\ pc' = [pc EXCEPT ![p] = next]
  /\ task' = [task EXCEPT ![p] = IF next = "idle" THEN Nobody ELSE @]
  /\ mem' = [mem EXCEPT ![p] = IF next = "idle" THEN NoRows ELSE rows]

Step(p, next) == Continue(p, next, mem[p])

\* A request about d is counted.
Count(d) == requests + Cost[d] <= MaxRequests /\ requests' = requests + Cost[d]

Begin(p, t, first) ==
  /\ pc[p] = "idle"
  /\ pc' = [pc EXCEPT ![p] = first]
  /\ task' = [task EXCEPT ![p] = t]

\* publishPayload: the message reaches the broker or does not; the exception
\* is logged and the caller never learns of it.
Transmit(d, payload, arrives) ==
  IF arrives THEN retained' = [retained EXCEPT ![d] = payload] /\ UNCHANGED faults
             ELSE faults < MaxFaults /\ faults' = faults + 1 /\ UNCHANGED retained
=============================================================================
