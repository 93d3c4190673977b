------------------------- MODULE LightControl_proofs -------------------------
(***************************************************************************)
(* Proofs about LightControl for any number of workers and requests at     *)
(* once, any levels and colors and all values of the bounds.               *)
(***************************************************************************)
EXTENDS LightControl, FiniteSetTheorems, SequenceTheorems, TLAPS

-----------------------------------------------------------------------------
(***************************************************************************)
(* The inductive invariants.                                               *)
(***************************************************************************)
Handling == {q \in Request : request[q] # Idle}
Busy == {w \in Worker : job[w] # Idle}

\* Every command is at one place at most: being handled, in hand or waiting.
Counting ==
  /\ IsFiniteSet(Handling) /\ IsFiniteSet(Busy)
  /\ Cardinality(Handling) + Cardinality(Busy) + Len(queue) + Len(reserved) <= commands

OneBusy == \A v, w \in Busy : v = w

\* A command that is on its way to a worker will publish the row.
Coming ==
  \/ \E q \in Handling : request[q].at = "dispatch"
  \/ queue # <<>> \/ reserved # <<>>

\* The job of w will publish the row as it is, or has done so.
Publishes(w) ==
  \/ job[w].at \in {"find", "act", "fresh"}
  \/ job[w].at = "publish" /\ job[w].seen = light
  \/ job[w].at = "ack" /\ retained = light

Kept ==
  /\ OneBusy
  /\ \/ Coming
     \/ Busy = {} /\ retained = light
     \/ Busy # {} /\ \A w \in Busy : Publishes(w)

Settling == ~disturbed => Kept

Unsent(f) ==
  \E q \in Handling : request[q].at = "dispatch" /\ f \in DOMAIN request[q].command

\* The last job in the queue that sets a field sets it to what was commanded last.
LastQueued(f) ==
  \E i \in DOMAIN queue :
    /\ f \in DOMAIN queue[i].command /\ queue[i].command[f] = last[f]
    /\ \A k \in DOMAIN queue : f \in DOMAIN queue[k].command => k <= i

NotQueued(f) == \A i \in DOMAIN queue : f \notin DOMAIN queue[i].command

\* The job in hand, if it has yet to act, leaves the field as it was commanded last.
LastActed(f) ==
  /\ \A w \in Busy :
       /\ job[w].at = "find" =>
            (IF f \in DOMAIN job[w].command THEN job[w].command[f] ELSE light[f]) = last[f]
       /\ job[w].at = "act" => Saved(job[w].command, job[w].seen, light)[f] = last[f]
  /\ (\A w \in Busy : job[w].at \notin {"find", "act"}) => light[f] = last[f]

Follows(f) == Unsent(f) \/ LastQueued(f) \/ (NotQueued(f) /\ LastActed(f))

Ordered == ~disorder => OneBusy /\ reserved = <<>> /\ \A f \in Field : Follows(f)

IInv == TypeOK /\ Counting /\ Settling /\ Ordered

-----------------------------------------------------------------------------
(***************************************************************************)
(* Rows, commands and sequences.                                           *)
(***************************************************************************)
LEMMA CommandFacts ==
  ASSUME NEW c \in Command
  PROVE  /\ DOMAIN c \subseteq Field
         /\ "state" \in DOMAIN c => c["state"] \in BOOLEAN
         /\ "brightness" \in DOMAIN c => c["brightness"] \in Brightness
         /\ "color" \in DOMAIN c => c["color"] \in Color
<1>1. CASE c \in {Off, On}
  <2>1. c = [state |-> FALSE] \/ c = [state |-> TRUE]
    BY <1>1 DEF Off, On
  <2>2. CASE c = [state |-> FALSE]
    <3>1. DOMAIN c = {"state"} /\ c["state"] = FALSE
      BY <2>2
    <3> QED
      BY <3>1 DEF Field
  <2>3. CASE c = [state |-> TRUE]
    <3>1. DOMAIN c = {"state"} /\ c["state"] = TRUE
      BY <2>3
    <3> QED
      BY <3>1 DEF Field
  <2> QED
    BY <2>1, <2>2, <2>3
<1>2. CASE \E b \in Brightness : c = OnAt(b)
  BY <1>2 DEF OnAt, Field
<1>3. CASE c \in Dims
  BY <1>3 DEF Dims, Field
<1>4. CASE c \in Tints
  BY <1>4 DEF Tints, Field
<1> QED
  BY <1>1, <1>2, <1>3, <1>4 DEF Command

LEMMA LightFacts ==
  ASSUME NEW row \in Light
  PROVE  /\ DOMAIN row = Field /\ row = [f \in Field |-> row[f]]
         /\ row["state"] \in BOOLEAN /\ row["brightness"] \in Brightness
         /\ row["color"] \in Color
BY DEF Light, Field

LEMMA RowIsLight ==
  ASSUME NEW row, row = [f \in Field |-> row[f]],
         row["state"] \in BOOLEAN, row["brightness"] \in Brightness, row["color"] \in Color
  PROVE  row \in Light
<1>1. row = [state |-> row["state"], brightness |-> row["brightness"], color |-> row["color"]]
  BY DEF Field
<1> QED
  BY <1>1 DEF Light

\* Two rows that agree on every field are the same.
LEMMA SameRow ==
  ASSUME NEW r \in Light, NEW s \in Light, \A f \in Field : r[f] = s[f]
  PROVE  r = s
BY LightFacts

\* What saving a command makes of a field.
LEMMA SavedField ==
  ASSUME NEW c, NEW loaded, NEW row, NEW f \in Field
  PROVE  \/ Saved(c, loaded, row)[f] = row[f] /\ (f \notin DOMAIN c \/ c[f] = loaded[f])
         \/ Saved(c, loaded, row)[f] = c[f] /\ f \in DOMAIN c /\ c[f] # loaded[f]
<1>1. ASSUME f \in DOMAIN c, c[f] # loaded[f]
      PROVE  Saved(c, loaded, row)[f] = c[f]
  BY <1>1, Zenon DEF Saved
<1>2. ASSUME f \notin DOMAIN c
      PROVE  Saved(c, loaded, row)[f] = row[f]
  BY <1>2, Zenon DEF Saved
<1>3. ASSUME c[f] = loaded[f]
      PROVE  Saved(c, loaded, row)[f] = row[f]
  BY <1>3, Zenon DEF Saved
<1> QED
  BY <1>1, <1>2, <1>3, Zenon

LEMMA SavedFacts ==
  ASSUME NEW c \in Command, NEW loaded, NEW row \in Light
  PROVE  /\ Saved(c, loaded, row) \in Light
         /\ \A f \in Field : f \notin DOMAIN c => Saved(c, loaded, row)[f] = row[f]
<1> DEFINE saved == Saved(c, loaded, row)
<1>1. saved = [f \in Field |-> saved[f]]
  BY DEF Saved
<1>0. ASSUME NEW f \in Field
      PROVE  /\ saved[f] = row[f] \/ (f \in DOMAIN c /\ saved[f] = c[f])
             /\ f \notin DOMAIN c => saved[f] = row[f]
  <2>1. \/ Saved(c, loaded, row)[f] = row[f] /\ (f \notin DOMAIN c \/ c[f] = loaded[f])
        \/ Saved(c, loaded, row)[f] = c[f] /\ f \in DOMAIN c /\ c[f] # loaded[f]
    BY SavedField
  <2> QED
    BY <2>1
<1>2. "state" \in Field /\ "brightness" \in Field /\ "color" \in Field
  BY DEF Field
<1> HIDE DEF saved
<1>3. /\ saved["state"] \in BOOLEAN /\ saved["brightness"] \in Brightness
      /\ saved["color"] \in Color
  BY <1>0, <1>2, CommandFacts, LightFacts
<1>4. saved \in Light
  BY <1>1, <1>3, RowIsLight
<1> QED
  BY <1>0, <1>4 DEF saved

\* Saving a command over the row as it was loaded sets its fields.
LEMMA SavedFresh ==
  ASSUME NEW c, NEW row, NEW f \in Field
  PROVE  Saved(c, row, row)[f] = (IF f \in DOMAIN c THEN c[f] ELSE row[f])
BY DEF Saved

LEMMA AppliedFacts ==
  ASSUME NEW c \in Command, NEW row \in Light
  PROVE  /\ Applied(c, row) \in Light
         /\ \A f \in Field :
              Applied(c, row)[f] = (IF f \in DOMAIN c THEN c[f] ELSE row[f])
<1> DEFINE applied == Applied(c, row)
<1>1. /\ applied = [f \in Field |-> applied[f]]
      /\ \A f \in Field : applied[f] = (IF f \in DOMAIN c THEN c[f] ELSE row[f])
  BY DEF Applied
<1>2. "state" \in Field /\ "brightness" \in Field /\ "color" \in Field
  BY DEF Field
<1> HIDE DEF applied
<1>3. /\ applied["state"] \in BOOLEAN /\ applied["brightness"] \in Brightness
      /\ applied["color"] \in Color
  BY <1>1, <1>2, CommandFacts, LightFacts
<1>4. applied \in Light
  BY <1>1, <1>3, RowIsLight
<1> QED
  BY <1>1, <1>4 DEF applied

\* What is asked for is a command.
LEMMA AskedFor ==
  ASSUME TypeOK
  PROVE  {On, Off, Toggled} \cup {OnAt(b) : b \in Brightness} \cup Dims \cup Tints \subseteq Command
<1>1. light["state"] \in BOOLEAN
  BY LightFacts DEF TypeOK
<1>2. Toggled \in {On, Off}
  BY <1>1 DEF Toggled, On, Off
<1> QED
  BY <1>2 DEF Command

LEMMA PopFacts ==
  ASSUME NEW S, NEW s \in Seq(S), s # <<>>
  PROVE  /\ Head(s) \in S /\ Tail(s) \in Seq(S) /\ Len(s) \in Nat \ {0}
         /\ Head(s) = s[1] /\ DOMAIN s = 1..Len(s)
         /\ Len(Tail(s)) = Len(s) - 1 /\ DOMAIN Tail(s) = 1..(Len(s) - 1)
         /\ \A i \in 1..(Len(s) - 1) : Tail(s)[i] = s[i + 1]
OBVIOUS

LEMMA PushFacts ==
  ASSUME NEW S, NEW s \in Seq(S), NEW x \in S
  PROVE  /\ Append(s, x) \in Seq(S) /\ Len(s) \in Nat
         /\ Len(Append(s, x)) = Len(s) + 1 /\ Append(s, x) # <<>>
         /\ DOMAIN s = 1..Len(s) /\ DOMAIN Append(s, x) = 1..(Len(s) + 1)
         /\ \A i \in 1..Len(s) : Append(s, x)[i] = s[i]
         /\ Append(s, x)[Len(s) + 1] = x
OBVIOUS

LEMMA RemoveFacts ==
  ASSUME NEW S, NEW s \in Seq(S), NEW i \in DOMAIN s
  PROVE  RemoveAt(s, i) \in Seq(S) /\ Len(RemoveAt(s, i)) = Len(s) - 1 /\ s[i] \in S
<1> DEFINE before == SubSeq(s, 1, i - 1)
           after == SubSeq(s, i + 1, Len(s))
<1>1. Len(s) \in Nat /\ i \in 1..Len(s) /\ s[i] \in S
  OBVIOUS
<1>2. before \in Seq(S) /\ Len(before) = i - 1
  BY <1>1, SubSeqProperties
<1>3. after \in Seq(S) /\ Len(after) = Len(s) - i
  BY <1>1, SubSeqProperties
<1>4. RemoveAt(s, i) = before \o after
  BY Zenon DEF RemoveAt
<1> HIDE DEF before, after
<1>5. before \o after \in Seq(S) /\ Len(before \o after) = Len(before) + Len(after)
  BY <1>2, <1>3, ConcatProperties
<1> QED
  BY <1>1, <1>2, <1>3, <1>4, <1>5

-----------------------------------------------------------------------------
(***************************************************************************)
(* Types and counts.                                                       *)
(***************************************************************************)
LEMMA NoMore ==
  ASSUME NEW S, IsFiniteSet(S), NEW T, T \subseteq S
  PROVE  IsFiniteSet(T) /\ Cardinality(T) \in Nat /\ Cardinality(T) <= Cardinality(S)
         /\ Cardinality(S) \in Nat
BY FS_Subset, FS_CardinalityType

LEMMA OneMore ==
  ASSUME NEW S, IsFiniteSet(S), NEW x, NEW T, T \subseteq S \cup {x}
  PROVE  IsFiniteSet(T) /\ Cardinality(T) \in Nat /\ Cardinality(T) <= Cardinality(S) + 1
         /\ Cardinality(S) \in Nat
<1>1. /\ IsFiniteSet(S \cup {x}) /\ Cardinality(S) \in Nat
      /\ Cardinality(S \cup {x}) \in {Cardinality(S), Cardinality(S) + 1}
  BY FS_AddElement, FS_CardinalityType
<1>2. IsFiniteSet(T) /\ Cardinality(T) \in Nat /\ Cardinality(T) <= Cardinality(S \cup {x})
  BY <1>1, NoMore
<1> QED
  BY <1>1, <1>2

LEMMA OneLess ==
  ASSUME NEW S, IsFiniteSet(S), NEW x \in S, NEW T, T \subseteq S \ {x}
  PROVE  IsFiniteSet(T) /\ Cardinality(T) \in Nat /\ Cardinality(T) <= Cardinality(S) - 1
         /\ Cardinality(S) \in Nat
<1>1. /\ IsFiniteSet(S \ {x}) /\ Cardinality(S) \in Nat
      /\ Cardinality(S \ {x}) = Cardinality(S) - 1
  BY FS_RemoveElement, FS_CardinalityType
<1>2. IsFiniteSet(T) /\ Cardinality(T) \in Nat /\ Cardinality(T) <= Cardinality(S \ {x})
  BY <1>1, NoMore
<1> QED
  BY <1>1, <1>2

LEMMA Bounds ==
  ASSUME TypeOK
  PROVE  /\ commands \in Nat /\ faults \in Nat /\ crashes \in Nat
         /\ MaxCommands \in Nat /\ MaxFaults \in Nat /\ MaxCrashes \in Nat /\ Tries \in Nat \ {0}
BY LightBounds DEF TypeOK

LEMMA Lengths ==
  ASSUME TypeOK
  PROVE  commands \in Nat /\ Len(queue) \in Nat /\ Len(reserved) \in Nat
BY LightBounds DEF TypeOK

LEMMA Counted ==
  ASSUME Counting
  PROVE  /\ IsFiniteSet(Handling) /\ IsFiniteSet(Busy)
         /\ Cardinality(Handling) \in Nat /\ Cardinality(Busy) \in Nat
         /\ Cardinality(Handling) + Cardinality(Busy) + Len(queue) + Len(reserved) <= commands
BY FS_CardinalityType DEF Counting

LEMMA FaultCounts ==
  ASSUME TypeOK, \/ UNCHANGED faults
                 \/ faults < MaxFaults /\ faults' = faults + 1
  PROVE  faults' \in 0..MaxFaults
BY LightBounds DEF TypeOK

\* The rest of the type invariant follows from the counts.
LEMMA CountsBound ==
  ASSUME Counting', commands' \in Nat, Len(queue') \in Nat, Len(reserved') \in Nat
  PROVE  Len(queue') + Len(reserved') <= commands'
<1>1. Cardinality(Handling') \in Nat /\ Cardinality(Busy') \in Nat
  BY FS_CardinalityType DEF Counting
<1>2. Cardinality(Handling') + Cardinality(Busy') + Len(queue') + Len(reserved') <= commands'
  BY DEF Counting
<1> QED
  BY <1>1, <1>2

LEMMA InitTypes == Init => TypeOK /\ Counting
<1> SUFFICES ASSUME Init PROVE TypeOK /\ Counting
  OBVIOUS
<1>1. Handling = {} /\ Busy = {}
  BY DEF Init, Handling, Busy
<1>2. queue \in Seq(Queued) /\ reserved \in Seq(Queued) /\ Len(queue) = 0 /\ Len(reserved) = 0
  BY DEF Init
<1>3. Counting
  BY <1>1, <1>2, FS_EmptySet DEF Counting, Init
<1>4. /\ 0 \in 0..MaxCommands /\ 0 \in 0..MaxFaults /\ 0 \in 0..MaxCrashes
      /\ Len(queue) + Len(reserved) <= 0
  BY <1>2, LightBounds
<1>5. /\ light \in Light /\ retained \in Light /\ last \in Light
      /\ request \in [Request -> Handled \cup {Idle}] /\ job \in [Worker -> Held \cup {Idle}]
      /\ \A q \in Request : request[q] = Idle
      /\ disturbed \in BOOLEAN /\ disorder \in BOOLEAN
  BY DEF Init
<1>6. TypeOK
  BY <1>2, <1>4, <1>5 DEF Init, TypeOK
<1> QED
  BY <1>3, <1>6

LEMMA ReceiveTypes ==
  ASSUME TypeOK, Counting, NEW q \in Request, NEW page, NEW command \in Command,
         NEW at \in {"save", "dispatch"}, page = "mqtt" => at = "dispatch",
         Receive(q, page, command, at)
  PROVE  TypeOK' /\ Counting'
<1> DEFINE new == [page |-> page, command |-> command, loaded |-> light, at |-> at]
<1>1. /\ new \in Handled /\ new.page = page /\ new.at = at
      /\ request' = [request EXCEPT ![q] = new]
      /\ commands' = commands + 1 /\ commands' \in 0..MaxCommands
      /\ UNCHANGED <<light, retained, queue, reserved, job, faults, crashes, last, disturbed, disorder>>
  BY Bounds DEF Receive, Handled, TypeOK, workerVars
<1> HIDE DEF new
<1>2. Handling' \subseteq Handling \cup {q} /\ Busy' = Busy
  BY <1>1 DEF Handling, Busy, TypeOK
<1>3. Counting'
  <2>1. /\ IsFiniteSet(Handling') /\ Cardinality(Handling') \in Nat
        /\ Cardinality(Handling') <= Cardinality(Handling) + 1 /\ Cardinality(Handling) \in Nat
    BY <1>2, OneMore DEF Counting
  <2>2. IsFiniteSet(Busy') /\ Cardinality(Busy') = Cardinality(Busy) /\ Cardinality(Busy) \in Nat
    BY <1>2, Counted
  <2>3. Len(queue') = Len(queue) /\ Len(reserved') = Len(reserved) /\ commands' = commands + 1
    BY <1>1
  <2>4. Cardinality(Handling') + Cardinality(Busy') + Len(queue') + Len(reserved') <= commands'
    <3>1. Cardinality(Handling) + Cardinality(Busy) + Len(queue) + Len(reserved) <= commands
      BY Counted
    <3>2. Len(queue) \in Nat /\ Len(reserved) \in Nat /\ commands \in Nat
      BY Lengths
    <3> QED
      BY <2>1, <2>2, <2>3, <3>1, <3>2
  <2> QED
    BY <2>1, <2>2, <2>4 DEF Counting
<1>4. request' \in [Request -> Handled \cup {Idle}]
  BY <1>1 DEF TypeOK
<1>5. \A p \in Request : request'[p] # Idle /\ request'[p].page = "mqtt" => request'[p].at = "dispatch"
  BY <1>1 DEF TypeOK
<1> QED
  BY <1>1, <1>3, <1>4, <1>5 DEF TypeOK

\* A request that is saved or ends.
LEMMA RequestTypes ==
  ASSUME TypeOK, Counting, NEW q \in Request,
         SaveApi(q) \/ SaveWebhook(q) \/ DispatchJob(q) \/ CutOff(q)
  PROVE  TypeOK' /\ Counting'
<1>1. /\ request[q] \in Handled /\ request[q] # Idle /\ q \in Handling
      /\ request[q].command \in Command /\ request[q].page \in Page /\ request[q].loaded \in Light
  BY DEF SaveApi, SaveWebhook, DispatchJob, CutOff, TypeOK, Handled, Handling
<1>2. /\ UNCHANGED <<retained, reserved, job, crashes, commands>>
      /\ Busy' = Busy
      /\ disturbed' \in BOOLEAN /\ disorder' \in BOOLEAN
      /\ UNCHANGED faults \/ (faults < MaxFaults /\ faults' = faults + 1)
  BY DEF SaveApi, SaveWebhook, DispatchJob, CutOff, TypeOK, workerVars, Busy
<1>0. faults' \in 0..MaxFaults
  BY <1>2, FaultCounts
<1>3. light' \in Light /\ last' \in Light
  BY <1>1, SavedFacts, AppliedFacts DEF SaveApi, SaveWebhook, DispatchJob, CutOff, TypeOK
<1>4. /\ Cardinality(Handling) \in Nat /\ Cardinality(Busy) \in Nat
      /\ Cardinality(Handling) + Cardinality(Busy) + Len(queue) + Len(reserved) <= commands
      /\ Len(queue) \in Nat /\ Len(reserved) \in Nat /\ commands \in Nat
  BY Counted, Lengths
<1>5. CASE SaveWebhook(q)
  <2> DEFINE new == [page |-> request[q].page, command |-> request[q].command,
                     loaded |-> request[q].loaded, at |-> "dispatch"]
  <2>1. /\ new \in Handled /\ new.at = "dispatch" /\ request' = [request EXCEPT ![q] = new]
        /\ UNCHANGED queue
    BY <1>1, <1>5 DEF SaveWebhook, Handled
  <2> HIDE DEF new
  <2>2. Handling' \subseteq Handling
    BY <1>1, <2>1 DEF Handling, TypeOK
  <2>3. Counting'
    <3>1. IsFiniteSet(Handling') /\ Cardinality(Handling') \in Nat
          /\ Cardinality(Handling') <= Cardinality(Handling)
      BY <2>2, NoMore DEF Counting
    <3>2. IsFiniteSet(Busy') /\ Cardinality(Busy') = Cardinality(Busy)
      BY <1>2 DEF Counting
    <3>3. Len(queue') = Len(queue) /\ Len(reserved') = Len(reserved) /\ commands' = commands
      BY <1>2, <2>1
    <3>4. Cardinality(Handling') + Cardinality(Busy') + Len(queue') + Len(reserved') <= commands'
      BY <1>4, <3>1, <3>2, <3>3
    <3> QED
      BY <3>1, <3>2, <3>4 DEF Counting
  <2>4. /\ request' \in [Request -> Handled \cup {Idle}]
        /\ \A p \in Request :
             request'[p] # Idle /\ request'[p].page = "mqtt" => request'[p].at = "dispatch"
    BY <2>1 DEF TypeOK
  <2> QED
    BY <1>0, <1>2, <1>3, <2>1, <2>3, <2>4 DEF TypeOK
<1>6. CASE ~SaveWebhook(q)
  <2>1. request' = [request EXCEPT ![q] = Idle]
    BY <1>6 DEF SaveApi, DispatchJob, CutOff
  <2>2. queue' \in Seq(Queued) /\ Len(queue') \in {Len(queue), Len(queue) + 1}
    <3>1. CASE DispatchJob(q)
      <4>1. [command |-> request[q].command, tries |-> 0] \in Queued
        BY <1>1, Bounds DEF Queued
      <4> QED
        BY <3>1, <4>1, PushFacts DEF DispatchJob, TypeOK
    <3> QED
      BY <1>6, <3>1 DEF SaveApi, CutOff, TypeOK
  <2>3. Handling' \subseteq Handling \ {q}
    BY <2>1 DEF Handling, TypeOK
  <2>4. Counting'
    <3>1. /\ IsFiniteSet(Handling') /\ Cardinality(Handling') \in Nat
          /\ Cardinality(Handling') <= Cardinality(Handling) - 1
      BY <1>1, <2>3, OneLess DEF Counting
    <3>2. /\ IsFiniteSet(Busy') /\ Cardinality(Busy') = Cardinality(Busy)
          /\ Len(reserved') = Len(reserved) /\ commands' = commands
      BY <1>2, Counted
    <3>3. Cardinality(Handling') + Cardinality(Busy') + Len(queue') + Len(reserved') <= commands'
      BY <1>4, <2>2, <3>1, <3>2
    <3> QED
      BY <3>1, <3>2, <3>3 DEF Counting
  <2>5. /\ request' \in [Request -> Handled \cup {Idle}]
        /\ \A p \in Request :
             request'[p] # Idle /\ request'[p].page = "mqtt" => request'[p].at = "dispatch"
    BY <2>1 DEF TypeOK
  <2>6. Len(queue') + Len(reserved') <= commands'
    <3>1. Len(queue') \in Nat /\ Len(reserved') \in Nat /\ commands' \in Nat
      BY <1>2, <1>4, <2>2
    <3> QED
      BY <2>4, <3>1, CountsBound
  <2> QED
    BY <1>0, <1>2, <1>3, <2>2, <2>5, <2>4, <2>6 DEF TypeOK
<1> QED
  BY <1>5, <1>6

\* What is known of a job in hand.
LEMMA HeldFacts ==
  ASSUME TypeOK, NEW w \in Worker, job[w] # Idle
  PROVE  /\ job[w].command \in Command /\ job[w].tries \in 1..Tries /\ job[w].seen \in Light
         /\ job[w].at \in {"find", "act", "fresh", "publish", "ack"}
         /\ w \in Busy
<1>1. job[w] \in Held
  BY DEF TypeOK
<1> QED
  BY <1>1 DEF Held, Busy

\* A job that goes on keeps its command, and no other job moves.
LEMMA GoOnFacts ==
  ASSUME TypeOK, NEW w \in Worker, job[w] # Idle,
         NEW stage \in {"find", "act", "fresh", "publish", "ack"}, NEW row \in Light,
         GoOn(w, stage, row)
  PROVE  /\ job' \in [Worker -> Held \cup {Idle}] /\ Busy' = Busy
         /\ job'[w] # Idle /\ job'[w].at = stage /\ job'[w].seen = row
         /\ job'[w].command = job[w].command
         /\ \A v \in Worker \ {w} : job'[v] = job[v]
<1> DEFINE new == [command |-> job[w].command, tries |-> job[w].tries, seen |-> row, at |-> stage]
<1>1. /\ new \in Held /\ new.at = stage /\ new.seen = row /\ new.command = job[w].command
      /\ job' = [job EXCEPT ![w] = new]
  BY HeldFacts DEF Held, GoOn
<1> HIDE DEF new
<1>2. /\ job' \in [Worker -> Held \cup {Idle}] /\ job'[w] = new
      /\ \A v \in Worker \ {w} : job'[v] = job[v]
  BY <1>1 DEF TypeOK
<1>3. Busy' = Busy
  BY <1>1, <1>2, IdleIsNone DEF Busy
<1> QED
  BY <1>1, <1>2, <1>3, IdleIsNone

\* A step of a job in hand.
LEMMA HandleTypes ==
  ASSUME TypeOK, Counting, NEW w \in Worker,
         Find(w) \/ Act(w) \/ Swallow(w) \/ Fresh(w) \/ Publish(w)
  PROVE  TypeOK' /\ Counting'
<1>1. /\ job[w] # Idle /\ job[w].seen \in Light /\ job[w].command \in Command
      /\ light \in Light
  BY HeldFacts DEF Find, Act, Swallow, Fresh, Publish, TypeOK
<1>2. \E stage \in {"find", "act", "fresh", "publish", "ack"}, row \in Light : GoOn(w, stage, row)
  BY <1>1 DEF Find, Act, Swallow, Fresh, Publish
<1>3. job' \in [Worker -> Held \cup {Idle}] /\ Busy' = Busy
  BY <1>1, <1>2, GoOnFacts
<1>4. /\ UNCHANGED <<queue, reserved, crashes, request, commands, last>>
      /\ UNCHANGED faults \/ (faults < MaxFaults /\ faults' = faults + 1)
      /\ disturbed' \in BOOLEAN /\ disorder' \in BOOLEAN
      /\ retained' \in Light /\ Handling' = Handling
  BY <1>1 DEF Find, Act, Swallow, Fresh, Publish, TypeOK, requestVars, Handling
<1>5. faults' \in 0..MaxFaults
  BY <1>4, FaultCounts
<1>6. light' \in Light
  BY <1>1, SavedFacts DEF Find, Act, Swallow, Fresh, Publish
<1>7. Counting'
  BY <1>3, <1>4 DEF Counting
<1> QED
  BY <1>3, <1>4, <1>5, <1>6, <1>7 DEF TypeOK

\* A worker takes a job or lets go of one, or a job goes back into the queue.
LEMMA QueueTypes ==
  ASSUME TypeOK, Counting,
         \/ \E w \in Worker : Reserve(w) \/ Fail(w) \/ Acknowledge(w) \/ Crash(w)
         \/ \E i \in DOMAIN reserved : Redeliver(i)
  PROVE  TypeOK' /\ Counting'
<1>1. /\ UNCHANGED <<light, retained, faults, request, commands, last>> /\ Handling' = Handling
      /\ disturbed' \in BOOLEAN /\ disorder' \in BOOLEAN
      /\ UNCHANGED crashes \/ (crashes < MaxCrashes /\ crashes' = crashes + 1)
  BY DEF Reserve, Fail, Acknowledge, Crash, Redeliver, TypeOK, requestVars, Handling, Alone
<1>2. crashes' \in 0..MaxCrashes
  BY <1>1, LightBounds DEF TypeOK
<1>3. /\ Cardinality(Handling) \in Nat /\ Cardinality(Busy) \in Nat
      /\ Cardinality(Handling) + Cardinality(Busy) + Len(queue) + Len(reserved) <= commands
      /\ Len(queue) \in Nat /\ Len(reserved) \in Nat /\ commands \in Nat
      /\ IsFiniteSet(Busy) /\ IsFiniteSet(Handling)
  BY Counted, Lengths
<1>4. /\ job' \in [Worker -> Held \cup {Idle}]
      /\ queue' \in Seq(Queued) /\ reserved' \in Seq(Queued)
      /\ IsFiniteSet(Busy') /\ Cardinality(Busy') \in Nat
      /\ Cardinality(Busy') + Len(queue') + Len(reserved')
           <= Cardinality(Busy) + Len(queue) + Len(reserved)
  <2>1. ASSUME NEW w \in Worker, Reserve(w)
        PROVE  <1>4!:
    <3> DEFINE new == [command |-> Head(queue).command, tries |-> Head(queue).tries + 1,
                       seen |-> light, at |-> "find"]
    <3>1. /\ Head(queue) \in Queued /\ queue' = Tail(queue) /\ queue' \in Seq(Queued)
          /\ Len(queue') = Len(queue) - 1 /\ Head(queue).tries < Tries
          /\ job' = [job EXCEPT ![w] = new] /\ UNCHANGED reserved
      BY <2>1, PopFacts DEF Reserve, TypeOK
    <3>2. Head(queue).tries + 1 \in 1..Tries /\ Head(queue).command \in Command /\ light \in Light
      BY <3>1, LightBounds DEF Queued, TypeOK
    <3>3. new \in Held
      BY <3>2 DEF Held
    <3> HIDE DEF new
    <3>4. job' \in [Worker -> Held \cup {Idle}] /\ Busy' \subseteq Busy \cup {w}
      BY <3>1, <3>3 DEF TypeOK, Busy
    <3>5. /\ IsFiniteSet(Busy') /\ Cardinality(Busy') \in Nat
          /\ Cardinality(Busy') <= Cardinality(Busy) + 1
      BY <3>4, <1>3, OneMore
    <3>6. Len(reserved') = Len(reserved)
      BY <3>1
    <3>7. Cardinality(Busy') + Len(queue') + Len(reserved')
            <= Cardinality(Busy) + Len(queue) + Len(reserved)
      BY <1>3, <3>5, <3>6, <3>1
    <3> QED
      BY <3>1, <3>4, <3>5, <3>7 DEF TypeOK
  <2>2. ASSUME NEW w \in Worker, Fail(w)
        PROVE  <1>4!:
    <3>1. /\ queue' \in Seq(Queued) /\ Len(queue') = Len(queue) - 1 /\ UNCHANGED <<reserved, job>>
      BY <2>2, PopFacts DEF Fail, TypeOK
    <3>2. Busy' = Busy /\ Len(reserved') = Len(reserved)
      BY <3>1 DEF Busy
    <3>3. Cardinality(Busy') + Len(queue') + Len(reserved')
            <= Cardinality(Busy) + Len(queue) + Len(reserved)
      BY <1>3, <3>1, <3>2
    <3> QED
      BY <1>3, <3>1, <3>2, <3>3 DEF TypeOK
  <2>3. ASSUME NEW w \in Worker, Acknowledge(w)
        PROVE  <1>4!:
    <3>1. /\ UNCHANGED <<queue, reserved>> /\ job' = [job EXCEPT ![w] = Idle]
      BY <2>3 DEF Acknowledge
    <3>2. job' \in [Worker -> Held \cup {Idle}] /\ Busy' \subseteq Busy
      BY <3>1 DEF TypeOK, Busy
    <3>3. IsFiniteSet(Busy') /\ Cardinality(Busy') \in Nat /\ Cardinality(Busy') <= Cardinality(Busy)
      BY <1>3, <3>2, NoMore
    <3>4. Len(reserved') = Len(reserved) /\ Len(queue') = Len(queue)
      BY <3>1
    <3>5. Cardinality(Busy') + Len(queue') + Len(reserved')
            <= Cardinality(Busy) + Len(queue) + Len(reserved)
      BY <1>3, <3>3, <3>4
    <3> QED
      BY <3>1, <3>2, <3>3, <3>5 DEF TypeOK
  <2>4. ASSUME NEW w \in Worker, Crash(w)
        PROVE  <1>4!:
    <3> DEFINE back == [command |-> job[w].command, tries |-> job[w].tries]
    <3>1. back \in Queued /\ w \in Busy
      BY <2>4, HeldFacts, LightBounds DEF Crash, Queued
    <3>2. reserved' = Append(reserved, back) /\ UNCHANGED queue /\ job' = [job EXCEPT ![w] = Idle]
      BY <2>4 DEF Crash
    <3> HIDE DEF back
    <3>3. /\ reserved' \in Seq(Queued) /\ Len(reserved') = Len(reserved) + 1
      BY <3>1, <3>2, PushFacts DEF TypeOK
    <3>4. job' \in [Worker -> Held \cup {Idle}] /\ Busy' \subseteq Busy \ {w}
      BY <3>2 DEF TypeOK, Busy
    <3>5. /\ IsFiniteSet(Busy') /\ Cardinality(Busy') \in Nat
          /\ Cardinality(Busy') <= Cardinality(Busy) - 1
      BY <1>3, <3>1, <3>4, OneLess
    <3>6. Len(queue') = Len(queue)
      BY <3>2
    <3>7. Cardinality(Busy') + Len(queue') + Len(reserved')
            <= Cardinality(Busy) + Len(queue) + Len(reserved)
      BY <1>3, <3>5, <3>6, <3>3
    <3> QED
      BY <3>2, <3>3, <3>4, <3>5, <3>7 DEF TypeOK
  <2>5. ASSUME NEW i \in DOMAIN reserved, Redeliver(i)
        PROVE  <1>4!:
    <3>1. /\ reserved' \in Seq(Queued) /\ Len(reserved') = Len(reserved) - 1
          /\ reserved[i] \in Queued
      BY <2>5, RemoveFacts DEF Redeliver, TypeOK
    <3>2. queue' \in Seq(Queued) /\ Len(queue') = Len(queue) + 1
      BY <2>5, <3>1, PushFacts DEF Redeliver, TypeOK
    <3>3. Busy' = Busy /\ job' = job
      BY <2>5 DEF Redeliver, Busy
    <3>4. Cardinality(Busy') = Cardinality(Busy) /\ IsFiniteSet(Busy')
      BY <1>3, <3>3
    <3>5. Cardinality(Busy') + Len(queue') + Len(reserved')
            <= Cardinality(Busy) + Len(queue) + Len(reserved)
      BY <1>3, <3>1, <3>2, <3>4
    <3> QED
      BY <1>3, <3>1, <3>2, <3>3, <3>4, <3>5 DEF TypeOK
  <2> QED
    BY <2>1, <2>2, <2>3, <2>4, <2>5
<1>5. Counting'
  <2>1. IsFiniteSet(Handling') /\ Cardinality(Handling') = Cardinality(Handling) /\ commands' = commands
    BY <1>1, <1>3
  <2>2. Len(queue') \in Nat /\ Len(reserved') \in Nat
    BY <1>4
  <2>3. Cardinality(Handling') + Cardinality(Busy') + Len(queue') + Len(reserved') <= commands'
    BY <1>3, <1>4, <2>1, <2>2, SMTT(30)
  <2> QED
    BY <1>4, <2>1, <2>3 DEF Counting
<1>6. Len(queue') + Len(reserved') <= commands'
  <2>1. Len(queue') \in Nat /\ Len(reserved') \in Nat /\ commands' \in Nat
    BY <1>1, <1>3, <1>4
  <2> QED
    BY <1>5, <2>1, CountsBound
<1> QED
  BY <1>1, <1>2, <1>4, <1>5, <1>6 DEF TypeOK

LEMMA TypeStep ==
  ASSUME TypeOK, Counting, [Next]_vars
  PROVE  TypeOK' /\ Counting'
<1>1. ASSUME NEW q \in Request, Api(q) \/ Webhook(q) \/ Mqtt(q)
      PROVE  TypeOK' /\ Counting'
  <2>1. PICK page \in {"api", "webhook", "mqtt"}, command \in Command, at \in {"save", "dispatch"} :
          (page = "mqtt" => at = "dispatch") /\ Receive(q, page, command, at)
    <3>1. CASE Api(q)
      <4>1. PICK c \in {On, Off, Toggled} \cup {OnAt(b) : b \in Brightness} \cup Dims \cup Tints :
              Receive(q, "api", c, "save")
        BY <3>1 DEF Api
      <4>2. c \in Command
        BY AskedFor
      <4> QED
        BY <4>1, <4>2
    <3>2. CASE Webhook(q)
      <4>1. PICK c \in {On, Off} \cup {OnAt(b) : b \in Brightness \ {0}} \cup Dims \cup Tints :
              Receive(q, "webhook", c, "save")
        BY <3>2 DEF Webhook
      <4>2. c \in Command
        BY AskedFor
      <4> QED
        BY <4>1, <4>2
    <3>3. CASE Mqtt(q)
      <4>1. PICK c \in {On, Off, Toggled} \cup Dims \cup Tints : Receive(q, "mqtt", c, "dispatch")
        BY <3>3 DEF Mqtt
      <4>2. c \in Command
        BY AskedFor
      <4> QED
        BY <4>1, <4>2
    <3> QED
      BY <1>1, <3>1, <3>2, <3>3
  <2> QED
    BY <2>1, ReceiveTypes
<1>2. CASE UNCHANGED vars
  BY <1>2 DEF vars, TypeOK, Counting, Handling, Busy
<1> QED
  BY <1>1, <1>2, RequestTypes, HandleTypes, QueueTypes DEF Next

-----------------------------------------------------------------------------
(***************************************************************************)
(* Facts about single steps that both invariants use.                      *)
(***************************************************************************)

\* A new request is not one that was about to dispatch.
LEMMA ReceiveStep ==
  ASSUME TypeOK, NEW q \in Request, Api(q) \/ Webhook(q) \/ Mqtt(q)
  PROVE  /\ UNCHANGED <<light, retained, queue, reserved, job, last, disturbed, disorder>>
         /\ \A p \in Handling : p \in Handling' /\ request'[p] = request[p]
<1>1. PICK page, command, at : Receive(q, page, command, at)
  BY DEF Api, Webhook, Mqtt
<1>2. /\ request[q] = Idle
      /\ request' = [request EXCEPT ![q] = [page |-> page, command |-> command,
                                            loaded |-> light, at |-> at]]
      /\ UNCHANGED <<light, retained, queue, reserved, job, last, disturbed, disorder>>
  BY <1>1 DEF Receive, workerVars
<1>3. \A p \in Request \ {q} : request'[p] = request[p]
  BY <1>2 DEF TypeOK
<1> QED
  BY <1>2, <1>3 DEF Handling

LEMMA SaveStep ==
  ASSUME TypeOK, NEW q \in Request, SaveWebhook(q)
  PROVE  /\ UNCHANGED <<retained, queue, reserved, job, last, disturbed, disorder>>
         /\ light' = Saved(request[q].command, request[q].loaded, light)
         /\ request[q].command \in Command
         /\ q \in Handling' /\ request'[q].at = "dispatch"
         /\ request'[q].command = request[q].command
         /\ \A p \in Handling : request[p].at = "dispatch" =>
              p \in Handling' /\ request'[p] = request[p]
<1> DEFINE new == [page |-> request[q].page, command |-> request[q].command,
                   loaded |-> request[q].loaded, at |-> "dispatch"]
<1>1. request[q] \in Handled /\ request[q].at = "save" /\ request[q].command \in Command
  BY DEF SaveWebhook, TypeOK, Handled
<1>2. /\ new \in Handled /\ new.at = "dispatch" /\ new.command = request[q].command
      /\ request' = [request EXCEPT ![q] = new]
      /\ light' = Saved(request[q].command, request[q].loaded, light)
      /\ UNCHANGED <<retained, queue, reserved, job, last, disturbed, disorder>>
  BY <1>1 DEF SaveWebhook, Handled, workerVars
<1> HIDE DEF new
<1>3. request'[q] = new /\ \A p \in Request \ {q} : request'[p] = request[p]
  BY <1>2 DEF TypeOK
<1> QED
  BY <1>1, <1>2, <1>3, IdleIsNone DEF Handling

LEMMA DispatchStep ==
  ASSUME TypeOK, NEW q \in Request, DispatchJob(q)
  PROVE  /\ UNCHANGED <<light, retained, reserved, job, disturbed, disorder>>
         /\ queue' = Append(queue, [command |-> request[q].command, tries |-> 0])
         /\ [command |-> request[q].command, tries |-> 0] \in Queued
         /\ last' = Applied(request[q].command, last)
         /\ request[q].command \in Command
         /\ \A p \in Handling \ {q} : p \in Handling' /\ request'[p] = request[p]
<1>1. request[q] \in Handled /\ request[q].command \in Command
  BY DEF DispatchJob, TypeOK, Handled
<1>2. request' = [request EXCEPT ![q] = Idle]
  BY DEF DispatchJob
<1>3. \A p \in Request \ {q} : request'[p] = request[p]
  BY <1>2 DEF TypeOK
<1>4. [command |-> request[q].command, tries |-> 0] \in Queued
  BY <1>1, LightBounds DEF Queued
<1> QED
  BY <1>1, <1>3, <1>4 DEF DispatchJob, workerVars, Handling

\* A job taken by a worker when no other is at work.
LEMMA ReserveStep ==
  ASSUME TypeOK, NEW w \in Worker, Reserve(w), Alone(w)
  PROVE  /\ Busy = {} /\ Busy' = {w}
         /\ job'[w].at = "find" /\ job'[w].command = Head(queue).command
         /\ queue # <<>> /\ queue' = Tail(queue)
         /\ UNCHANGED <<light, retained, reserved, request, last>>
<1> DEFINE new == [command |-> Head(queue).command, tries |-> Head(queue).tries + 1,
                   seen |-> light, at |-> "find"]
<1>1. /\ Head(queue) \in Queued /\ Head(queue).tries < Tries /\ queue # <<>>
      /\ job' = [job EXCEPT ![w] = new] /\ queue' = Tail(queue) /\ job[w] = Idle
  BY PopFacts DEF Reserve, TypeOK
<1>2. Head(queue).tries + 1 \in 1..Tries /\ Head(queue).command \in Command /\ light \in Light
  BY <1>1, LightBounds DEF Queued, TypeOK
<1>3. new \in Held /\ new.at = "find" /\ new.command = Head(queue).command
  BY <1>2 DEF Held
<1> HIDE DEF new
<1>4. Busy = {} /\ job'[w] = new /\ \A v \in Worker \ {w} : job'[v] = Idle
  BY <1>1 DEF Busy, Alone, TypeOK
<1>5. Busy' = {w}
  BY <1>3, <1>4, IdleIsNone DEF Busy
<1> QED
  BY <1>1, <1>3, <1>4, <1>5 DEF Reserve, requestVars

LEMMA GoOnStep ==
  ASSUME TypeOK, NEW w \in Worker, Find(w) \/ Act(w) \/ Swallow(w) \/ Fresh(w) \/ Publish(w)
  PROVE  /\ w \in Busy /\ Busy' = Busy /\ job[w].command \in Command /\ light \in Light
         /\ job'[w].command = job[w].command
         /\ UNCHANGED <<queue, reserved, request, last, Handling>>
         /\ Find(w) => /\ job[w].at = "find" /\ job'[w].at = "act" /\ job'[w].seen = light
                       /\ UNCHANGED <<light, retained>>
         /\ Act(w) => /\ job[w].at = "act" /\ job'[w].at = "fresh" /\ UNCHANGED retained
                      /\ light' = Saved(job[w].command, job[w].seen, light)
         /\ Fresh(w) => /\ job[w].at = "fresh" /\ job'[w].at = "publish" /\ job'[w].seen = light
                        /\ UNCHANGED <<light, retained>>
         /\ Publish(w) => /\ job[w].at = "publish" /\ job'[w].at = "ack" /\ UNCHANGED light
                          /\ retained' = job[w].seen \/ disturbed'
<1>1. /\ job[w] # Idle /\ job[w].command \in Command /\ job[w].seen \in Light /\ light \in Light
      /\ w \in Busy
  BY HeldFacts DEF Find, Act, Swallow, Fresh, Publish, TypeOK
<1>2. CASE Find(w)
  <2>1. GoOn(w, "act", light) /\ job[w].at = "find"
    BY <1>2 DEF Find
  <2>2. /\ Busy' = Busy /\ job'[w].at = "act" /\ job'[w].seen = light
        /\ job'[w].command = job[w].command
    BY <1>1, <2>1, GoOnFacts
  <2> QED
    BY <1>1, <1>2, <2>1, <2>2 DEF Find, Act, Fresh, Publish, requestVars, Handling
<1>3. CASE Act(w)
  <2>1. GoOn(w, "fresh", job[w].seen) /\ job[w].at = "act"
    BY <1>3 DEF Act
  <2>2. Busy' = Busy /\ job'[w].at = "fresh" /\ job'[w].command = job[w].command
    BY <1>1, <2>1, GoOnFacts
  <2> QED
    BY <1>1, <1>3, <2>1, <2>2 DEF Find, Act, Fresh, Publish, requestVars, Handling
<1>4. CASE Fresh(w)
  <2>1. GoOn(w, "publish", light) /\ job[w].at = "fresh"
    BY <1>4 DEF Fresh
  <2>2. /\ Busy' = Busy /\ job'[w].at = "publish" /\ job'[w].seen = light
        /\ job'[w].command = job[w].command
    BY <1>1, <2>1, GoOnFacts
  <2> QED
    BY <1>1, <1>4, <2>1, <2>2 DEF Find, Act, Fresh, Publish, requestVars, Handling
<1>5. CASE Publish(w)
  <2>1. GoOn(w, "ack", job[w].seen) /\ job[w].at = "publish"
    BY <1>5 DEF Publish
  <2>2. Busy' = Busy /\ job'[w].at = "ack" /\ job'[w].command = job[w].command
    BY <1>1, <2>1, GoOnFacts
  <2> QED
    BY <1>1, <1>5, <2>1, <2>2 DEF Find, Act, Fresh, Publish, requestVars, Handling
<1>6. CASE Swallow(w) /\ ~Act(w)
  <2>1. GoOn(w, "ack", job[w].seen) /\ job[w].at = "act"
    BY <1>6 DEF Swallow
  <2>2. Busy' = Busy /\ job'[w].at = "ack" /\ job'[w].command = job[w].command
    BY <1>1, <2>1, GoOnFacts
  <2> QED
    BY <1>1, <1>6, <2>1, <2>2 DEF Swallow, Find, Act, Fresh, Publish, requestVars, Handling
<1> QED
  BY <1>2, <1>3, <1>4, <1>5, <1>6

LEMMA AcknowledgeStep ==
  ASSUME TypeOK, NEW w \in Worker, Acknowledge(w)
  PROVE  /\ w \in Busy /\ job[w].at = "ack" /\ Busy' = Busy \ {w}
         /\ UNCHANGED <<light, retained, queue, reserved, request, last, disturbed, disorder>>
BY DEF Acknowledge, TypeOK, Busy, requestVars

-----------------------------------------------------------------------------
(***************************************************************************)
(* RetainedSettles.                                                        *)
(***************************************************************************)

\* While nothing goes wrong, a command that is coming keeps coming or is taken.
LEMMA SettlingStep ==
  ASSUME TypeOK, Settling, [Next]_vars
  PROVE  Settling'
<1> SUFFICES ASSUME ~disturbed' PROVE Kept'
  BY DEF Settling
<1>1. ASSUME NEW q \in Request, Api(q) \/ Webhook(q) \/ Mqtt(q)
      PROVE  Kept'
  <2>1. /\ UNCHANGED <<light, retained, queue, reserved, job, disturbed>> /\ Busy' = Busy
        /\ \A p \in Handling : p \in Handling' /\ request'[p] = request[p]
    BY <1>1, ReceiveStep DEF Busy
  <2> QED
    BY <2>1 DEF Settling, Kept, OneBusy, Coming, Publishes
<1>2. ASSUME NEW q \in Request, SaveWebhook(q)
      PROVE  Kept'
  <2>1. Busy' = Busy /\ ~disturbed /\ q \in Handling' /\ request'[q].at = "dispatch"
    BY <1>2, SaveStep DEF Busy
  <2> QED
    BY <2>1 DEF Settling, Kept, OneBusy, Coming
<1>3. ASSUME NEW q \in Request, DispatchJob(q)
      PROVE  Kept'
  <2>1. Busy' = Busy /\ ~disturbed /\ queue' # <<>>
    <3>1. queue \in Seq(Queued)
      BY DEF TypeOK
    <3>2. /\ queue' = Append(queue, [command |-> request[q].command, tries |-> 0])
          /\ [command |-> request[q].command, tries |-> 0] \in Queued
          /\ UNCHANGED <<job, disturbed>>
      BY <1>3, DispatchStep
    <3> QED
      BY <3>1, <3>2, PushFacts DEF Busy
  <2> QED
    BY <2>1 DEF Settling, Kept, OneBusy, Coming
<1>4. ASSUME NEW w \in Worker, Reserve(w)
      PROVE  Kept'
  <2>1. Alone(w)
    BY <1>4 DEF Reserve
  <2>2. Busy' = {w} /\ job'[w].at = "find"
    BY <1>4, <2>1, ReserveStep
  <2> QED
    BY <2>2 DEF Kept, OneBusy, Publishes
<1>5. ASSUME NEW w \in Worker, Find(w) \/ Act(w) \/ Swallow(w) \/ Fresh(w) \/ Publish(w)
      PROVE  Kept'
  <2>1. ~disturbed /\ ~Swallow(w)
    BY <1>5 DEF Find, Act, Swallow, Fresh, Publish
  <2>2. /\ w \in Busy /\ Busy' = Busy /\ UNCHANGED <<queue, reserved, request, Handling>>
        /\ OneBusy
    BY <1>5, <2>1, GoOnStep DEF Settling, Kept
  <2>3. OneBusy'
    BY <2>2 DEF OneBusy
  <2>4. Coming => Coming'
    BY <2>2 DEF Coming
  <2>5. Publishes(w) => Publishes(w)'
    BY <1>5, <2>1, GoOnStep DEF Publishes
  <2>6. Busy = {w}
    BY <2>2 DEF OneBusy
  <2> QED
    BY <2>1, <2>2, <2>3, <2>4, <2>5, <2>6 DEF Settling, Kept
<1>6. ASSUME NEW w \in Worker, Acknowledge(w)
      PROVE  Kept'
  <2>1. /\ w \in Busy /\ job[w].at = "ack" /\ Busy' = Busy \ {w} /\ ~disturbed
        /\ UNCHANGED <<light, retained, queue, reserved, request>> /\ Handling' = Handling
    BY <1>6, AcknowledgeStep DEF Handling
  <2>2. Busy' = {} /\ OneBusy'
    BY <2>1 DEF Settling, Kept, OneBusy
  <2> QED
    BY <2>1, <2>2 DEF Settling, Kept, Coming, Publishes
<1>7. ASSUME NEW w \in Worker, Crash(w)
      PROVE  Kept'
  <2>1. ~disturbed /\ Busy' \subseteq Busy /\ reserved' # <<>>
    <3>1. reserved \in Seq(Queued)
      BY DEF TypeOK
    <3>2. job[w].command \in Command /\ job[w].tries \in 1..Tries
      BY <1>7, HeldFacts DEF Crash
    <3>3. [command |-> job[w].command, tries |-> job[w].tries] \in Queued
      BY <3>2, LightBounds DEF Queued
    <3> QED
      BY <1>7, <3>1, <3>3, PushFacts DEF Crash, Busy, TypeOK
  <2> QED
    BY <2>1 DEF Settling, Kept, OneBusy, Coming
<1>8. ASSUME NEW i \in DOMAIN reserved, Redeliver(i)
      PROVE  Kept'
  <2>1. reserved[i] \in Queued /\ queue \in Seq(Queued)
    BY DEF TypeOK
  <2>2. ~disturbed /\ Busy' = Busy /\ queue' # <<>>
    BY <1>8, <2>1, PushFacts DEF Redeliver, Busy
  <2> QED
    BY <2>2 DEF Settling, Kept, OneBusy, Coming
<1>9. CASE UNCHANGED vars
  BY <1>9 DEF vars, Settling, Kept, OneBusy, Busy, Coming, Handling, Publishes
<1>10. ~(\E q \in Request : SaveApi(q) \/ CutOff(q)) /\ ~(\E w \in Worker : Fail(w))
  BY DEF SaveApi, CutOff, Fail
<1> QED
  BY <1>1, <1>2, <1>3, <1>4, <1>5, <1>6, <1>7, <1>8, <1>9, <1>10 DEF Next

-----------------------------------------------------------------------------
(***************************************************************************)
(* LastCommandWins.                                                        *)
(***************************************************************************)

\* What a save makes of a field depends on no other field of the row.
LEMMA SavedAlike ==
  ASSUME NEW c, NEW loaded, NEW row, NEW other, NEW f \in Field, row[f] = other[f]
  PROVE  Saved(c, loaded, row)[f] = Saved(c, loaded, other)[f]
<1>1. CASE f \in DOMAIN c /\ c[f] # loaded[f]
  <2>1. Saved(c, loaded, row)[f] = c[f]
    BY <1>1, Zenon DEF Saved
  <2>2. Saved(c, loaded, other)[f] = c[f]
    BY <1>1, Zenon DEF Saved
  <2> QED
    BY <2>1, <2>2
<1>2. CASE f \notin DOMAIN c \/ c[f] = loaded[f]
  <2>1. Saved(c, loaded, row)[f] = row[f]
    BY <1>2, SavedField
  <2>2. Saved(c, loaded, other)[f] = other[f]
    BY <1>2, SavedField
  <2> QED
    BY <2>1, <2>2
<1> QED
  BY <1>1, <1>2

\* A step that neither queues nor acts leaves a field as it stands.
LEMMA FollowsKept ==
  ASSUME NEW f \in Field, Follows(f),
         UNCHANGED <<queue, last, job>>, light'[f] = light[f],
         \A p \in Handling : request[p].at = "dispatch" /\ f \in DOMAIN request[p].command =>
           p \in Handling' /\ request'[p] = request[p]
  PROVE  Follows(f)'
<1>1. CASE Unsent(f)
  BY <1>1 DEF Unsent, Follows
<1>2. CASE LastQueued(f)
  BY <1>2 DEF LastQueued, Follows
<1>3. CASE NotQueued(f) /\ LastActed(f)
  <2>1. NotQueued(f)' /\ Busy' = Busy
    BY <1>3 DEF NotQueued, Busy
  <2>2. \A w \in Busy : Saved(job[w].command, job[w].seen, light)[f]
                        = Saved(job[w].command, job[w].seen, light')[f]
    BY SavedAlike
  <2>3. LastActed(f)'
    BY <1>3, <2>1, <2>2 DEF LastActed
  <2> QED
    BY <2>1, <2>3 DEF Follows
<1> QED
  BY <1>1, <1>2, <1>3 DEF Follows

\* The job that is dispatched is the last in the queue.
LEMMA FollowsDispatch ==
  ASSUME TypeOK, NEW q \in Request, DispatchJob(q), NEW f \in Field, Follows(f)
  PROVE  Follows(f)'
<1> DEFINE new == [command |-> request[q].command, tries |-> 0]
           n == Len(queue) + 1
<1>1. /\ queue' = Append(queue, new) /\ new \in Queued /\ new.command = request[q].command
      /\ UNCHANGED <<light, job>> /\ Busy' = Busy
      /\ request[q].command \in Command /\ last \in Light
      /\ last' = Applied(request[q].command, last)
      /\ \A p \in Handling \ {q} : p \in Handling' /\ request'[p] = request[p]
  BY DispatchStep DEF Busy, TypeOK
<1> HIDE DEF new
<1>2. /\ DOMAIN queue = 1..Len(queue) /\ Len(queue) \in Nat /\ n \in Nat
      /\ DOMAIN queue' = 1..n /\ queue'[n] = new
      /\ \A i \in 1..Len(queue) : queue'[i] = queue[i]
  <2>1. queue \in Seq(Queued)
    BY DEF TypeOK
  <2> QED
    BY <1>1, <2>1, PushFacts
<1>3. last'[f] = (IF f \in DOMAIN request[q].command THEN request[q].command[f] ELSE last[f])
  BY <1>1, AppliedFacts
<1>4. CASE f \in DOMAIN request[q].command
  <2>1. /\ n \in DOMAIN queue' /\ f \in DOMAIN queue'[n].command
        /\ queue'[n].command[f] = last'[f]
        /\ \A k \in DOMAIN queue' : k <= n
    BY <1>1, <1>2, <1>3, <1>4
  <2>2. LastQueued(f)'
    BY <2>1 DEF LastQueued
  <2> QED
    BY <2>2 DEF Follows
<1>5. CASE f \notin DOMAIN request[q].command
  <2>1. last'[f] = last[f] /\ f \notin DOMAIN queue'[n].command
    BY <1>1, <1>2, <1>3, <1>5
  <2>2. Unsent(f) => Unsent(f)'
    BY <1>1, <1>5 DEF Unsent
  <2>3. ASSUME LastQueued(f)
        PROVE  LastQueued(f)'
    <3>1. PICK i \in DOMAIN queue :
            /\ f \in DOMAIN queue[i].command /\ queue[i].command[f] = last[f]
            /\ \A k \in DOMAIN queue : f \in DOMAIN queue[k].command => k <= i
      BY <2>3 DEF LastQueued
    <3>2. /\ i \in DOMAIN queue' /\ queue'[i] = queue[i]
          /\ \A k \in DOMAIN queue' : k = n \/ (k \in DOMAIN queue /\ queue'[k] = queue[k])
      BY <1>2
    <3>3. \A k \in DOMAIN queue' : f \in DOMAIN queue'[k].command => k <= i
      BY <2>1, <3>1, <3>2
    <3> QED
      BY <2>1, <3>1, <3>2, <3>3 DEF LastQueued
  <2>4. NotQueued(f) => NotQueued(f)'
    <3>1. \A k \in DOMAIN queue' : k = n \/ (k \in DOMAIN queue /\ queue'[k] = queue[k])
      BY <1>2
    <3> QED
      BY <2>1, <3>1 DEF NotQueued
  <2>5. LastActed(f) => LastActed(f)'
    BY <1>1, <2>1 DEF LastActed
  <2> QED
    BY <2>2, <2>3, <2>4, <2>5 DEF Follows
<1> QED
  BY <1>4, <1>5

\* A job that is taken by the only worker at work.
LEMMA FollowsReserve ==
  ASSUME TypeOK, NEW w \in Worker, Reserve(w), Alone(w), NEW f \in Field, Follows(f)
  PROVE  Follows(f)'
<1>1. /\ Busy = {} /\ Busy' = {w}
      /\ job'[w].at = "find" /\ job'[w].command = Head(queue).command
      /\ queue # <<>> /\ queue' = Tail(queue)
      /\ UNCHANGED <<light, retained, reserved, request, last>> /\ Handling' = Handling
  BY ReserveStep DEF Handling
<1>2. /\ Len(queue) \in Nat \ {0} /\ DOMAIN queue = 1..Len(queue) /\ Head(queue) = queue[1]
      /\ DOMAIN queue' = 1..(Len(queue) - 1)
      /\ \A i \in 1..(Len(queue) - 1) : queue'[i] = queue[i + 1]
  <2>1. queue \in Seq(Queued)
    BY DEF TypeOK
  <2> QED
    BY <1>1, <2>1, PopFacts
<1>3. \A i \in DOMAIN queue' : i + 1 \in DOMAIN queue /\ queue'[i] = queue[i + 1] /\ i + 1 > 1
  BY <1>2
<1>4. CASE Unsent(f)
  BY <1>1, <1>4 DEF Unsent, Follows
<1>5. CASE LastQueued(f)
  <2>1. PICK i \in DOMAIN queue :
          /\ f \in DOMAIN queue[i].command /\ queue[i].command[f] = last[f]
          /\ \A k \in DOMAIN queue : f \in DOMAIN queue[k].command => k <= i
    BY <1>5 DEF LastQueued
  <2>2. CASE i = 1
    <3>1. NotQueued(f)'
      BY <1>2, <1>3, <2>1, <2>2 DEF NotQueued
    <3>2. LastActed(f)'
      BY <1>1, <1>2, <2>1, <2>2 DEF LastActed
    <3> QED
      BY <3>1, <3>2 DEF Follows
  <2>3. CASE i # 1
    <3>1. i - 1 \in DOMAIN queue' /\ queue'[i - 1] = queue[i]
      BY <1>2, <2>3
    <3>2. \A k \in DOMAIN queue' : f \in DOMAIN queue'[k].command => k <= i - 1
      BY <1>2, <1>3, <2>1
    <3>3. LastQueued(f)'
      BY <1>1, <2>1, <3>1, <3>2 DEF LastQueued
    <3> QED
      BY <3>3 DEF Follows
  <2> QED
    BY <2>2, <2>3
<1>6. CASE NotQueued(f) /\ LastActed(f)
  <2>1. NotQueued(f)'
    BY <1>3, <1>6 DEF NotQueued
  <2>2. f \notin DOMAIN job'[w].command
    BY <1>1, <1>2, <1>6 DEF NotQueued
  <2>3. light[f] = last[f]
    BY <1>1, <1>6 DEF LastActed
  <2>4. LastActed(f)'
    BY <1>1, <2>2, <2>3 DEF LastActed
  <2> QED
    BY <2>1, <2>4 DEF Follows
<1> QED
  BY <1>4, <1>5, <1>6 DEF Follows

\* The only job at work goes on.
LEMMA FollowsHandle ==
  ASSUME TypeOK, OneBusy, NEW w \in Worker, Find(w) \/ Act(w) \/ Fresh(w) \/ Publish(w),
         NEW f \in Field, Follows(f)
  PROVE  Follows(f)'
<1>1. /\ w \in Busy /\ Busy' = Busy /\ Busy = {w}
      /\ job'[w].command = job[w].command /\ UNCHANGED <<queue, request, last, Handling>>
  BY GoOnStep DEF OneBusy
<1>2. CASE Unsent(f) \/ LastQueued(f)
  BY <1>1, <1>2 DEF Unsent, LastQueued, Follows
<1>3. CASE NotQueued(f) /\ LastActed(f)
  <2>1. NotQueued(f)'
    BY <1>1, <1>3 DEF NotQueued
  <2>2. LastActed(f)'
    <3>1. CASE Find(w)
      <4>1. /\ job[w].at = "find" /\ job'[w].at = "act" /\ job'[w].seen = light
            /\ UNCHANGED light
        BY <3>1, GoOnStep
      <4>2. Saved(job'[w].command, job'[w].seen, light')[f] = last'[f]
        BY <1>1, <1>3, <4>1, SavedFresh DEF LastActed
      <4> QED
        BY <1>1, <4>1, <4>2 DEF LastActed
    <3>2. CASE Act(w)
      <4>1. /\ job[w].at = "act" /\ job'[w].at = "fresh"
            /\ light' = Saved(job[w].command, job[w].seen, light)
        BY <3>2, GoOnStep
      <4>2. light'[f] = last'[f]
        BY <1>1, <1>3, <4>1 DEF LastActed
      <4> QED
        BY <1>1, <4>1, <4>2 DEF LastActed
    <3>3. CASE Fresh(w) \/ Publish(w)
      <4>1. /\ job[w].at \notin {"find", "act"} /\ job'[w].at \notin {"find", "act"}
            /\ UNCHANGED light
        BY <3>3, GoOnStep
      <4>2. light'[f] = last'[f]
        BY <1>1, <1>3, <4>1 DEF LastActed
      <4> QED
        BY <1>1, <4>1, <4>2 DEF LastActed
    <3> QED
      BY <3>1, <3>2, <3>3
  <2> QED
    BY <2>1, <2>2 DEF Follows
<1> QED
  BY <1>2, <1>3 DEF Follows

\* As long as nothing gets out of order every field follows its last command.
LEMMA OrderedStep ==
  ASSUME TypeOK, Ordered, [Next]_vars
  PROVE  Ordered'
<1> DEFINE Good == OneBusy /\ reserved = <<>> /\ \A f \in Field : Follows(f)
<1> SUFFICES ASSUME ~disorder' PROVE Good'
  BY DEF Ordered
<1>0. ~disorder => Good
  BY DEF Ordered
<1> HIDE DEF Good
<1>1. ASSUME NEW q \in Request, Api(q) \/ Webhook(q) \/ Mqtt(q)
      PROVE  Good'
  <2>1. /\ UNCHANGED <<light, queue, reserved, job, last, disorder>> /\ Busy' = Busy
        /\ \A p \in Handling : p \in Handling' /\ request'[p] = request[p]
    BY <1>1, ReceiveStep DEF Busy
  <2> QED
    BY <1>0, <2>1, FollowsKept DEF Good, OneBusy
<1>2. ASSUME NEW q \in Request, SaveWebhook(q)
      PROVE  Good'
  <2>1. /\ UNCHANGED <<queue, reserved, job, last, disorder>> /\ Busy' = Busy
        /\ light' = Saved(request[q].command, request[q].loaded, light)
        /\ request[q].command \in Command /\ light \in Light
        /\ q \in Handling' /\ request'[q].at = "dispatch"
        /\ request'[q].command = request[q].command
        /\ \A p \in Handling : request[p].at = "dispatch" =>
             p \in Handling' /\ request'[p] = request[p]
    BY <1>2, SaveStep DEF Busy, TypeOK
  <2>2. ASSUME NEW f \in Field
        PROVE  Follows(f)'
    <3>1. CASE f \in DOMAIN request[q].command
      BY <2>1, <3>1 DEF Follows, Unsent
    <3>2. CASE f \notin DOMAIN request[q].command
      <4>1. light'[f] = light[f]
        BY <2>1, <3>2, SavedFacts
      <4> QED
        BY <1>0, <2>1, <4>1, FollowsKept DEF Good
    <3> QED
      BY <3>1, <3>2
  <2> QED
    BY <1>0, <2>1, <2>2 DEF Good, OneBusy
<1>3. ASSUME NEW q \in Request, DispatchJob(q)
      PROVE  Good'
  <2>1. Busy' = Busy /\ UNCHANGED <<reserved, disorder>>
    BY <1>3, DispatchStep DEF Busy
  <2> QED
    BY <1>0, <1>3, <2>1, FollowsDispatch DEF Good, OneBusy
<1>4. ASSUME NEW w \in Worker, Reserve(w)
      PROVE  Good'
  <2>1. Alone(w) /\ ~disorder
    BY <1>4 DEF Reserve
  <2>2. Busy' = {w} /\ UNCHANGED reserved
    BY <1>4, <2>1, ReserveStep
  <2>3. \A f \in Field : Follows(f)'
    BY <1>0, <1>4, <2>1, FollowsReserve DEF Good
  <2> QED
    BY <1>0, <2>1, <2>2, <2>3 DEF Good, OneBusy
<1>5. ASSUME NEW w \in Worker, Find(w) \/ Act(w) \/ Fresh(w) \/ Publish(w)
      PROVE  Good'
  <2>1. ~disorder
    BY <1>5 DEF Find, Act, Fresh, Publish
  <2>2. Busy' = Busy /\ UNCHANGED reserved
    BY <1>5, GoOnStep
  <2>3. \A f \in Field : Follows(f)'
    BY <1>0, <1>5, <2>1, FollowsHandle DEF Good
  <2> QED
    BY <1>0, <2>1, <2>2, <2>3 DEF Good, OneBusy
<1>6. ASSUME NEW w \in Worker, Acknowledge(w)
      PROVE  Good'
  <2>1. /\ w \in Busy /\ job[w].at = "ack" /\ Busy' = Busy \ {w} /\ ~disorder
        /\ UNCHANGED <<light, queue, reserved, request, last>> /\ Handling' = Handling
    BY <1>6, AcknowledgeStep DEF Handling
  <2>2. Busy = {w} /\ Busy' = {}
    BY <1>0, <2>1 DEF Good, OneBusy
  <2>3. ASSUME NEW f \in Field
        PROVE  Follows(f)'
    <3>1. Unsent(f) => Unsent(f)'
      BY <2>1 DEF Unsent
    <3>2. LastQueued(f) => LastQueued(f)'
      BY <2>1 DEF LastQueued
    <3>3. NotQueued(f) => NotQueued(f)'
      BY <2>1 DEF NotQueued
    <3>4. LastActed(f) => LastActed(f)'
      BY <2>1, <2>2 DEF LastActed
    <3> QED
      BY <1>0, <2>1, <3>1, <3>2, <3>3, <3>4 DEF Good, Follows
  <2> QED
    BY <1>0, <2>1, <2>2, <2>3 DEF Good, OneBusy
<1>7. ASSUME NEW i \in DOMAIN reserved, Redeliver(i)
      PROVE  Good'
  BY <1>0, <1>7 DEF Good, Redeliver
<1>8. CASE UNCHANGED vars
  <2>1. /\ UNCHANGED <<light, queue, reserved, job, last, disorder, request>>
        /\ Busy' = Busy /\ Handling' = Handling
    BY <1>8 DEF vars, Busy, Handling
  <2> QED
    BY <1>0, <2>1, FollowsKept DEF Good, OneBusy
<1>9. /\ ~(\E q \in Request : SaveApi(q) \/ CutOff(q))
      /\ ~(\E w \in Worker : Fail(w) \/ Swallow(w) \/ Crash(w))
  BY DEF SaveApi, CutOff, Fail, Swallow, Crash
<1> QED
  BY <1>1, <1>2, <1>3, <1>4, <1>5, <1>6, <1>7, <1>8, <1>9 DEF Next

-----------------------------------------------------------------------------
LEMMA InitIInv == Init => IInv
<1> SUFFICES ASSUME Init PROVE IInv
  OBVIOUS
<1>1. Busy = {} /\ Handling = {} /\ queue = <<>> /\ reserved = <<>> /\ light = last /\ retained = light
  BY DEF Init, Busy, Handling
<1>2. Settling
  BY <1>1 DEF Settling, Kept, OneBusy
<1>3. Ordered
  BY <1>1 DEF Ordered, OneBusy, Follows, NotQueued, LastActed
<1> QED
  BY <1>2, <1>3, InitTypes DEF IInv

\* The inductive invariant: types, the count of commands, and where the last row and
\* the last command are when they are not yet published or written.
THEOREM IInvHolds == Spec => []IInv
<1>1. IInv /\ [Next]_vars => IInv'
  BY TypeStep, SettlingStep, OrderedStep DEF IInv
<1> QED
  BY <1>1, InitIInv, PTL DEF Spec

\* Every variable keeps its type, and no more jobs wait than commands were given.
THEOREM TypeCorrect == Spec => []TypeOK
<1>1. IInv => TypeOK
  BY DEF IInv
<1> QED
  BY <1>1, IInvHolds, PTL

\* For any number of workers and requests a job that runs alone repairs the retained
\* message of the light (ProcessLightEvent, publishLightState).
THEOREM RetainedIsRepaired == Spec => []RetainedSettles
<1>1. IInv => RetainedSettles
  BY DEF IInv, Settling, Kept, Coming, RetainedSettles, AtRest, Handling, Busy
<1> QED
  BY <1>1, IInvHolds, PTL

\* For any number of requests, jobs that run one at a time leave the light as it was
\* commanded last, field by field (Light::turnOn, turnOff, setBrightness, setColor).
THEOREM LastWins == Spec => []LastCommandWins
<1>1. IInv => LastCommandWins
  <2> SUFFICES ASSUME IInv, AtRest, ~disorder PROVE light = last
    BY DEF LastCommandWins
  <2>1. Busy = {} /\ Handling = {} /\ queue = <<>>
    BY DEF AtRest, Busy, Handling
  <2>2. \A f \in Field : light[f] = last[f]
    BY <2>1 DEF IInv, Ordered, Follows, Unsent, LastQueued, LastActed
  <2> QED
    BY <2>2, SameRow DEF IInv, TypeOK
<1> QED
  BY <1>1, IInvHolds, PTL
=============================================================================
