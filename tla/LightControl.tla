---------------------------- MODULE LightControl ----------------------------
(***************************************************************************)
(* One light: the requests of the API and of Home Assistant, which change  *)
(* its row before they dispatch a job, the MQTT commands, which only       *)
(* dispatch one, the workers that run ProcessLightEvent, and the state     *)
(* that stays retained on the light's MQTT topic.                          *)
(*                                                                         *)
(* A command is the fields it sets.  A row is saved the way Eloquent saves *)
(* it: only the fields that differ from the row as it was loaded.  The     *)
(* light supports brightness and color and is never deleted (no code does  *)
(* that).  What every job does with its light is modelled; how the queue   *)
(* hands out jobs is kept to reserve, acknowledge and redeliver.           *)
(***************************************************************************)
EXTENDS Naturals, Sequences, SequencesExt

CONSTANTS
  Brightness,   \* levels, 0 among them
  Color,
  Page,         \* where commands come from: of "api", "webhook", "mqtt"
  Request,      \* commands that may be handled at once
  Worker,
  Tries,        \* --tries of the queue workers
  Idle,         \* no command or no job in hand
  MaxCommands,  \* bound: commands in a behaviour
  MaxFaults,    \* bound: lost publishes, failed saves, requests cut off
  MaxCrashes    \* bound: workers killed

ASSUME LightBounds ==
  /\ Brightness \subseteq Nat /\ Page \subseteq {"api", "webhook", "mqtt"}
  /\ Tries \in Nat \ {0}
  /\ MaxCommands \in Nat /\ MaxFaults \in Nat /\ MaxCrashes \in Nat

VARIABLES
  light,     \* the row
  retained,  \* the light's message on its topic
  request,   \* [Request -> command being handled, or Idle]
  queue,     \* Seq of jobs
  reserved,  \* Seq of jobs of killed workers that will be delivered again
  job,       \* [Worker -> job in hand, or Idle]
  commands, faults, crashes,
  last,      \* history: each field as the last dispatched command for it set it
  disturbed, \* history: something went wrong since a job last started alone
  disorder   \* history: jobs overlapped, were repeated or got lost

vars == <<light, retained, request, queue, reserved, job, commands, faults, crashes,
          last, disturbed, disorder>>

Field == {"state", "brightness", "color"}
Light == [state : BOOLEAN, brightness : Brightness, color : Color]

Off == [state |-> FALSE]
On == [state |-> TRUE]
OnAt(b) == [state |-> TRUE, brightness |-> b]
Dims == {[brightness |-> b] : b \in Brightness}
Tints == {[color |-> c] : c \in Color}
Toggled == [state |-> ~light.state]
Command == {Off, On} \cup {OnAt(b) : b \in Brightness} \cup Dims \cup Tints

Applied(command, row) ==
  [f \in Field |-> IF f \in DOMAIN command THEN command[f] ELSE row[f]]

\* Slip: the whole row is saved.
SavedWhole(command, loaded, row) == Applied(command, loaded)

\* Saving a command to a row that was loaded earlier.
Saved(command, loaded, row) ==
  [f \in Field |-> IF f \in DOMAIN command /\ command[f] # loaded[f]
                   THEN command[f] ELSE row[f]]

Queued == [command : Command, tries : 0..Tries]
Handled == [page : Page, command : Command, loaded : Light, at : {"save", "dispatch"}]
Held == [command : Command, tries : 1..Tries, seen : Light,
         at : {"find", "act", "fresh", "publish", "ack"}]

ASSUME IdleIsNone == Idle \notin Handled /\ Idle \notin Held

TypeOK ==
  /\ light \in Light /\ retained \in Light /\ last \in Light
  /\ request \in [Request -> Handled \cup {Idle}]
  /\ \A q \in Request : request[q] # Idle /\ request[q].page = "mqtt" => request[q].at = "dispatch"
  /\ queue \in Seq(Queued) /\ reserved \in Seq(Queued)
  /\ job \in [Worker -> Held \cup {Idle}]
  /\ commands \in 0..MaxCommands /\ faults \in 0..MaxFaults /\ crashes \in 0..MaxCrashes
  /\ Len(queue) + Len(reserved) <= commands
  /\ disturbed \in BOOLEAN /\ disorder \in BOOLEAN

Init ==
  /\ light \in Light /\ retained = light /\ last = light
  /\ request = [q \in Request |-> Idle]
  /\ queue = <<>> /\ reserved = <<>>
  /\ job = [w \in Worker |-> Idle]
  /\ commands = 0 /\ faults = 0 /\ crashes = 0
  /\ disturbed = FALSE /\ disorder = FALSE

-----------------------------------------------------------------------------
\* Commands.
workerVars == <<retained, reserved, job, crashes>>

Receive(q, page, command, at) ==
  /\ request[q] = Idle /\ page \in Page
  /\ commands < MaxCommands /\ commands' = commands + 1
  /\ request' = [request EXCEPT ![q] = [page |-> page, command |-> command,
                                        loaded |-> light, at |-> at]]
  /\ UNCHANGED <<light, queue, faults, last, disturbed, disorder>>
  /\ UNCHANGED workerVars

\* A toggle is decided by the row as it is loaded.
Api(q) ==
  \E c \in {On, Off, Toggled} \cup {OnAt(b) : b \in Brightness} \cup Dims \cup Tints :
    Receive(q, "api", c, "save")

\* Home Assistant's brightness "0" is taken for no brightness.
Webhook(q) ==
  \E c \in {On, Off} \cup {OnAt(b) : b \in Brightness \ {0}} \cup Dims \cup Tints :
    Receive(q, "webhook", c, "save")

\* The monitor handles one message at a time and does not save.
Mqtt(q) ==
  /\ \A p \in Request : request[p] # Idle => request[p].page # "mqtt"
  /\ \E c \in {On, Off, Toggled} \cup Dims \cup Tints : Receive(q, "mqtt", c, "dispatch")

\* The webhook saves and records an event.
SaveWebhook(q) ==
  LET r == request[q]
  IN  /\ r # Idle /\ r.at = "save" /\ r.page = "webhook"
      /\ light' = Saved(r.command, r.loaded, light)
      /\ request' = [request EXCEPT ![q] = [page |-> r.page, command |-> r.command,
                                            loaded |-> r.loaded, at |-> "dispatch"]]
      /\ UNCHANGED <<queue, commands, faults, last, disturbed, disorder>>
      /\ UNCHANGED workerVars

\* The API saves; its event's status is none of AccessEventStatus, so creating the
\* event throws and the request ends there.
SaveApi(q) ==
  LET r == request[q]
  IN  /\ r # Idle /\ r.at = "save" /\ r.page = "api"
      /\ light' = Saved(r.command, r.loaded, light)
      /\ request' = [request EXCEPT ![q] = Idle]
      /\ disturbed' = TRUE /\ disorder' = TRUE
      /\ UNCHANGED <<queue, commands, faults, last>>
      /\ UNCHANGED workerVars

DispatchJob(q) ==
  LET r == request[q]
  IN  /\ r # Idle /\ r.at = "dispatch"
      /\ queue' = Append(queue, [command |-> r.command, tries |-> 0])
      /\ last' = Applied(r.command, last)
      /\ request' = [request EXCEPT ![q] = Idle]
      /\ UNCHANGED <<light, commands, faults, disturbed, disorder>>
      /\ UNCHANGED workerVars

\* The request dies before it dispatches.
CutOff(q) ==
  /\ request[q] # Idle /\ request[q].at = "dispatch"
  /\ faults < MaxFaults /\ faults' = faults + 1
  /\ request' = [request EXCEPT ![q] = Idle]
  /\ disturbed' = TRUE /\ disorder' = TRUE
  /\ UNCHANGED <<light, queue, commands, last>>
  /\ UNCHANGED workerVars

-----------------------------------------------------------------------------
\* Jobs.
requestVars == <<request, commands, last>>

Alone(w) == \A v \in Worker \ {w} : job[v] = Idle

\* The job of worker w goes on to a stage with the row it has seen.
GoOn(w, stage, row) ==
  job' = [job EXCEPT ![w] = [command |-> job[w].command, tries |-> job[w].tries,
                             seen |-> row, at |-> stage]]

Reserve(w) ==
  /\ job[w] = Idle /\ queue # <<>> /\ Head(queue).tries < Tries
  /\ queue' = Tail(queue)
  /\ job' = [job EXCEPT ![w] = [command |-> Head(queue).command, tries |-> Head(queue).tries + 1,
                                seen |-> light, at |-> "find"]]
  /\ disturbed' = ~Alone(w)
  /\ disorder' = (disorder \/ ~Alone(w))
  /\ UNCHANGED <<light, retained, reserved, faults, crashes>> /\ UNCHANGED requestVars

\* A job that has used up its tries is failed when it is popped.
Fail(w) ==
  /\ job[w] = Idle /\ queue # <<>> /\ Head(queue).tries = Tries
  /\ queue' = Tail(queue)
  /\ disturbed' = TRUE /\ disorder' = TRUE
  /\ UNCHANGED <<light, retained, reserved, job, faults, crashes>> /\ UNCHANGED requestVars

Find(w) ==
  /\ job[w] # Idle /\ job[w].at = "find"
  /\ GoOn(w, "act", light)
  /\ UNCHANGED <<light, retained, queue, reserved, faults, crashes, disturbed, disorder>>
  /\ UNCHANGED requestVars

\* Slip: nothing is published when nothing had to be saved.
ActIfChanged(w) ==
  /\ job[w] # Idle /\ job[w].at = "act"
  /\ light' = Saved(job[w].command, job[w].seen, light)
  /\ GoOn(w, IF Applied(job[w].command, job[w].seen) = job[w].seen THEN "ack" ELSE "fresh",
          job[w].seen)
  /\ UNCHANGED <<retained, queue, reserved, faults, crashes, disturbed, disorder>>
  /\ UNCHANGED requestVars

\* turnOn, turnOff, setBrightness, setColor.
Act(w) ==
  /\ job[w] # Idle /\ job[w].at = "act"
  /\ light' = Saved(job[w].command, job[w].seen, light)
  /\ GoOn(w, "fresh", job[w].seen)
  /\ UNCHANGED <<retained, queue, reserved, faults, crashes, disturbed, disorder>>
  /\ UNCHANGED requestVars

\* The save throws; the job logs it and ends well.
Swallow(w) ==
  /\ job[w] # Idle /\ job[w].at = "act"
  /\ faults < MaxFaults /\ faults' = faults + 1
  /\ GoOn(w, "ack", job[w].seen)
  /\ disturbed' = TRUE /\ disorder' = TRUE
  /\ UNCHANGED <<light, retained, queue, reserved, crashes>> /\ UNCHANGED requestVars

Fresh(w) ==
  /\ job[w] # Idle /\ job[w].at = "fresh"
  /\ GoOn(w, "publish", light)
  /\ UNCHANGED <<light, retained, queue, reserved, faults, crashes, disturbed, disorder>>
  /\ UNCHANGED requestVars

\* Slip: the step after the last is skipped.
PublishAndStay(w) ==
  /\ job[w] # Idle /\ job[w].at = "publish"
  /\ GoOn(w, "done", job[w].seen)
  /\ retained' = job[w].seen
  /\ UNCHANGED <<light, queue, reserved, faults, crashes, disturbed, disorder>>
  /\ UNCHANGED requestVars

\* A publish that fails is logged and forgotten.
Publish(w) ==
  /\ job[w] # Idle /\ job[w].at = "publish"
  /\ GoOn(w, "ack", job[w].seen)
  /\ \/ retained' = job[w].seen /\ UNCHANGED <<faults, disturbed>>
     \/ faults < MaxFaults /\ faults' = faults + 1 /\ disturbed' = TRUE /\ UNCHANGED retained
  /\ UNCHANGED <<light, queue, reserved, crashes, disorder>> /\ UNCHANGED requestVars

Acknowledge(w) ==
  /\ job[w] # Idle /\ job[w].at = "ack"
  /\ job' = [job EXCEPT ![w] = Idle]
  /\ UNCHANGED <<light, retained, queue, reserved, faults, crashes, disturbed, disorder>>
  /\ UNCHANGED requestVars

\* A killed worker is restarted and its job delivered again, at the end of the queue.
Crash(w) ==
  /\ job[w] # Idle /\ crashes < MaxCrashes /\ crashes' = crashes + 1
  /\ reserved' = Append(reserved, [command |-> job[w].command, tries |-> job[w].tries])
  /\ job' = [job EXCEPT ![w] = Idle]
  /\ disorder' = TRUE
  /\ UNCHANGED <<light, retained, queue, faults, disturbed>> /\ UNCHANGED requestVars

Redeliver(i) ==
  /\ reserved' = RemoveAt(reserved, i)
  /\ queue' = Append(queue, reserved[i])
  /\ UNCHANGED <<light, retained, job, faults, crashes, disturbed, disorder>>
  /\ UNCHANGED requestVars

Next ==
  \/ \E q \in Request : \/ Api(q) \/ Webhook(q) \/ Mqtt(q)
                        \/ SaveApi(q) \/ SaveWebhook(q) \/ DispatchJob(q) \/ CutOff(q)
  \/ \E w \in Worker : \/ Reserve(w) \/ Fail(w) \/ Find(w) \/ Act(w) \/ Swallow(w)
                       \/ Fresh(w) \/ Publish(w) \/ Acknowledge(w) \/ Crash(w)
  \/ \E i \in DOMAIN reserved : Redeliver(i)

Spec == Init /\ [][Next]_vars

-----------------------------------------------------------------------------
AtRest ==
  /\ \A q \in Request : request[q] = Idle
  /\ queue = <<>> /\ reserved = <<>>
  /\ \A w \in Worker : job[w] = Idle

\* A job that runs alone repairs the retained message, whatever had gone wrong before:
\* at rest it is the light's row, although requests change the row while jobs run and
\* a job may be repeated at any point.
RetainedSettles == AtRest /\ ~disturbed => retained = light

\* When jobs neither overlap nor are repeated or lost, the light ends as the commands
\* that were dispatched last for each field want it, although requests and jobs save
\* only what differs from a row they loaded earlier.
LastCommandWins == AtRest /\ ~disorder => light = last
=============================================================================
