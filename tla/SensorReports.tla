--------------------------- MODULE SensorReports ----------------------------
(***************************************************************************)
(* The state of a sensor, its retained message and the cache entry that    *)
(* tells AccessControlMqttPublisher::publishSensorState which state it     *)
(* published last.  The pages publish in any case; an adapter that reports *)
(* a state publishes it only when the cache does not hold it already.      *)
(***************************************************************************)
EXTENDS RetainedStates

VARIABLES
  sensor,  \* the state in the sensor's row
  cache,   \* the state published last, Nobody when the entry is missing
  tangled  \* history: two reports overlapped, or one ended before its note

sensorVars == <<sensor, cache, tangled>>

\* Requests: the sensor form posts a state that was rendered earlier; a page
\* of bindings only publishes; the report of an adapter sets the state.
SensorForm == [kind : {"sensor_form"}, state : BOOLEAN]
BindingForm == [kind : {"sensor_binding"}]
Report == [kind : {"sensor_report"}, state : BOOLEAN]

ReceiveSensor(p, t) ==
  /\ Count("sensor")
  /\ Begin(p, t, "readSensor")
  /\ UNCHANGED <<mem, retained, lone, disturbed, faults, sensorVars>>

\* The row is read, and the model in memory is what is published later.
ReadSensor(p) ==
  /\ pc[p] = "readSensor"
  /\ Open(p, "sensor")
  /\ tangled' = (tangled \/ Building("sensor") \ {p} # {})
  /\ Continue(p, IF task[p].kind \in {"sensor_form", "sensor_report"} THEN "sensorSave"
                 ELSE "sensorSend", [mem[p] EXCEPT !.sensor = sensor])
  /\ UNCHANGED <<retained, requests, faults, sensor, cache>>

\* Model::update: a state equal to the one that was read is not written.
SaveSensor(p) ==
  /\ pc[p] = "sensorSave"
  /\ sensor' = IF task[p].state # mem[p].sensor THEN task[p].state ELSE sensor
  /\ Continue(p, IF task[p].kind = "sensor_report" THEN "sensorCheck" ELSE "sensorSend",
              [mem[p] EXCEPT !.sensor = task[p].state])
  /\ UNCHANGED <<retained, lone, disturbed, requests, faults, cache, tangled>>

\* Slip: any entry in the cache keeps a report from being published.
ShouldPublishUnknown(p) == cache = Nobody

\* shouldPublishSensorState without force: no entry, or one of another state.
\* The periodic repetition never comes due: now()->diffInSeconds of a past
\* time is negative.
ShouldPublish(p) == cache # mem[p].sensor

\* A report that is skipped leaves what an earlier one published; unless two
\* were tangled that is its own state.
CheckCache(p) ==
  /\ pc[p] = "sensorCheck"
  /\ Step(p, IF ShouldPublish(p) THEN "sensorSend" ELSE "idle")
  /\ disturbed' = [disturbed EXCEPT !["sensor"] =
       IF ShouldPublish(p) \/ lone["sensor"] # p THEN @ ELSE tangled]
  /\ UNCHANGED <<retained, lone, requests, faults, sensorVars>>

\* Slip: the state is noted although it was not published.
SendNotedAnyway(p, arrives) ==
  /\ pc[p] = "sensorSend"
  /\ Transmit("sensor", mem[p].sensor, arrives)
  /\ disturbed' = [disturbed EXCEPT !["sensor"] = @ \/ ~arrives]
  /\ Step(p, "sensorCache")
  /\ UNCHANGED <<lone, requests, sensorVars>>

SendSensor(p, arrives) ==
  /\ pc[p] = "sensorSend"
  /\ Transmit("sensor", mem[p].sensor, arrives)
  /\ disturbed' = [disturbed EXCEPT !["sensor"] = @ \/ ~arrives]
  /\ Step(p, IF arrives THEN "sensorCache" ELSE "idle")
  /\ UNCHANGED <<lone, requests, sensorVars>>

PutCache(p) ==
  /\ pc[p] = "sensorCache"
  /\ cache' = mem[p].sensor
  /\ tangled' = (tangled /\ lone["sensor"] # p)
  /\ disturbed' = [disturbed EXCEPT !["sensor"] = @ /\ lone["sensor"] # p]
  /\ Step(p, "idle")
  /\ UNCHANGED <<retained, lone, requests, faults, sensor>>

\* The entry expires after seven days, or the cache is cleared.
ForgetCache ==
  /\ cache # Nobody /\ cache' = Nobody
  /\ UNCHANGED <<publisherVars, sensor, tangled>>
=============================================================================
