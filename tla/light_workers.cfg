CONSTANTS
  Brightness = {0, 50}
  Color = {"white", "red"}
  Page = {"api", "webhook", "mqtt"}
  Request = {q1, q2}
  Worker = {w1, w2}
  Tries = 2
  Idle = Idle
  MaxCommands = 2
  MaxFaults = 2
  MaxCrashes = 2
SPECIFICATION Spec
CHECK_DEADLOCK FALSE
INVARIANTS TypeOK RetainedSettles LastCommandWins
