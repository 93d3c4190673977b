CONSTANTS
  Reader <- Ids
  Lock <- Ids
  Channel <- OneRelay
  Worker = {w1}
  JobId = {j1, j2}
  LiveReaders <- Ids
  LiveLocks <- Ids
  LiveAreas = {"hall", "yard"}
  ReaderArea <- InHall
  LockArea <- InHall
  PrimaryLocks <- Ids
  ReaderLockBindings <- NoRows
  AdapterBindings <- OneOutput
  Outputs <- WiredOutputs
  StoredLocks <- WiredStored
  TopicLocks <- WiredTopics
  AreaReader <- WiredAreaReader
  BoundReader <- WiredBoundReader
  MonitorReader <- WiredMonitorReader
  Autolock = {1}
  Illegible = {}
  EntryPoints = {"card"}
  MaxTries = 6
  MaxRequests = 1
  FaultBudget = 0
  NoJob = NoJob
  Sweep <- OneReader
  DriftBudget = 0
  FormBudget = 0
SPECIFICATION SpecReconciled
CHECK_DEADLOCK FALSE
PROPERTIES RelockSticks
