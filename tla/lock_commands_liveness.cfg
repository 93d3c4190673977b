CONSTANTS
  Reader <- Ids
  Lock <- Ids
  Channel <- OneRelay
  Worker = {w1, w2}
  JobId = {j1, j2, j3, j4}
  LiveReaders <- Ids
  LiveLocks <- Ids
  LiveAreas = {"hall", "yard"}
  ReaderArea <- InHall
  LockArea <- InHall
  PrimaryLocks <- Ids
  ReaderLockBindings <- NoRows
  AdapterBindings <- OneOutput
  Outputs <- WiredOutputs
  StoredLocks <- WiredStored
  TopicLocks <- WiredTopics
  AreaReader <- WiredAreaReader
  BoundReader <- WiredBoundReader
  MonitorReader <- WiredMonitorReader
  Autolock = {1}
  Illegible = {}
  EntryPoints = {"card", "reader_api"}
  MaxTries = 2
  MaxRequests = 1
  FaultBudget = 2
  NoJob = NoJob
SPECIFICATION Spec
CHECK_DEADLOCK FALSE
PROPERTIES CommandsKept AutoRelockHappens
