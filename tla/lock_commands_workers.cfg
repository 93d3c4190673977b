CONSTANTS
  Reader <- TwoIds
  Lock <- Ids
  Channel <- OneRelay
  Worker = {w1, w2}
  JobId = {j1, j2, j3, j4, j5}
  LiveReaders <- TwoIds
  LiveLocks <- Ids
  LiveAreas = {"hall", "yard"}
  ReaderArea <- InHall
  LockArea <- InHall
  PrimaryLocks <- Ids
  ReaderLockBindings <- SharedDoor
  AdapterBindings <- OneOutput
  Outputs <- WiredOutputs
  StoredLocks <- WiredStored
  TopicLocks <- WiredTopics
  AreaReader <- WiredAreaReader
  BoundReader <- WiredBoundReader
  MonitorReader <- WiredMonitorReader
  Autolock = {1}
  Illegible = {}
  EntryPoints = {"card", "mqtt", "webhook", "lock_api", "reader_api", "area", "dashboard"}
  MaxTries = 2
  MaxRequests = 2
  FaultBudget = 1
  NoJob = NoJob
SPECIFICATION Spec
SYMMETRY WorkerSymmetry
CHECK_DEADLOCK FALSE
INVARIANTS JobPlacement AutoRelockOwed ExpectationAudited
