CONSTANTS
  Reader <- TwoIds
  Lock <- TwoIds
  Channel <- TwoRelays
  Worker = {w1}
  JobId = {j1, j2, j3, j4, j5, j6}
  LiveReaders <- TwoIds
  LiveLocks <- TwoIds
  LiveAreas = {"hall", "yard"}
  ReaderArea <- Apart
  LockArea <- InHall
  PrimaryLocks <- Ids
  ReaderLockBindings <- DoubleDoor
  AdapterBindings <- TwoOutputs
  Outputs <- WiredOutputs
  StoredLocks <- WiredStored
  TopicLocks <- WiredTopics
  AreaReader <- WiredAreaReader
  BoundReader <- WiredBoundReader
  MonitorReader <- WiredMonitorReader
  Autolock = {1}
  Illegible = {"relay1"}
  EntryPoints = {"card", "reader_api", "dashboard"}
  MaxTries = 2
  MaxRequests = 2
  FaultBudget = 2
  NoJob = NoJob
SPECIFICATION Spec
CHECK_DEADLOCK FALSE
INVARIANTS TypeOK SettledAgreement
