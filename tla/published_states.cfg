CONSTANTS
  Web = {w1, w2}
  Worker = {k1}
  Monitor = mon
  Nobody = nobody
  MaxRequests = 6
  MaxFaults = 1
  Duration = {0, 7200}
  Unset = unset
  Keep = keep
  Readers = 1
SPECIFICATION Spec
SYMMETRY WebSymmetry
CHECK_DEADLOCK FALSE
INVARIANTS TypeOK LockSettled SensorSettled CacheIsHonest
PROPERTIES OtherHalfKept HalvesOfRowApart
