CONSTANTS
  Area = {"hall", "unassigned"}
  Unassigned = "unassigned"
  Pages = {"area", "lock", "reader", "binding"}
  MaxReaders = 2
  MaxLocks = 2
  MaxRequests = 6
SPECIFICATION Spec
CHECK_DEADLOCK FALSE
INVARIANTS TypeOK EventsNameStoredLocks StoredIsPublished BoundLockReached
PROPERTIES PrimaryTakesEffect OnePrimaryKept
