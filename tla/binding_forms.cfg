CONSTANTS
  Key = {k1, k2}
  Value = {v1, v2}
  Extra = {Plain, periodic}
  Plain = Plain
  Session = {s1, s2}
  NoForm = NoForm
  MaxListed = 2
  MaxRows = 3
  MaxPosts = 2
  MaxEdits = 2
SPECIFICATION Spec
CHECK_DEADLOCK FALSE
INVARIANTS TypeOK
PROPERTIES SyncLeavesForm LaterBindingSurvives ResaveClearsExtraOnly
