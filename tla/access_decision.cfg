CONSTANTS
  User = {u1, u2}
  Area = {a1, a2}
  ReaderArea = a1
  Doors = 2
  Request = {q1}
  Session = {s1, s2}
  NoOne = NoOne
  NoForm = NoForm
  MaxRows = 2
  MaxScans = 1
  MaxEdits = 3
SYMMETRY SessionSymmetry
SPECIFICATION Spec
CHECK_DEADLOCK FALSE
INVARIANTS TypeOK AnswerWasRight OpenedIsRecorded OnePermissionEach CardAndApiAgree
