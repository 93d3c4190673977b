CONSTANTS
  i1 = i1
  i2 = i2
  Item = {i1, i2}
  Term = {{i1}, {i1, i2}}
  Nobody = Nobody
  MaxInits = 2
  MaxInputs = 2
  MaxPosts = 2
  MaxFaults = 2
SPECIFICATION Spec
CHECK_DEADLOCK FALSE
INVARIANTS TypeOK ControlsInFooter SearchSettles FailuresAreRepetitions
PROPERTIES OneQueryEach ConfirmedGoes
