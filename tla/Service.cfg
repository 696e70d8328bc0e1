SPECIFICATION Spec
CONSTANTS
  Call = {c1, c2}
  Reload = {a1, a2}
  Worker = {w1}
  MaxQueue = 1
  Region = {"cn", "jp", "kr"}
  CommandLines <- MCCommandLines
  Asks <- MCAsks
  MaxEdits = 2
  Broken = Broken
  None = None
  Startup = Startup
CONSTRAINT Busy
SYMMETRY Interchangeable
INVARIANTS TypeOK AnsweredFromOneLoad SearchesAreBounded ErrorsAreDeserved
PROPERTIES ReloadsMoveForward
CHECK_DEADLOCK FALSE
