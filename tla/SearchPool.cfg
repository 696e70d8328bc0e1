SPECIFICATION FairSpec
CONSTANTS
  Request = {r1, r2, r3}
  Worker = {w1, w2}
  MaxQueue = 1
  Nobody = Nobody
  None = None
INVARIANTS TypeOK CountersBalance WorkersStay
PROPERTIES ServesAsPromised Answered AdmittedRuns ShutdownJoins
CHECK_DEADLOCK FALSE
