SPECIFICATION SafetySpec
CONSTANTS
  Uploads = {u1}
  Downloads = {d1, d2}
  Flushers = {}
  LaneCount = 2
  Chunks = 2
INVARIANTS
  LanesPartitioned
  CopyIsComplete
CHECK_DEADLOCK FALSE
