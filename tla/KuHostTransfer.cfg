SPECIFICATION Spec
CONSTANTS
  Uploads = {u1}
  Downloads = {d1}
  Flushers = {f1}
  LaneCount = 1
  Chunks = 2
INVARIANTS
  TypeOK
  TaskAccounting
  NoUseAfterFree
  SafeTeardown
  FlushDrains
PROPERTIES
  CopiesComplete
  WaitersReturn
  ImplementsPromise
CHECK_DEADLOCK FALSE
