SPECIFICATION Spec
CONSTANTS
  Workers = {w1, w2}
  Tasks = {t1, t2, t3}
INVARIANTS
  TypeOK
  AcceptedInOrder
  JoinDrains
PROPERTIES
  StopTerminates
  ImplementsExecutor
CHECK_DEADLOCK FALSE
