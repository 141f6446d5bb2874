SPECIFICATION Spec
CONSTANTS
  Handles = {h1, h2}
  Owners = {r1}
  Objects = {o1}
  Null = Null
  MaxItems = 0
INVARIANTS
  LastCloserIsTold
CHECK_DEADLOCK FALSE
