SPECIFICATION Spec
CONSTANTS
  Handles = {h1, h2}
  Owners = {r1, r2, r3}
  Objects = {o1, o2}
  Null = Null
  MaxItems = 2
INVARIANTS
  HandlesKeepInstance
  NothingDangles
  ReferencesAccounted
PROPERTIES
  GivenUpIsDestroyed
CHECK_DEADLOCK FALSE
