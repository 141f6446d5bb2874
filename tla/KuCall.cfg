SPECIFICATION Spec
CONSTANTS
  Objects = {o1, o2}
  Unknown = {o2}
  Null = Null
  MaxResults = 3
  MaxRefs = 1
  MaxArgs = 1
INVARIANTS
  ReferencesOwned
  WorkOutlived
PROPERTIES
  CallReturns
CHECK_DEADLOCK FALSE
