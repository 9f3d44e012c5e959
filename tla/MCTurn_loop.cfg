SPECIFICATION Spec
CONSTANTS
  MaxTurns = 1
  MaxSteps = 2
  MaxUses = 2
  Items = {i1, i2}
  MaxCrashes = 1
  PastTurns = 2
SYMMETRY Symmetry
INVARIANTS
  TypeOK
  ClosedCalls
  ToolsOnRecord
PROPERTIES
  NoToolAfterKill
  RetryIsClean
CHECK_DEADLOCK FALSE
