SPECIFICATION Spec
CONSTANTS
  MaxTurns = 1
  MaxSteps = 1
  MaxUses = 1
  Items = {i1}
  MaxCrashes = 0
  PastTurns = 0
INVARIANTS
  NoStrandedAnswer
CHECK_DEADLOCK FALSE
