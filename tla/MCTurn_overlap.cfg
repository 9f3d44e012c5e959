SPECIFICATION Spec
CONSTANTS
  MaxTurns = 2
  MaxSteps = 1
  MaxUses = 1
  Items = {i1, i2}
  MaxCrashes = 1
  PastTurns = 0
SYMMETRY Symmetry
INVARIANTS
  OneTurn
  WaiterAnswerable
  AnswerOnce
CHECK_DEADLOCK FALSE
