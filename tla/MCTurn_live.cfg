SPECIFICATION FairSpec
CONSTANTS
  MaxTurns = 2
  MaxSteps = 1
  MaxUses = 1
  Items = {i1}
  MaxCrashes = 1
  PastTurns = 1
PROPERTIES
  LogSpec
  KilledTurnEnds
CHECK_DEADLOCK FALSE
