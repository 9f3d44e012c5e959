SPECIFICATION FairSpec
CONSTANTS
  MaxRuns = 2
  MaxDepth = 2
  Hard = 1
  MaxCrashes = 1
INVARIANTS
  StatusMatches
  StoppedWithTurn
  OverBudgetOnce
PROPERTIES
  StoppedEnds
CHECK_DEADLOCK FALSE
