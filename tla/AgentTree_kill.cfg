SPECIFICATION Spec
CONSTANTS
  MaxRuns = 1
  MaxDepth = 1
  Hard = 1
  MaxCrashes = 0
PROPERTIES
  KillReachesAll
CHECK_DEADLOCK FALSE
