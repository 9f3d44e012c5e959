SPECIFICATION FairSpec
CONSTANTS
  Names = {n1, n2, n3}
  MaxTerminals = 2
  MaxCalls = 3
INVARIANTS
  Sound
  LimitKept
PROPERTIES
  RunsInOrder
  TimeoutWins
  Answered
CHECK_DEADLOCK FALSE
