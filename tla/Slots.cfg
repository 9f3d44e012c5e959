SPECIFICATION FairSpec
CONSTANTS
  Workers = {w1, w2, w3, w4}
  Limit = 2
INVARIANTS
  Books
  NoSlotLost
PROPERTIES
  TurnComes
