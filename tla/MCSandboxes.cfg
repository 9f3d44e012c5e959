SPECIFICATION MCSpec
CONSTANTS
  Owners = {p, q}
  Containers = {c1, c2}
  Calls = {x}
  House = {disk}
  Disk = disk
  User = user
  MaxRunning = 1
  Faults = 1
  Crowd = 2
  None = None
  Single = p
SYMMETRY Symmetry
INVARIANT Sound
INVARIANT LimitKept
INVARIANT MapIsTrue
PROPERTY DestroyIsTotal
CHECK_DEADLOCK FALSE
