SPECIFICATION ServerSpec
CONSTANTS
  MaxRows = 6
  Lengths = {2, 20}
  StubChars = 4
  KeepTurns = 2
  ChunkParts = 2
  TextChars = 1
  ToolChars = 10
  Targets = {3, 8}
  MaxMessages = 7
  MaxJobs = 1
  Texts <- MCTexts
  MaxRetries = 1
  Budgets = {0, 2}
  MaxSteps = 2
  Slugs = {"h", "a"}
  Names = {"m"}
  Addrs = {"lan", "net"}
  Keys = {"k1"}
  Free <- MCFree
  Setup <- MCSetup
  Folders = {"f"}
  MaxEdits = 2
  Chats = {"plain", "ghost"}
  Ghosts = {"ghost"}
  Labels = {"x"}
  Delay = 1
  Window = 2
  MaxItems = 2
  MaxClock = 1
  MaxSaves = 1
  GhostChats = {"g1"}
  PlainChats = {"p1"}
  GhostProject = "gp"
  NoProject = "none"
  NoChat = "nochat"
  MaxPosts = 3
  MaxDays = 2
  MaxDigests = 2
  Latest = 1
  Keep = 1
  MaxWrites = 2
  MaxCommands = 3
  MaxFaults = 2
INVARIANTS Types HistoryIsTrue RequestsAreSound
PROPERTIES NothingIsLost GhostsAreKept
CHECK_DEADLOCK FALSE
