SPECIFICATION ViewsSpec
CONSTANTS
  Files = {"f", "n"}
  Committed = {"f"}
  Branches = {"main", "dev"}
  Main = "main"
  MaxEdits = 2
  MaxAgent = 2
  MaxClicks = 3
  Convs = {"c1", "c2"}
  Talks = {"c1"}
  MaxMoves = 2
  MaxPieces = 2
  MaxThoughts = 1
  MaxCalls = 1
  MaxFetches = 2
  MaxPipe = 2
  Projects = {"p"}
  Tunes = {"m", "l"}
  Default = "m"
  MaxChats = 3
  ChatCalls = 2
  MaxTaps = 2
  MaxDrops = 1
  MaxItems = 3
  PageSize = 2
  InboxMoves = 4
  MaxSockets = 3
  MaxTicks = 3
  MaxTurnsOfSession = 2
  SearchUrls = {"u1"}
  Keys = {"k1"}
  NoUrl = "nourl"
  NoKey = "nokey"
  EnvUrl = "nourl"
  EnvKey = "nokey"
  MaxTouches = 2
  MaxRequests = 2
  MaxElsewhere = 1
  Ignored = {"n"}
  Tools = {"t"}
  Puts = {"p"}
  Texts = 1
  MaxPoints = 1
  MaxFaults = 1
  MaxRollbacks = 1
  FileClicks = 2
  Hosts = {"h1", "h2"}
  Addresses = {1, 2}
  CacheSize = 2
  TTL = 0
  MaxRedirects = 1
  MaxBytes = 2
  MaxClock = 1
  MaxReads = 3
  Watched = {"c1"}
  Forms = {"h1"}
  Elsewhere = {"h2"}
  MaxSessions = 1
  Launches = {1, 2}
  MaxInputs = 3
  Custom = {"k1"}
  Urls = {"u1", "u2"}
  Conns = {1, 2}
  Requests = {"r1", "r2"}
  Callers = {"w1"}
  MaxRestarts = 1
INVARIANTS Types ScreensAreTrue
PROPERTIES FilesAreMeant OutsideIsOwned
CHECK_DEADLOCK FALSE
