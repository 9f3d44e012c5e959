SPECIFICATION GateSpec
CONSTANTS
  Chats = {"c1", "c2"}
  ProjectOf <- MCProjectOf
  Tools = {"fetch"}
  Prefixes = {"list", "build"}
  Safe = {"list"}
  Policies <- MCPolicies
  PolicyOf <- MCPolicyOf
  Calls <- MCCalls
  MaxCalls = 2
  MaxGrants = 1
  Rooms = {"r1", "r2"}
  Asked = 2
  MaxPolls = 1
  MaxAnswers = 2
  MaxMoves = 1
  Owners = {"o1"}
  Pushes = {"n1", "n2"}
  Tokens = {"t1"}
  MaxClicks = 1
  MaxFaults = 1
  Grants = {"g1", "g2", "g3"}
  Hosts = {"a", "b"}
  Pages = {1}
  MaxMessages = 3
  MaxTurns = 2
  WebCalls = 2
  Tabs = {"t1"}
  TTL = 3
  TouchAfter = 1
  MaxFailures = 2
  Window = 2
  MaxClock = 4
  MaxSessions = 1
  MaxInFlight = 2
  MaxGuesses = 3
INVARIANTS Types CallsAreDecided UsedAsGiven SessionsHold
PROPERTIES PassesAreMeant
CHECK_DEADLOCK FALSE
