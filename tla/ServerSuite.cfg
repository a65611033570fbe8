SPECIFICATION Spec
INVARIANTS ServerTypes RouteIsPage RequestsAgree ConnectionsSettle SignInsHold DatabaseWhole
PROPERTIES ServerSteps
CHECK_DEADLOCK FALSE
CONSTANTS
  Requests = {"r1", "r2"}
  MaxRetries = 2
  MaxConnects = 3
  MaxVersion = 4
  Bad = {2}
  MaxDrops = 2
  HmrRetries = 2
  Frames <- GivenFrames
  Users = {"u1", "u2"}
  SignIns = {"s1", "s2"}
  Hydrates = FALSE
  MaxTokens = 4
  Refreshes = {"r1", "r2"}
  MaxTime = 2
  Actions = {"x1", "x2"}
  Retries = 1
  Statements = 2
  PoolSize = 2
  MaxClients = 1
  Timeout = TRUE
  DriverKind = "postgres"
  Versions <- GivenVersions
  Throws = {1}
  MaxLost = 1
  Urls = {"u", "v"}
  Routed = {"u"}
  Unresolved = "null"
  MaxHistory = 3
  Elements = {1, 2}
  Hydrations = {"h1", "h2"}
  MaxEvents = 3
  Words = {"a", "a.a", "axa", "a-a"}
  Fields = {"f", "g"}
