CONSTANTS
\* Hysteresis: two intervals to fire, one to clear; times 1 and 2 are
\* neighbours, 5 lies past a gap, and five measurements fire twice.
  IntervalS = 1
  For = 2
  ClearFor = 1
  Times = {1, 2, 5}
  MaxLen = 5
\* Enrolment.
  AgentNames = {n1, n2}
  AgentHosts = {h1, h2}
  EnrolTargets = {t1}
  Nobody = Nobody
  MaxAgents = 2
  MaxTokens = 2
  MaxOps = 3
  TokenTTL = 0
  LastTick = 1
\* Admission: a nonce is kept for the whole window, both ways.
  Senders = {s1}
  Nonces = {r1, r2}
  SkewAllowed = 2
  NonceKept = 4
  SweepEvery = 1
  BurstSize = 1
  RefillTicks = 2
  Late = 1
  MaxChecks = 3
  LastSecond = 6
\* ResolverCache: TTLs below, within and above what they are clamped to.
  Callers = {c1, c2}
  Addresses = {x, y}
  NoAddress = nx
  RecordTTLs = {0, 3, 9}
  ShortestTTL = 2
  LongestTTL = 4
  QueryLasts = 1
  LastMoment = 8
  MaxRecordChanges = 1
  MaxLookups = 4
  MaxResolverFaults = 1
\* Access: a session is good for the tick it begins in, a login likewise.
  ann = ann
  bob = bob
  staff = staff
  admins = admins
  top = top
  left = left
  leaf = leaf
  Browsers = {ann, bob}
  Groups = {staff, admins}
  AdminGroup = admins
  TreeNodes = {top, left, leaf}
  TopNode = top
  Outside = outside
  FirstClaims <- Memberships
  FirstParent <- Parents
  DefaultRole = "none"
  SessionTTL = 0
  LoginTTL = 1
  LastHour = 1
  MaxLogins = 2
  MaxRegroups = 1
  MaxGrantEdits = 1
  MaxMoves = 1
\* TreeLimits.
  LimNodes = {0, 1, 2, 3}
  PlannedTree <- Planned0
  LimValues = {1, 2}
  Ceiling <- Ceilings
  MaxRate = 1
  MaxBytes = 1
  MaxTotal = 1
  MaxLevels = 2
  MaxHeld = 4
  PerTicks = 2
  MaxTreeChanges = 2
\* WireBatch.
  Bodies <- Streams
  Absent = absent
  MaxRows = 2
  MostMessages = 3
  Budget = 8
  MostMicros = 3
  Wrap = 8
\* SmokePing.
  Installs <- Installations
  TopFile = "top"
  NodeNames <- AnyNames
  Second <- SecondName
  Joined <- JoinedValue
  TypeOf <- TypeOfModule
  HostNames = {"h"}
  Sixes = {"six", "::1"}
  None = none
  MaxFiles = 3
  MaxNesting = 3
\* TargetTree: a request pair around and inside an import, with one failure.
  a = a
  b = b
  Names = {a, b}
  NONE = NONE
  Durations = {1, 2}
  InitRows <- Stored
  FileDefaults <- Defaults
  FileTargets <- Named1
  MaxId = 4
  MaxEdits = 2
  MaxImports = 1
  MaxFails = 1
SPECIFICATION PartsSpec
CHECK_DEADLOCK FALSE
INVARIANTS FiresByTheHistory AckMutesOneEpisode EditsKeepTheTree ImportReachesTheFile AnAgentIsOneHost AdmittedOnce ExpiredIsRefreshed AccessIsWarranted OnlyLegacyExceeds ARowCostsItself HostsAreAccountedFor
PROPERTIES EditorKeepsToScope
