CONSTANTS
\* AgentDelivery: one target, two intervals, one row per submission, of which
\* those of the second interval fit in no body.
  Targets = {t1}
  Times = {1, 2}
  Vals = {whole}
  NONE = NONE
  PushBatch = 1
  Bulky = {2}
  MaxBulky = 0
  ResultsCap = 2
  DecodeSlots = 1
  MaxSkew = 0
  Aheads = {0}
  MaxNow = 2
  MaxWritten = 2
  Nonces = {n1, n2}
  MaxFaults = 1
\* DeliveryQueue: both producers, with a batch more than the channel holds each.
  Producers = {writer, repeat}
  QueueSize = 2
  MaxPosts = 2
\* AgentMirror: two paths of one name, and another.
  slashed = slashed
  dashed = dashed
  other = other
  TreePaths = {slashed, dashed, other}
  LocalName <- NameOfPath
  LastTarget = 3
  MaxTreeEdits = 4
  MaxLostPulls = 1
\* PathLog.
  Routes = {ra, rb}
  Unknown = Unknown
  PushPaths = 2
  LastTrace = 4
  MaxRouteChanges = 3
  MaxPathFaults = 2
\* History: a slice of two instants and one horizon shorter than the run.
  Leaves = {t1}
  Master = m
  Remotes = {a1}
  Horizons = {0, 1}
  SliceTicks = 2
  Nowhere = nowhere
  LastInstant = 2
  MaxWrites = 2
  MaxRetunes = 1
  MaxPruneFaults = 1
SPECIFICATION ServicesSpec
CHECK_DEADLOCK FALSE
INVARIANTS OnlyTheOldestGoes PullsKeepTheirAnswer MarksAreChanges SeriesAreOfTheirRow
PROPERTIES OutboxDrains CloseReturns MirrorConverges MasterLearnsThePath NothingYoungIsPruned SweepsCatchUp
