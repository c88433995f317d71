CONSTANTS
\* PingSocket: two sequence numbers for three pings, so one is used again.
  c1 = c1
  c2 = c2
  Pings = {1, 2, 3}
  Collectors = {c1, c2}
  ColOf <- Owners
  NoPing = NoPing
  SeqSpace = 2
  MaxFails = 1
\* Bucket: two pings, which a lookup may hold up past the interval; a step
\* that slew may hide.
  PerInterval = 2
  IntervalTicks = 2
  TimeoutTicks = 1
  BurstGap = 1
  LookupTicks = 3
  StepSizes = {2}
  Tolerance = 1
  Nothing = Nothing
  MaxSteps = 1
SPECIFICATION ProbingSpec
CHECK_DEADLOCK FALSE
INVARIANTS ReplyFindsItsPing ForgottenLeavesNothing AloneStampsAreOwn MeasuresWhatHappened
