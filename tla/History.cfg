\* A read of one target's rows, with writes between its two statements.
CONSTANTS
  Leaves = {t1}
  Master = m
  Remotes = {a1}
  Horizons = {0, 1}
  SliceTicks = 2
  Nowhere = nowhere
  LastInstant = 3
  MaxWrites = 2
  MaxRetunes = 1
  MaxPruneFaults = 1
SPECIFICATION HistorySpec
CHECK_DEADLOCK FALSE
INVARIANT FailureMeansAnOrphan
