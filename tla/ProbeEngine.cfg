\* One target edited between two settings, or not measured; three loops, so a
\* panic and an edit can each start another; one failing write.
CONSTANTS
  Targets = {t1}
  Specs = {a, b}
  NONE = NONE
  Backlog = 1
  MaxBuckets = 1
  MaxLoops = 3
  MaxEdits = 1
  MaxPanics = 1
  MaxWriteFails = 1
SPECIFICATION FairSpec
CHECK_DEADLOCK FALSE
INVARIANTS OneLoopPerTarget SocketOutlivesItsUsers ShutdownFlushes
PROPERTIES TreeIsFollowed SignalEndsIt
