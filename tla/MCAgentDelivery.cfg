\* One target, two intervals, one row per submission; a row may be measured
\* twice with other contents, and the agent's clock may run ahead of the skew
\* and be set right again.
CONSTANTS
  Targets = {t1}
  Times = {1, 2}
  Vals = {whole, cut}
  NONE = NONE
  PushBatch = 1
  Bulky = {}
  MaxBulky = 0
  ResultsCap = 1
  DecodeSlots = 1
  MaxSkew = 0
  Aheads = {0, 1}
  MaxNow = 1
  MaxWritten = 2
  Nonces = {n1, n2}
  MaxFaults = 1
SYMMETRY Symmetry
SPECIFICATION Spec
INVARIANTS NothingVanishes CleanShutdownLeavesNothing StoredNotFromTheFuture
PROPERTY PromiseKept
