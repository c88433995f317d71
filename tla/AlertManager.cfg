\* One rule that fires after two intervals and clears after one, one silence,
\* and one of each thing that can come in between.
CONSTANTS
  IntervalS = 1
  Rules = {r1}
  For = 2
  ClearFor = 1
  Silences = {s1}
  NONE = NONE
  MaxObserved = 3
  MaxAcks = 1
  MaxEdits = 1
  MaxFaults = 2
  MaxTogether = 2
SPECIFICATION FairSpec
INVARIANTS ReloadLosesNoProgress OnlyFailedInsertsAreMissing RestartLosesNothing
PROPERTIES FiringIsReannounced SilencesConverge
