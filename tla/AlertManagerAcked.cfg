\* One acknowledgement, saved late.
CONSTANTS
  IntervalS = 1
  Rules = {r1}
  For = 1
  ClearFor = 1
  Silences = {}
  NONE = NONE
  MaxObserved = 3
  MaxAcks = 1
  MaxEdits = 0
  MaxFaults = 0
  MaxTogether = 1
SPECIFICATION Spec
INVARIANTS RestartRevivesNothing
