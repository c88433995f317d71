\* An import on its own, and with one failure or one request in its middle.
CONSTANTS
  a = a
  b = b
  Names = {a, b}
  NONE = NONE
  Durations = {1, 2}
  InitRows <- Stored
  FileDefaults <- Defaults
  FileTargets <- Named1
  MaxId = 4
  MaxEdits = 2
  MaxImports = 1
  MaxFails = 1
SPECIFICATION TreeSpec
CHECK_DEADLOCK FALSE
INVARIANT TreeCanAlwaysBeRead
