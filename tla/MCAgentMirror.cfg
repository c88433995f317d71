CONSTANTS
  slashed = slashed
  dashed = dashed
  other = other
  TreePaths = {slashed, dashed, other}
  LocalName <- NameOfPath
  LastTarget = 3
  MaxTreeEdits = 4
  MaxLostPulls = 1
SPECIFICATION MirrorSpec
CHECK_DEADLOCK FALSE
PROPERTY UnassignedStops
