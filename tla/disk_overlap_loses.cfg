SPECIFICATION Spec
CONSTANTS
  i1 = i1
  i2 = i2
  i3 = i3
  None = None
  Pieces = {i1, i2}
  Size <- MCSize
  Limit = 3
  Sentinel = None
  MaxFailures = 0
  MaxStops = 1
  MaxCrashes = 0
  Overlap = TRUE
INVARIANT VerifiedIsHeld
CHECK_DEADLOCK FALSE
