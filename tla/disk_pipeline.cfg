SPECIFICATION FairSpec
CONSTANTS
  i1 = i1
  i2 = i2
  i3 = i3
  None = None
  Pieces = {i1, i2, i3}
  Size <- MCSize
  Limit = 3
  Sentinel = None
  MaxFailures = 1
  MaxStops = 2
  MaxCrashes = 2
  Overlap = FALSE
INVARIANTS
  TypeOK
  ResumeSound
  PendingExact
  VerifiedIsHeld
  AnnouncedIsStored
PROPERTIES
  StagedIsHandedOver
  ShutdownEnds
  CompletionIsReached
  StoreSpec
CHECK_DEADLOCK FALSE
