SPECIFICATION FairSpec
CONSTANTS
  t1 = t1
  t2 = t2
  Torrents = {t1, t2}
  Restored = {t1, t2}
  Whole = {}
  Touched = {t2}
  Slots = 1
  MaxBatch = 2
  MaxCommands = 2
  MaxErrors = 1
INVARIANTS
  TypeOK
  ShownIsLive
  StopWins
PROPERTIES
  QueueOrder
  WorkConserving
