SPECIFICATION FairSpec
CONSTANTS
  t1 = t1
  t2 = t2
  Torrents = {t1, t2}
  Restored = {t1, t2}
  Whole = {t2}
  Touched = {t2}
  Slots = 1
  MaxBatch = 1
  MaxCommands = 2
  MaxErrors = 0
PROPERTY ResumeTakesEffect
