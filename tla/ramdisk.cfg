CONSTANTS
  Writer = {w1, w2}
  Thread = Thread
  Nobody = Nobody
  MaxBios = 2
  AllocMayFail = TRUE
  Sectors = 2
  Writes <- SomeWrites
SPECIFICATION DiskFairSpec
INVARIANTS
  DiskTypeOK
  BackupAgrees
  FreedIsUnused
PROPERTIES
  ImageNeverGoesBack
  HookedIsWritten
  RemovalEnds
CHECK_DEADLOCK FALSE
