CONSTANTS
  Writer = {w1, w2, w3}
  Thread = Thread
  Nobody = Nobody
  MaxBios = 4
  AllocMayFail = TRUE
SPECIFICATION Spec
SYMMETRY WriterSymmetry
INVARIANTS
  TypeOK
  OneAtTheQueue
  NoMissedWakeup
  WrittenOnce
PROPERTIES
  ImplementsLog
CHECK_DEADLOCK FALSE
