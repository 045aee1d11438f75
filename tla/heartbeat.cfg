CONSTANTS
  Peers = 2
  Limit = 0
  MaxLate = 1
  Tries = 2
  MaxFd = 1
  MaxHeld = 1
SPECIFICATION FairSpec
INVARIANTS
  TypeOK
  FileAgrees
PROPERTIES
  DeclaredWhenConnected
  SilentIsDeclared
  SenderIsConnected
  SilenceIsFatal
CHECK_DEADLOCK FALSE
