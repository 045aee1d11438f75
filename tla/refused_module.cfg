CONSTANTS
  a = a
  b = b
  c1 = c1
  c2 = c2
  Server = {a, b}
  server_config <- Hosts
  Config = {c1, c2}
  InitialConfig <- OwnConfig
  Garbage = Garbage
  None = None
  SetupClient = {u1}
  MountClient = {}
  Faulty = {b}
  NbdFaulty = {}
  Crashable = {}
  MaxConns = 8
  MaxFd = 8
SPECIFICATION FairSpec
PROPERTIES
  EveryRequestAnswered
CHECK_DEADLOCK FALSE
