CONSTANTS
  a = a
  b = b
  c1 = c1
  c2 = c2
  Server = {a, b}
  server_config <- Hosts
  Config = {c1, c2}
  InitialConfig <- OwnConfig
  Garbage = Garbage
  None = None
  SetupClient = {u1, u2, u3}
  MountClient = {}
  Faulty = {}
  NbdFaulty = {a, b}
  Crashable = {}
  MaxConns = 9
  MaxFd = 12
SPECIFICATION Spec
INVARIANTS
  PeersShareConfig
CHECK_DEADLOCK FALSE
