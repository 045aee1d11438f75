CONSTANTS
  a = a
  b = b
  d = d
  c1 = c1
  Server = {a, b, d}
  server_config <- Hosts
  Config = {c1}
  InitialConfig <- OneConfig
  Garbage = Garbage
  None = None
  SetupClient = {u1, u2}
  MountClient = {m1}
  Faulty = {}
  NbdFaulty = {}
  Crashable = {}
  MaxConns = 8
  MaxFd = 8
SPECIFICATION Spec
INVARIANTS
  OnlyTwoServersAssemble
CHECK_DEADLOCK FALSE
