CONSTANTS
  a = a
  b = b
  c1 = c1
  c2 = c2
  Server = {a, b}
  server_config <- Hosts
  Config = {c1, c2}
  InitialConfig <- OwnConfig
  Garbage = Garbage
  None = None
  SetupClient = {u1}
  MountClient = {m1}
  Faulty = {a, b}
  NbdFaulty = {}
  Crashable = {a, b}
  MaxConns = 6
  MaxFd = 6
SPECIFICATION Spec
INVARIANTS
  DiskIsWhole
  ToldMeansAssembled
  RoundCountersReset
  OneMessageAtATime
  AnswersInStep
PROPERTIES
  ImplementsSetup
CHECK_DEADLOCK FALSE
