\* One client of a busy daemon, with channels of one or two places: every way
\* an event can get lost, every wait, and both kinds of shutdown.
SPECIFICATION FairSpec
CONSTANTS
  c1 = c1
  e1 = e1
  k1 = k1
  Clients = {c1}
  MaxJobs = 2
  Envs = {e1}
  Cmds = {k1}
  WorkflowCmds <- OneWorkflow
  Sessions = {"run", "stop", "restart", "shutdown", "reload"}
  EngineBuffer = 2
  HubBuffer = 1
  SubBuffer = 1
  SocketBuffer = 1
  ClientBuffer = 1
  InOrder = FALSE
  MaxWrites = 1
INVARIANTS
  MirrorExplained
PROPERTIES
  WaitsEnd
  ShutdownSeen
\* The system rests when the clients have exited.
CHECK_DEADLOCK FALSE
