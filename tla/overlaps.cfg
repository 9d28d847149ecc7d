\* Two clients start, stop and restart a service, three operations in all: no
\* episode closes a start barrier that is closed already, and a process is
\* launched only when the last one has exited.
SPECIFICATION Spec
CONSTANTS
  e1 = e1
  e2 = e2
  w1 = w1
  w2 = w2
  v1 = v1
  Envs = {e1}
  Vars = {v1}
  EnvVars <- NoVars
  Workers = {w1, w2}
  Operations = {"start", "stop", "restart"}
  Faults = {}
  IsTask = FALSE
  HasProbe = FALSE
  Adoptable = FALSE
  RestartEnabled = TRUE
  CheckLiveness = FALSE
  MaxRetries = 1
  MaxOps = 3
  MaxFaults = 0
  MaxObjs = 4
  MaxChans = 30
  MaxMonitors = 3
SYMMETRY WorkerSymmetry
INVARIANTS
  BarrierClosedOnce
  LaunchAfterExit
\* The system rests when no request and no fault is left.
CHECK_DEADLOCK FALSE
