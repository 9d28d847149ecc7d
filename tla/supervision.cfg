\* Two environments start a probed service that crashes, hangs or fails to
\* start: one start or restart episode under restartMu, one supervisor, one
\* process at a time, and a healthy command is watched.
SPECIFICATION Spec
CONSTANTS
  e1 = e1
  e2 = e2
  w1 = w1
  w2 = w2
  v1 = v1
  Envs = {e1, e2}
  Vars = {v1}
  EnvVars <- NoVars
  Workers = {w1, w2}
  Operations = {"start"}
  Faults = {"crash", "prepare", "launch", "probe", "liveness"}
  IsTask = FALSE
  HasProbe = TRUE
  Adoptable = FALSE
  RestartEnabled = TRUE
  CheckLiveness = TRUE
  MaxRetries = 1
  MaxOps = 2
  MaxFaults = 2
  MaxObjs = 3
  MaxChans = 30
  MaxMonitors = 2
SYMMETRY WorkerSymmetry
INVARIANTS
  LockInv
  LaunchAfterExit
  Watched
\* The system rests when no request and no fault is left.
CHECK_DEADLOCK FALSE
