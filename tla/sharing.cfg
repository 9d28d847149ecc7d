\* One client starts, stops, restarts and shuts down a probed service that two
\* environments with different variables share; preparation, launch, probe and
\* the shutdown's deadline may fail.
SPECIFICATION Spec
CONSTANTS
  e1 = e1
  e2 = e2
  w1 = w1
  w2 = w2
  v1 = v1
  Envs = {e1, e2}
  Vars = {v1}
  EnvVars <- OneVar
  Workers = {w1}
  Operations = {"start", "stop", "restart", "shutdown"}
  Faults = {"prepare", "launch", "probe", "deadline"}
  IsTask = FALSE
  HasProbe = TRUE
  Adoptable = FALSE
  RestartEnabled = TRUE
  CheckLiveness = FALSE
  MaxRetries = 1
  MaxOps = 4
  MaxFaults = 2
  MaxObjs = 4
  MaxChans = 30
  MaxMonitors = 3
INVARIANTS
  RunsOnlyHeld
  EnvApplied
  NoStuckState
  RollupAgrees
\* The system rests when no request and no fault is left.
CHECK_DEADLOCK FALSE
