\* A goroutine of a struct that was replaced reports its outcome on the new one.
SPECIFICATION Spec
CONSTANTS
  e1 = e1
  e2 = e2
  w1 = w1
  w2 = w2
  v1 = v1
  Envs = {e1}
  Vars = {v1}
  EnvVars <- NoVars
  Workers = {w1}
  Operations = {"start", "stop"}
  Faults = {"liveness"}
  IsTask = TRUE
  HasProbe = TRUE
  Adoptable = FALSE
  RestartEnabled = TRUE
  CheckLiveness = TRUE
  MaxRetries = 1
  MaxOps = 3
  MaxFaults = 1
  MaxObjs = 3
  MaxChans = 30
  MaxMonitors = 2
INVARIANTS
  TaskUpHasExited
\* The system rests when no request and no fault is left.
CHECK_DEADLOCK FALSE
