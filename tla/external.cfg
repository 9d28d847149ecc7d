\* A service that an external process may already serve is adopted, taken over
\* when that process fails, stopped and started again; automatic restarts are off.
SPECIFICATION Spec
CONSTANTS
  e1 = e1
  e2 = e2
  w1 = w1
  w2 = w2
  v1 = v1
  Envs = {e1}
  Vars = {v1}
  EnvVars <- NoVars
  Workers = {w1}
  Operations = {"start", "stop"}
  Faults = {"liveness", "crash"}
  IsTask = FALSE
  HasProbe = TRUE
  Adoptable = TRUE
  RestartEnabled = FALSE
  CheckLiveness = FALSE
  MaxRetries = 1
  MaxOps = 3
  MaxFaults = 2
  MaxObjs = 3
  MaxChans = 30
  MaxMonitors = 4
INVARIANTS
  UnmanagedHasNoProcess
\* The system rests when no request and no fault is left.
CHECK_DEADLOCK FALSE
