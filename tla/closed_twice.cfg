\* A restart and a second start of a command at once: two of its supervisors
\* close the same monitorDone.
SPECIFICATION Spec
CONSTANTS
  e1 = e1
  e2 = e2
  w1 = w1
  w2 = w2
  v1 = v1
  Envs = {e1}
  Vars = {v1}
  EnvVars <- NoVars
  Workers = {w1, w2}
  Operations = {"start", "restart"}
  Faults = {}
  IsTask = FALSE
  HasProbe = FALSE
  Adoptable = FALSE
  RestartEnabled = TRUE
  CheckLiveness = FALSE
  MaxRetries = 1
  MaxOps = 3
  MaxFaults = 0
  MaxObjs = 3
  MaxChans = 30
  MaxMonitors = 2
INVARIANTS
  MonitorDoneClosedOnce
\* The system rests when no request and no fault is left.
CHECK_DEADLOCK FALSE
