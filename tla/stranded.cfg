\* A relaunch fails to start the process; the next attempt waits for the exit of
\* a process that never was, with restartMu held.
SPECIFICATION FairSpec
CONSTANTS
  e1 = e1
  e2 = e2
  w1 = w1
  w2 = w2
  v1 = v1
  Envs = {e1}
  Vars = {v1}
  EnvVars <- NoVars
  Workers = {w1}
  Operations = {"start"}
  Faults = {"crash", "launch"}
  IsTask = FALSE
  HasProbe = FALSE
  Adoptable = FALSE
  RestartEnabled = TRUE
  CheckLiveness = FALSE
  MaxRetries = 2
  MaxOps = 1
  MaxFaults = 2
  MaxObjs = 3
  MaxChans = 30
  MaxMonitors = 2
PROPERTIES
  KillsEnd
\* The system rests when no request and no fault is left.
CHECK_DEADLOCK FALSE
