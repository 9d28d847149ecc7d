\* Two clients start, stop and restart a probed task, which is run again when its
\* liveness check fails: every operation comes to an end, the waits on barriers,
\* supervisors and locks included, unless a goroutine waits for the exit of a
\* process that failed to start; no start barrier is closed twice, and the task is
\* reported up only for its last run.
SPECIFICATION FairSpec
CONSTANTS
  e1 = e1
  e2 = e2
  w1 = w1
  w2 = w2
  v1 = v1
  Envs = {e1}
  Vars = {v1}
  EnvVars <- NoVars
  Workers = {w1, w2}
  Operations = {"start", "stop", "restart"}
  Faults = {"prepare", "launch", "probe", "liveness", "crash"}
  IsTask = TRUE
  HasProbe = TRUE
  Adoptable = FALSE
  RestartEnabled = TRUE
  CheckLiveness = TRUE
  MaxRetries = 1
  MaxOps = 2
  MaxFaults = 1
  MaxObjs = 4
  MaxChans = 30
  MaxMonitors = 3
INVARIANTS
  TaskUpHasExited
  BarrierClosedOnce
PROPERTIES
  OperationsEnd
\* The system rests when no request and no fault is left.
CHECK_DEADLOCK FALSE
