\* A roll-up that is overtaken between its two sections reports what was.
SPECIFICATION MCSpec
CONSTANTS
  e1 = e1
  e2 = e2
  a = a
  b = b
  w1 = w1
  w2 = w2
  Envs = {e1, e2}
  Commands = {a, b}
  Workflow <- PairWorkflow
  DependsOn <- PairOrder
  Interactive = {a, b}
  Workers = {w1, w2}
  Operations = {"start", "stop", "restart"}
  Faults = {"start", "crash"}
  MaxRetries = 1
  MaxOps = 2
  MaxFaults = 1
INVARIANTS
  RunningMeansUpEver
\* The system rests when no request and no fault is left.
CHECK_DEADLOCK FALSE
