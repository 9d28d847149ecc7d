\* A retry finds a command that became healthy after it looked, and restarts it.
SPECIFICATION Spec
CONSTANTS
  e1 = e1
  e2 = e2
  a = a
  b = b
  w1 = w1
  w2 = w2
  Envs = {e1, e2}
  Commands = {a}
  Workflow <- OneWorkflow
  DependsOn <- NoDependency
  Interactive = {}
  Workers = {w1, w2}
  Operations = {"start"}
  Faults = {"start"}
  MaxRetries = 1
  MaxOps = 4
  MaxFaults = 1
PROPERTIES
  RetryLeavesHealthyAlone
CHECK_DEADLOCK FALSE
