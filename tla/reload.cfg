\* An engine whose environments clients start and stop takes two other
\* configurations, the second one possibly while the first is being applied and
\* with the client's work under way; a launch may fail.
SPECIFICATION MCFairSpec
CONSTANTS
  e1 = e1
  e2 = e2
  a = a
  b = b
  c = c
  v = v
  Envs = {e1, e2}
  Commands = {a, b, c}
  Configs <- OneConfigs
  FirstConfig <- Base
  Races = {"clients"}
  MaxReloads = 2
  MaxOps = 1
  MaxFaults = 1
INVARIANTS
  Applied
PROPERTIES
  UntouchedStays
  RestartsInOrder
  PlansEnd
\* The system rests when no reload and no request is left.
CHECK_DEADLOCK FALSE
