SPECIFICATION FairSpec
CONSTANTS
  c1 = c1
  c2 = c2
  c3 = c3
  d1 = d1
  d2 = d2
  Daemons = {d1, d2}
  Commands = {c1, c2, c3}
  DaemonOf <- MCDaemonOf
  Method <- MCMethod
  Pin <- MCPin
  AnyVersion = AnyVersion
  None = None
  MaxPushes = 1
  MaxFetches = 1
  MaxFaults = 1
CHECK_DEADLOCK FALSE
INVARIANTS OneFetcher
PROPERTIES FetchIsCurrent FetchesEnd
