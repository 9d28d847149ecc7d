SPECIFICATION FairSpec
CONSTANTS
  c1 = c1
  c2 = c2
  c3 = c3
  d1 = d1
  d2 = d2
  d3 = d3
  Clients = {c1, c2}
  Daemons = {d1, d2}
  Nobody = Nobody
  Sessions = {"tui", "shutdown"}
  Polls = 1
  Faults = {"refuse", "kill", "killClient", "signal", "slow"}
  MaxFaults = 1
CHECK_DEADLOCK FALSE
INVARIANTS OneDaemon TakenByLeavers NothingLeft
PROPERTIES WaitsEnd
