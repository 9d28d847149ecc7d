\* One TUI with a reload under way, while another client reloads and the daemon
\* may exit: what the keys act on, when the daemon is shut down, and that every
\* reload and every confirmed quit ends.
SPECIFICATION FairSpec
CONSTANTS
  r1 = r1
  r2 = r2
  Reloads = {r1}
  Topologies <- MCTopologies
  NoName = "none"
  MaxTimers = 2
  MaxLines = 1
INVARIANTS
  UpdateSound
PROPERTIES
  QuitConfirmed
  SelectionFollows
  TasksEnd
\* The program ends.
CHECK_DEADLOCK FALSE
