SPECIFICATION FairSpec
CONSTANTS
  Unreadable = Unreadable
  Invalid = Invalid
  NoOverlay = NoOverlay
  None = None
  NotApproved = NotApproved
  c1 = c1
  c2 = c2
  o1 = o1
  Clients = {c1, c2}
  Daemon = Daemon
  Operators = {o1}
  BaseTexts <- SavedBases
  OverlayTexts <- SavedOverlays
  Given <- AllPairs
  Edited <- EditedPairs
  MaxEdits = 2
  MaxReloads = 2
CHECK_DEADLOCK FALSE
INVARIANTS RunsApproved EngineSound
PROPERTIES ControllerSettles
