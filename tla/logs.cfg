SPECIFICATION Spec
CONSTANTS
  Writers = {w1, w2}
  Capacity = 3
  MaxBytes = 5
  MaxRings = 2
  Chunks <- MCChunks
  LogsFail = TRUE
  Newline = Newline
SYMMETRY Symmetric
CHECK_DEADLOCK FALSE
INVARIANTS LinesKept TailFaithful
PROPERTIES KeepsNewest
