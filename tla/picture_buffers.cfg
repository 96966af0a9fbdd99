SPECIFICATION Spec
CONSTANTS
  Contexts = {c1, c2}
  Buffers = {b1, b2, b3}
  MaxPending = 3
  MaxRender = 2
  EarlyDestroy = FALSE
  LateDestroy = FALSE
  Orphan = Orphan
  Unborn = Unborn
  Freed = Freed
  Lost = Lost
SYMMETRY IdSymmetry
INVARIANTS TranslatesWhatWasRendered AllReclaimed
CHECK_DEADLOCK FALSE
