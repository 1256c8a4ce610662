SPECIFICATION Spec
CONSTANTS
  l1 = l1
  l2 = l2
  c1 = c1
  c2 = c2
  x = x
  y = y
  None = None
  Loser = {l1}
  Corr = {c1}
  Msg = {x, y}
  Lease = 1
  Retain = 3
  MaxJump = 1
  MaxDup = 1
  MaxCrash = 1
  Cutover = FALSE
INVARIANTS
  AckedRetained
  NoResurrection
PROPERTIES
  ExportKept
CONSTRAINT OneFault
CHECK_DEADLOCK FALSE
