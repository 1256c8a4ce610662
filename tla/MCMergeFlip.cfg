SPECIFICATION Spec
CONSTANTS
  l1 = l1
  l2 = l2
  c1 = c1
  c2 = c2
  x = x
  y = y
  None = None
  Loser = {l1}
  Corr = {c1}
  Msg = {x}
  Lease = 1
  Retain = 3
  MaxJump = 1
  MaxDup = 0
  MaxCrash = 0
  Cutover = FALSE
PROPERTIES
  FlipHandsOver
CHECK_DEADLOCK FALSE
