SPECIFICATION PairsSpec
CONSTANTS
  None = None
  Loser = {l1}
  Corr = {c1, c2}
  Msg = {x}
  Lease = 0
  Retain = 1
  MaxJump = 0
  MaxDup = 0
  MaxCrash = 1
  Cutover = TRUE
  AttemptReplaceMax = 1
  MaxAttempt = 2
  MaxNonce = 3
  MaxFault = 1
INVARIANTS
  PairsTypeOK
  RoundsAgree
  
CHECK_DEADLOCK FALSE
