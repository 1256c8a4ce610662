SPECIFICATION LiveSpec
CONSTANTS
  None = None
  Loser = {l1}
  Corr = {c1}
  Msg = {x}
  Lease = 1
  Retain = 3
  MaxJump = 1
  MaxDup = 0
  MaxCrash = 0
  Cutover = FALSE
  PingInterval = 1
  Takeover = 3
  Tiebreak = 1
  StaleAge = 3
  DeadAge = 4
  SendFailLimit = 2
  Prompt = TRUE
  MaxSleep = 1
  MaxQueue = 3
  MeshFloor = 2
  TurnMaxTries = 2
  Kids <- MCKids
  Cohort = {2}
  MaxBreak = 2
INVARIANTS
  LiveTypeOK
PROPERTIES
  RoundsEnd
  ChannelsWatched
  BridgeDials
  KillConverges
CHECK_DEADLOCK FALSE
