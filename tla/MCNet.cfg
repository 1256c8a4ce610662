SPECIFICATION NetSpec
CONSTANTS
  MaxReq = 2
  MaxRoute = 4
  Policy = TRUE
  MaxConn = 2
  MaxCall = 1
  Overlap = TRUE
  WalkN = 4
  MaxHops = 3
  Reselect = TRUE
  MaxLost = 1
  RouteN = 4
  Dialer = 2
  RouteHops = 3
  RouteRetry = TRUE
  ReturnRoute = TRUE
  RouteLost = 1
  Peers = 4
  Band <- MCBand
  Cap = 3
  PoolI = 2
  KNear = 1
  SparseFloor = 1
  KJoin = 1
  Service = {}
  GraceMax = 3
  MaxConnections = 5
  MaxChanges = 1
  Known = 2
  Seats = 1
  KCache = 1
  MaxPerTick = 1
  FillPending = 2
  NoPathDefer = TRUE
  MaxInbound = 1
  MaxSeatLost = 1
  Kids <- MCKids
  Cohort = {3}
  MaxBreak = 1
  Handle = {1}
  MaxTry = 2
  MaxBurst = 2
  MaxKill = 1
  MaxFresh = 1
  MaxGen = 2
  MaxAsk = 1
  Rounds = 1
INVARIANTS
  NetTypeOK
  CarriersAgree
  WalksHonest
  SeatsBounded
  RetractionsHold
  GenerationsDistinct
PROPERTIES
  SwapsCease
CHECK_DEADLOCK FALSE
