SPECIFICATION FlFairSpec
CONSTANTS
  Known = 2
  Seats = 1
  KCache = 1
  MaxPerTick = 1
  FillPending = 2
  NoPathDefer = TRUE
  MaxInbound = 1
  MaxSeatLost = 1
PROPERTIES
  FillReachesCap
CHECK_DEADLOCK FALSE
