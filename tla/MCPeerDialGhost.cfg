SPECIFICATION Spec
CONSTANTS
  a = a
  b = b
  None = None
  Id = {a, b}
  Peer = {a, b}
  Backoff = 1
  RRefill = 1
  AMax = 1
  MMarks = 1
  MHyst = 0
  MaxAttempts = 2
  BaseMs = 1
  RefillMs = 1
  InflightMaxMs = 1
  ExpiryRefill = FALSE
  MaxProbes = 1
  PathMs = 1
  MaxChan = 2
  MaxDial = 2
  MaxClose = 1
  MaxFresh = 1
INVARIANTS
  SynapseIsLive
CHECK_DEADLOCK FALSE
