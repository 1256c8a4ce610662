SPECIFICATION FairSpec
CONSTANTS
  p = p
  q = q
  None = None
  Root = {1, 3}
  Signer = {1}
  Reborn = {1}
  Held = {1}
  SelfDist = 4
  Write = {p}
  Kill = {}
  MaxRounds = 1
  MaxPromotions = 1
  ChainMax = 2
  MaxEpoch = 2
  MaxFlight = 3
  MaxForward = 1
  MaxTransit = 1
INVARIANTS
  
  FlightBounded
PROPERTIES
  NeverBack
  FlightsSettle
CHECK_DEADLOCK FALSE
