SPECIFICATION RootsSpec
CONSTANTS
  RootN = 2
  MaxEpoch = 4
  MaxMishap = 1
  MaxBeacon = 1
  MaxWait = 1
  BeaconLayers = 1
  topic = topic
  Topic = {topic}
  NodeMax = 1
  PerRoleMax = 1
  MaxTry = 2
  MaxStamp = 2
  MaxRound = 1
INVARIANTS
  RootsTypeOK
  BodyKept
PROPERTIES
  OneRootElected
  ObligationsEnd
  
CHECK_DEADLOCK FALSE
