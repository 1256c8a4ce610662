SPECIFICATION GroupSpec
CONSTANTS
  t1 = t1
  t2 = t2
  t3 = t3
  m1 = m1
  m2 = m2
  n1 = n1
  None = None
  Token = {t1, t2, t3}
  MeshId = {m1, m2}
  Node = {n1}
  NodeOf <- MCSameNode
  CPhys = 3
  CInbound = 1
  PPending = 1
  Pool <- MCPoolTight
  Armed = TRUE
  Enforce = TRUE
  Reader = {t1, t2, t3}
  MaxDirect = 2
  MinReaders = 2
  MaxTries = 1
  MaxPromote = 2
  MaxLoss = 1
  MaxTrouble = 2
  MaxLeave = 1
  MaxNet = 1
  Relay = {t1, t2, t3}
  HandoffTries = 2
  MaxRefuse = 1
  MaxDrop = 0
  MaxGone = 2
  MaxLeaving = 1
SYMMETRY Symm
INVARIANTS
  GroupTypeOK
  
  
  DeferredCanSettle
  HandoffKeepsBody
PROPERTIES
  ReadersServed
CHECK_DEADLOCK FALSE
