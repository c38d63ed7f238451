\* Four readers on two channels: one more than the instance has room for, two more
\* than a channel has.
SPECIFICATION Spec
CONSTANTS
  p1 = p1  p2 = p2  p3 = p3
  g1 = g1  g2 = g2  g3 = g3  g4 = g4
  k1 = k1  k2 = k2  bad = bad
  Nil = Nil
  None = Nil
  Posts <- OnePost
  Gets <- FourGets
  Ids <- TwoKeys
  ValidIds <- TwoKeys
  Oversized <- Nobody
  TTL = 1
  MaxWaiters = 3
  MaxPerChan = 2
  MinSweep = 1
  MaxClock = 1
SYMMETRY Symmetry
INVARIANTS
  WaiterSetIsTheTruth
  WaitingIsExact
  CapsHold
  NoReceiveBlocks
  ClosedStoreIsEmpty
