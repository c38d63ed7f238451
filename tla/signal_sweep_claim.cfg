\* Two channels fill the map to the sweep threshold.
SPECIFICATION SweepSpec
CONSTANTS
  p1 = p1  p2 = p2  p3 = p3
  g1 = g1  g2 = g2
  k1 = k1  k2 = k2
  Nil = Nil
  None = Nil
  Posts <- ThreePosts
  Gets <- OneGet
  Ids <- TwoKeys
  ValidIds <- TwoKeys
  Oversized <- Nobody
  TTL = 1
  MaxWaiters = 1
  MaxPerChan = 1
  MinSweep = 1
  MaxClock = 2
SYMMETRY Symmetry
PROPERTY SweepChangesNoAnswer
