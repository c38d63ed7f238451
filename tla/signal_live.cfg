\* A malformed channel_id and an oversized body among the requests; no timer need fire.
SPECIFICATION LiveSpec
CONSTANTS
  p1 = p1  p2 = p2  p3 = p3
  g1 = g1  g2 = g2  g3 = g3  g4 = g4
  k1 = k1  k2 = k2  bad = bad
  Nil = Nil
  None = Nil
  Posts <- ThreePosts
  Gets <- TwoGets
  Ids <- OneKeyAndBad
  ValidIds <- OneKey
  Oversized <- BigPost
  TTL = 1
  MaxWaiters = 2
  MaxPerChan = 2
  MinSweep = 1
  MaxClock = 0
PROPERTIES
  EveryRequestReturns
  ShutdownReleasesPolls
  HandOverArrives
