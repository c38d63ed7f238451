\* The comments' claim about a poll that shutdown ends; the code answers otherwise.
SPECIFICATION Spec
CONSTANTS
  p1 = p1  p2 = p2  p3 = p3
  g1 = g1  g2 = g2  g3 = g3  g4 = g4
  k1 = k1  k2 = k2  bad = bad
  Nil = Nil
  None = Nil
  Posts <- TwoPosts
  Gets <- TwoGets
  Ids <- OneKey
  ValidIds <- OneKey
  Oversized <- Nobody
  TTL = 1
  MaxWaiters = 2
  MaxPerChan = 2
  MinSweep = 1
  MaxClock = 1
SYMMETRY Symmetry
INVARIANT DrainedPollsAnswerEmpty
