\* The process from its flags to its exit, with three connections.
SPECIFICATION FairSpec
CONSTANTS
  c1 = c1
  c2 = c2
  c3 = c3
  Conns <- ThreeConns
INVARIANTS
  NoSweepAfterClose
  NoPollHoldsShutdown
  CleanExitAnswersAll
PROPERTY
  ProcessEnds
