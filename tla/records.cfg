\* Two identifiers that differ in their first bit, publishes that expire at 1 or 2, one restart.
SPECIFICATION Spec
CONSTANTS
  p1 = p1  p2 = p2  p3 = p3  p4 = p4  l1 = l1  l2 = l2
  i1 = i1  i2 = i2  i3 = i3  i4 = i4
  None = None
  Publishes <- TwoPuts
  Lookups <- TwoLookups
  LookupIds <- TwoIds
  Common <- FirstBit
  MaxBits = 1
  Expiries <- OneToTwo
  MaxTTL = 3
  KMin = 1
  KClient = 1
  MaxClock = 1
  MaxRestarts = 1
SYMMETRY Alike
INVARIANTS TypeOK AcceptedIsKept OverPreciseOnlyByExpiry
PROPERTIES NoRollback PublishedIsFound LookupsNeverGoBack
