\* Four records that expire together; the client aims for twice the set the directory insists on.
SPECIFICATION Spec
CONSTANTS
  p1 = p1  p2 = p2  p3 = p3  p4 = p4  l1 = l1  l2 = l2
  i1 = i1  i2 = i2  i3 = i3  i4 = i4
  None = None
  Publishes <- FourPuts
  Lookups <- OneLookup
  LookupIds <- FourIds
  Common <- FirstBit
  MaxBits = 1
  Expiries <- One
  MaxTTL = 3
  KMin = 1
  KClient = 2
  MaxClock = 1
  MaxRestarts = 0
SYMMETRY Alike
INVARIANT ConformingNeverOverPrecise
