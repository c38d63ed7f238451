\* Two networks and an invalid address against a table of one key.
SPECIFICATION InOrderSpec
CONSTANTS
  r1 = r1  r2 = r2  r3 = r3  r4 = r4  r5 = r5
  h1 = h1  h2 = h2  zero = zero
  n1 = n1  n2 = n2  put = put
  Requests <- FiveRequests
  Hosts <- TwoHosts
  Addrs <- TwoHostsOrNone
  Nets <- TwoNets
  NetOf <- HostNet
  Classes <- OneClass
  Limit <- LimitTwo
  Window = 3
  SweepInterval = 2
  MaxKeys = 1
  MaxClock = 5
  Lag = 1
INVARIANTS
  IInv
  TableBounded
  AtMostTwiceTheLimit
PROPERTIES
  RefusedForAReason
  NothingOutlivesItsWindow
  EntriesAreForgotten
