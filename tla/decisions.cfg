\* Every question over small words: publishes, POSTs, forwarded requests, prefixes.
SPECIFICATION Spec
CONSTANTS
  Half <- MCHalf
  Bodies <- MCBodies
  LimitSets <- MCLimitSets
  Times <- MCTimes
  Stored <- MCStored
  W4 = 2
  W6 = 4
  Tag = 1
  ProxyLists <- MCProxyLists
  Peers <- MCPeers
  Entries <- MCEntries
  MaxEntries = 2
  DigitBits = 2
  ColumnBytes = 2
  IdBytes = 3
  TestIds <- MCTestIds
  KMin = 1
  NoRow = NoRow
INVARIANTS
  FirstFailureDecides
  AcceptedIsWithinLimits
  SignalFirstFailureDecides
  SpoofedEntriesAreIgnored
  TrustIsAsWritten
  PrefixSelectsExactly
