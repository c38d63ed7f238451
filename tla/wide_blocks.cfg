\* Forwarded requests under a list of two wide blocks.
SPECIFICATION Spec
CONSTANTS
  Half <- MCHalf
  Bodies = {}
  LimitSets <- MCLimitSets
  Times <- MCTimes
  Stored <- MCStored
  W4 = 2
  W6 = 4
  Tag = 1
  ProxyLists <- WideLists
  Peers <- WidePeers
  Entries <- MCEntries
  MaxEntries = 1
  DigitBits = 2
  ColumnBytes = 2
  IdBytes = 3
  TestIds <- MCTestIds
  KMin = 1
  NoRow = NoRow
INVARIANT WideBlocksUseThePeer
