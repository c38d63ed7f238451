\* The checker's two modes against a directory, over a network that delays and loses.
SPECIFICATION Spec
CONSTANTS
  p1 = p1
  p2 = p2
  client = client
  s = s
  ik1 = ik1
  ik2 = ik2
  Publishers <- MCPublishers
  SecretOf <- MCSecretOf
  IkOf <- MCIkOf
  PowBits <- MCPowBits
  SizeOf <- MCSizeOf
  Skew <- MCSkew
  Client = client
  ClientSecret = s
  ClientIk = ik1
  Ttls = {1, 2}
  Luck = {0, 1}
  Offsets = {0}
  MaxEnvelopeBytes = 3
  EpochSeconds = 2
  KClient = 2
  KMin = 1
  IdOf <- MCIdOf
  Settings <- MCSettings
  StartTime = 2
  MaxTime = 4
  MaxRuns = 2
  MaxReplay = 2
  MaxCount = 4
  NoRow = NoRow
  Half = 64
  Bodies = {}
  LimitSets <- MCLimitSets
  Times = {0}
  Stored = {}
  W4 = 1
  W6 = 2
  Tag = 0
  ProxyLists = {}
  Peers = {}
  Entries = {}
  MaxEntries = 0
  DigitBits = 1
  ColumnBytes = 1
  IdBytes = 2
  TestIds = {}
INVARIANT
  VerifyIsAuthentic
PROPERTIES
  VerdictIsExplained
  RefusalIsExplained
