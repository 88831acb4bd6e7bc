SPECIFICATION PathSpec
CONSTANTS
  c1 = c1
  c2 = c2
  a1 = a1
  a2 = a2
  Callers <- MCCallers
  TTL = 3
  MaxLatency = 1
  Lag = 1
  Layers = 1
  MaxTime = 5
  MaxVersion = 1
  TierOrdinals = {0, 1, 4}
  OraclePolicies <- MCOraclePolicies
  Unpublished = Unpublished
  Subnames = {"swapper"}
  Amounts = {0, 2}
  Address <- MCAddress
  NoAddress = NoAddress
  Policies <- MCPolicies
  NoPolicy = NoPolicy
  GateMin = 2
  Size = 1
  Worlds <- MCWorlds
  OldCaches <- MCOldCaches
  MaxRuns = 1
  MaxEdits = 1
  Docs <- MCDocs
  Absent = Absent
  RecordMaxTime = 1
  MaxRecordEdits = 3
CHECK_DEADLOCK FALSE
INVARIANTS
  PathTypeOK
  StalenessBounded
  RefreshTakesEffect
  BadReadsPass
  LookupIsExact
  PublishedIsSound
  SignedWithinBothPolicies
  RefusalHasCause
  StaleCacheIsContained
PROPERTIES
  RunEnds
