SPECIFICATION FairSpec
CONSTANTS
  k1 = k1
  k2 = k2
  Invalid = Invalid
  DayLength = 3
  StartTime = 1
  MaxIterations = 3
  MaxOffers = 1
  MaxTime = 4
  MaxCrashes = 1
  Key <- MCKey
  Pair <- MCPair
  Policies <- OnlyTrader
  PeerIntent <- OneOffer
PROPERTY ShutdownCompletes
