SPECIFICATION ChainSpec
CONSTANTS
  k1 = k1
  k2 = k2
  Invalid = Invalid
  DayLength = 3
  StartTime = 3
  MaxIterations = 4
  MaxOffers = 1
  MaxTime = 6
  MaxCrashes = 1
  Key <- MCKey
  Pair <- MCPair
  Policies <- OnlyBusy
  PeerIntent <- OneOffer
INVARIANTS
  ChainTypeOK
  CounterIsBacked
  OvershootIsOneSwap
