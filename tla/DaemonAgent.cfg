SPECIFICATION Spec
CONSTANTS
  k1 = k1
  k2 = k2
  Invalid = Invalid
  DayLength = 3
  StartTime = 1
  MaxIterations = 4
  MaxOffers = 2
  MaxTime = 6
  MaxCrashes = 1
  Key <- MCKey
  Pair <- MCPair
  Policies <- MCPolicies
  PeerIntent <- MCPeerIntent
INVARIANTS
  TypeOK
  SignerFollowsPolicy
  EnabledIntentsTakeTurns
PROPERTIES
  LimiterSpec
  NoSwapAfterShutdown
