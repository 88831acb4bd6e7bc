SPECIFICATION CommandsSpec
CONSTANTS
  n1 = n1
  p1 = p1
  p2 = p2
  r1 = r1
  r2 = r2
  Nobody = Nobody
  Routings = {"CLASSIC", "DUTCH_V2"}
  UniswapX = {"DUTCH_V2"}
  Amounts = {0, 1, 2}
  MaxCalls = 4
  Tokens = {"USDC", "WETH", "other"}
  Known = {"USDC", "WETH"}
  Decimals <- MCDecimals
  DefaultDecimals = 3
  Envs <- MCEnvs
  SwapAmounts = {0, 1, 2}
  MaxInvocations = 2
  Names = {n1}
  SlugOf <- Slug
  Policies = {p1, p2}
  Routers = {r1, r2}
  MaxKeys = 3
  MaxFailures = 2
  MaxMoves = 1
CHECK_DEADLOCK FALSE
INVARIANTS
  CommandsTypeOK
  QuotesAreHonored
  CommandKeepsItsWord
  DiskMatchesChain
PROPERTIES
  EventuallyProvisioned
