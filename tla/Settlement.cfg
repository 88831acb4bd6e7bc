SPECIFICATION SettlementSpec
CONSTANTS
  alice = alice
  bob = bob
  usdc = usdc
  Router = Router
  NoPayer = NoPayer
  CapUnit = 200
  Deposit = 3
  MaxDepth = 1
  MaxTime = 3
  Swapper <- MCSwapper
  Token = {usdc}
  Nonce = {1, 2}
  Payload <- MCPayload
  Attestation <- MCAttestation
  OracleSigned <- MCAttestation
  Value = {0, 150}
  InitialApprovals = {usdc}
  ShownTiers = {0, 1, 4}
  TTL = 1
  MaxLatency = 1
  MaxIssued = 2
  MaxEdits = 1
CHECK_DEADLOCK FALSE
INVARIANTS AttestationsSurvive
PROPERTIES ChangesBind
