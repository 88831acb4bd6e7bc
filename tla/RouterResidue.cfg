SPECIFICATION Spec
CONSTANTS
  alice = alice
  bob = bob
  usdc = usdc
  Router = Router
  NoPayer = NoPayer
  CapUnit = 200
  Deposit = 3
  MaxDepth = 3
  MaxTime = 1
  Swapper <- MCSwapper
  Token <- MCToken
  Nonce <- MCNonce
  Payload <- MCPayload
  Attestation <- MCAttestation
  OracleSigned <- MCOracleSigned
  Value <- MCValue
  InitialApprovals = {}
INVARIANT NoTokensRetained
