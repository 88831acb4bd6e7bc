---------------------------- MODULE MCSettlement ----------------------------
(* Two accounts that swap with each other, at a tier that is capped and pays *)
(* a fee or at the best; the oracle signs whatever it builds.                *)
EXTENDS Settlement
CONSTANTS alice, bob, usdc
MCSwapper == {alice, bob}
MCPayload == {[payer |-> alice, tokenIn |-> usdc, amountIn |-> 2, spend |-> 2]}
MCAttestation == [swapper: MCSwapper, swapperTier: {1, 4}, recipientTier: {1, 4},
                  expiresAt: TTL .. (MaxTime + TTL), nonce: Nonce, calldataHash: MCPayload]
=============================================================================
