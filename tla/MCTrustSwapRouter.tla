------------------------- MODULE MCTrustSwapRouter -------------------------
(* Instances of TrustSwapRouter for model checking. *)
EXTENDS TrustSwapRouter

CONSTANTS alice, bob, usdc

MCSwapper == {alice, bob}
MCToken == {usdc}
MCNonce == {1, 2}
(* At the registered cap, one over it, and nothing: fees of 2, 1 and 0.     *)
MCValue == {0, 200, 201}

EthIn(spend) ==
  [payer |-> NoPayer, tokenIn |-> usdc, amountIn |-> 0, spend |-> spend]
TokenIn(who, amount, spend) ==
  [payer |-> who, tokenIn |-> usdc, amountIn |-> amount, spend |-> spend]

MCPayload == {EthIn(0), TokenIn(alice, 2, 1), TokenIn(bob, 2, 2), TokenIn(bob, 1, 2)}

Att(who, mine, theirs, expiresAt, nonce, payload) ==
  [swapper |-> who, swapperTier |-> mine, recipientTier |-> theirs,
   expiresAt |-> expiresAt, nonce |-> nonce, calldataHash |-> payload]

(* Two attestations of each carry the same nonce; one of bob's charges     *)
(* alice, another lets the Universal Router take what a swap of alice's    *)
(* left behind; one has expired when the second block comes.               *)
MCOracleSigned ==
  {Att(alice, Registered, Full, 0, 1, EthIn(0)),
   Att(alice, Full, Discoverable, 1, 1, TokenIn(alice, 2, 1)),
   Att(bob, Verified, Full, 1, 1, TokenIn(bob, 2, 2)),
   Att(bob, Full, Full, 1, 2, TokenIn(alice, 2, 1)),
   Att(bob, Full, Full, 1, 1, TokenIn(bob, 1, 2)),
   Att(alice, Full, None, 1, 2, EthIn(0))}
MCAttestation ==
  MCOracleSigned \cup {Att(alice, Full, Full, 1, 2, EthIn(0))}
============================================================================
