----------------------------- MODULE TierBucket -----------------------------
(***************************************************************************)
(* The trust tiers and the execution terms that hang off them, as          *)
(* TrustSwapRouter.sol computes them on chain.  packages/core/src/policy.ts*)
(* holds the same table off chain and must not diverge from it.            *)
(***************************************************************************)
EXTENDS Naturals

CONSTANT
  CapUnit   \* the "registered" cap, 50_000_000 in the code; the other caps
            \* are 10 and 100 times as large

ASSUME CapUnitAssumption == CapUnit \in Nat \ {0}

(* Ordinals of the enum TrustTier. *)
None         == 0
Registered   == 1
Discoverable == 2
Verified     == 3
Full         == 4

Tier == None .. Full
Eligible == Tier \ {None}

(* Mutant: the laxer side decides. *)
LaxerTier(a, b) == IF a < b THEN b ELSE a

(* The stricter of two tiers (_minTier). *)
StricterTier(a, b) == IF a < b THEN a ELSE b

(* _maxTradeSize: "full" has no cap, so it is compared apart. *)
MaxTradeSize(tier) ==
  IF tier = Registered THEN CapUnit
  ELSE IF tier = Discoverable THEN 10 * CapUnit
  ELSE 100 * CapUnit

WithinCap(value, tier) == IF tier = Full THEN TRUE ELSE value <= MaxTradeSize(tier)

FeeBps(tier) ==
  IF tier = Full THEN 0
  ELSE IF tier = Verified THEN 25
  ELSE IF tier = Discoverable THEN 50
  ELSE 100

(* Wei charged on a swap of `value` wei at a tier; integer division. *)
Fee(value, tier) == (value * FeeBps(tier)) \div 10000
=============================================================================
