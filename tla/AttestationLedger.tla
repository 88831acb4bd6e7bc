------------------------- MODULE AttestationLedger -------------------------
(***************************************************************************)
(* What a router of oracle-attested swaps promises to those who see only   *)
(* completed transactions: it settles swaps the oracle signed, in time,    *)
(* within the terms of both tiers, and each (swapper, nonce) once.  Swaps  *)
(* that settle in one transaction appear together.                         *)
(***************************************************************************)
EXTENDS TierBucket

CONSTANTS
  OracleSigned,   \* the attestations the oracle signed
  Value,          \* wei a swap may carry
  MaxTime         \* bound: last block timestamp

VARIABLES
  settled,        \* the settled swaps, [att, value, fee]
  now             \* block.timestamp

vars == <<settled, now>>

SameNonce(s, t) ==
  s.att.swapper = t.att.swapper /\ s.att.nonce = t.att.nonce

(* The terms an attestation grants to a swap of `value` wei. *)
Terms(a, value, fee) ==
  \E tier \in {a.swapperTier, a.recipientTier} :
    /\ tier <= a.swapperTier /\ tier <= a.recipientTier
    /\ tier # None
    /\ WithinCap(value, tier)
    /\ fee = Fee(value, tier)

(* The oracle signed it, it is in time, and both tiers grant its terms. *)
Grantable(s) ==
  /\ s.att \in OracleSigned
  /\ s.value \in Value
  /\ now <= s.att.expiresAt
  /\ Terms(s.att, s.value, s.fee)

Init == settled = {} /\ now = 0

(* A transaction settles some swaps, none of which has a nonce in common   *)
(* with another swap, of this transaction or of an earlier one.            *)
Settle ==
  /\ settled \subseteq settled'
  /\ \A s \in settled' \ settled :
       /\ Grantable(s)
       /\ \A t \in settled' : SameNonce(s, t) => s = t
  /\ UNCHANGED now

NextBlock ==
  /\ now < MaxTime
  /\ now' = now + 1
  /\ UNCHANGED settled

Next == NextBlock \/ Settle

Spec == Init /\ [][Next]_vars
============================================================================
