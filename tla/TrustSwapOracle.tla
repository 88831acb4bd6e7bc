-------------------------- MODULE TrustSwapOracle --------------------------
(***************************************************************************)
(* The oracle worker's POST /attest (packages/oracle/src/index.ts).  One    *)
(* request at a time is followed, from one await to the next: requests      *)
(* share no state: nonces are drawn at random.  What a read finds is chosen *)
(* when it is made, both the truth and what the worker gets of it: a record *)
(* may be unreachable, a profile degraded, a valuation refused.  `facts`    *)
(* is the truth and is never read by the worker.                            *)
(***************************************************************************)
EXTENDS Integers

CONSTANTS TierOrdinals,   \* the tier ordinals in use, 0 (none) to 4 (full)
          OraclePolicies, \* published policies: [minTier, maxSize, tokens, sig]
          Unpublished,
          Subnames,       \* the sides whose ENS name has a parent
          Amounts         \* USD values of an amount, 0 for an amount left out

None == 0
Verified == 3
Side == {"swapper", "recipient"}
Other(side) == CHOOSE s \in Side : s # side
\* The token each side receives.
Inbound == [swapper |-> "tokenOut", recipient |-> "tokenIn"]
AddressRead == {"claimed", "another", "none"}

\* Tiers and amounts are counted; a policy has a floor, a limit, tokens and a demand.
OracleInputsTyped ==
  /\ TierOrdinals \subseteq Nat /\ None \in TierOrdinals /\ Amounts \subseteq Nat
  /\ OraclePolicies \subseteq [minTier : Nat, maxSize : Nat, sig : BOOLEAN,
                               tokens : SUBSET {"tokenIn", "tokenOut"}]
ASSUME OracleAssumption == OracleInputsTyped

VARIABLES req,      \* the request and where its handler is suspended
          profile,  \* per side, what resolve returned: [addr, tier, sig]
          policy,   \* per side, what resolveRiskPolicy returned
          facts     \* per side, the truth: [tier, sig, parent, policy, valued]
oracleVars == <<req, profile, policy, facts>>

NoRequest == [pc |-> "idle", amount |-> [s \in Side |-> 0], apiKey |-> TRUE, status |-> 0]
Unread == [addr |-> "none", tier |-> None, sig |-> FALSE]
NoFacts == [tier |-> None, sig |-> FALSE, parent |-> None, policy |-> Unpublished, valued |-> FALSE]

OracleInit ==
  /\ req = NoRequest
  /\ profile = [s \in Side |-> Unread] /\ policy = [s \in Side |-> Unpublished]
  /\ facts = [s \in Side |-> NoFacts]

Go(from, to) == req.pc = from /\ req' = [req EXCEPT !.pc = to]
Answer(from, status) ==
  req.pc = from /\ req' = [req EXCEPT !.pc = "answered", !.status = status]

\* No key: 500; a body that is not JSON or not of the schema: 400.
Reject == \E status \in {400, 500} :
  Answer("idle", status) /\ UNCHANGED <<profile, policy, facts>>

Receive == \E amount \in [Side -> Amounts], apiKey \in BOOLEAN :
  /\ req.pc = "idle"
  /\ req' = [pc |-> "resolving", amount |-> amount, apiKey |-> apiKey, status |-> 0]
  /\ UNCHANGED <<profile, policy, facts>>

\* A tier from verified on takes a signed manifest.
TierFitsSig(tier, sig) == tier >= Verified => sig
Standings == {p \in [tier : TierOrdinals, sig : BOOLEAN] : TierFitsSig(p.tier, p.sig)}

\* What resolve() may find of one side: a layer that fails leaves its part of the
\* profile empty, and the tier is computed from the rest.
Findable(truth) == {p \in [addr : AddressRead, tier : TierOrdinals, sig : BOOLEAN] :
  p.tier <= truth.tier /\ TierFitsSig(p.tier, p.sig) /\ (p.sig => truth.sig)}

\* resolve(), both sides at once.
ResolveBoth ==
  \/ /\ Go("resolving", "fillAddress")
     /\ \E true \in [Side -> Standings] :
          /\ profile' \in [Side -> UNION {Findable(true[s]) : s \in Side}]
          /\ \A s \in Side : profile'[s] \in Findable(true[s])
          /\ facts' = [s \in Side |-> [NoFacts EXCEPT !.tier = true[s].tier, !.sig = true[s].sig]]
     /\ UNCHANGED policy
  \/ Answer("resolving", 502) /\ UNCHANGED <<profile, policy, facts>>

\* fillAddressFallback: only a null address is asked for again.
Filled(addr) == IF addr = "none" THEN AddressRead ELSE {addr}

\* Both fallbacks, then the comparison with the addresses claimed.
FillAddresses == \E addr \in [Side -> AddressRead] :
  /\ \A s \in Side : addr[s] \in Filled(profile[s].addr)
  /\ profile' = [s \in Side |-> [profile[s] EXCEPT !.addr = addr[s]]]
  /\ IF \A s \in Side : addr[s] = "claimed"
     THEN Go("fillAddress", "inheriting") ELSE Answer("fillAddress", 400)
  /\ UNCHANGED <<policy, facts>>

\* inheritTierFromParent.
EffectiveTier(s, parent) ==
  IF profile[s].tier = None /\ s \in Subnames THEN parent ELSE profile[s].tier

AtFloor(tier) == \A s \in Side : tier[s] # None

\* Subname inheritance on both sides, then the floor.  The parent's tier may be read
\* too low, and one that cannot be read counts as none.
Inherit == \E parent, found \in [Side -> TierOrdinals] :
  /\ \A s \in Side : found[s] <= parent[s] /\ (s \notin Subnames => parent[s] = None)
  /\ LET tier == [s \in Side |-> EffectiveTier(s, found[s])] IN
     /\ profile' = [s \in Side |-> [profile[s] EXCEPT !.tier = tier[s]]]
     /\ facts' = [s \in Side |-> [facts[s] EXCEPT !.parent = parent[s]]]
     /\ IF AtFloor(tier) THEN Go("inheriting", "policies") ELSE Answer("inheriting", 403)
  /\ UNCHANGED policy

\* resolveRiskPolicy at the finalized block, both sides: fails open, throws on a
\* document that does not parse.
ReadPolicies ==
  \/ /\ Go("policies", "valuing")
     /\ \E published, got \in [Side -> OraclePolicies \cup {Unpublished}] :
          /\ \A s \in Side : got[s] \in {published[s], Unpublished}
          /\ policy' = got
          /\ facts' = [s \in Side |-> [facts[s] EXCEPT !.policy = published[s]]]
     /\ UNCHANGED profile
  \/ Answer("policies", 502) /\ UNCHANGED <<profile, policy, facts>>

\* A side's size check applies when it has a limit and something is received.
HasSize(s) == policy[s] # Unpublished /\ policy[s].maxSize > 0 /\ req.amount[s] > 0

\* Mutant: Promise.all instead of Promise.allSettled.
ValuedTogether(valuable) ==
  [s \in Side |-> IF \A t \in Side : HasSize(t) => valuable[t] THEN
                    (IF HasSize(s) /\ req.apiKey THEN req.amount[s] ELSE 0) ELSE 0]

\* Mutant: a side that cannot be valued is taken to be over its limit.
ValuedOrTooMuch(valuable) ==
  [s \in Side |-> IF ~HasSize(s) \/ ~req.apiKey THEN 0
                  ELSE IF valuable[s] THEN req.amount[s] ELSE policy[s].maxSize + 1]

\* The inbound amounts in USD: 0, and so no check, without a key or a quote for that side.
Valued(valuable) ==
  [s \in Side |-> IF HasSize(s) /\ req.apiKey /\ valuable[s] THEN req.amount[s] ELSE 0]

\* checkRiskPolicy of one side against the other.
Accepts(s, value) ==
  policy[s] = Unpublished \/
    /\ profile[Other(s)].tier >= policy[s].minTier
    /\ value = 0 \/ value <= policy[s].maxSize
    /\ policy[s].tokens = {} \/ Inbound[s] \in policy[s].tokens
    /\ policy[s].sig => profile[Other(s)].sig

\* The two valuations settle, both policies are checked, and the attestation is signed
\* (500 when the secret is not the configured key).
Decide == \E valuable \in [Side -> BOOLEAN], status \in {200, 403, 500} :
  /\ status = 403 <=> \E s \in Side : ~Accepts(s, Valued(valuable)[s])
  /\ Answer("valuing", status)
  /\ facts' = [s \in Side |-> [facts[s] EXCEPT !.valued = valuable[s] /\ req.apiKey]]
  /\ UNCHANGED <<profile, policy>>

NextRequest == /\ req.pc = "answered"
               /\ req' = NoRequest
               /\ profile' = [s \in Side |-> Unread] /\ policy' = [s \in Side |-> Unpublished]
               /\ facts' = [s \in Side |-> NoFacts]

OracleNext == Reject \/ Receive \/ ResolveBoth \/ FillAddresses \/ Inherit \/ ReadPolicies
              \/ Decide \/ NextRequest

OracleSpec == OracleInit /\ [][OracleNext]_oracleVars
-----------------------------------------------------------------------------
OracleTypeOK ==
  /\ req.pc \in {"idle", "resolving", "fillAddress", "inheriting", "policies", "valuing", "answered"}
  /\ req.status \in {0, 200, 400, 403, 500, 502}
  /\ req.pc = "answered" <=> req.status # 0
  /\ profile \in [Side -> [addr : AddressRead, tier : TierOrdinals, sig : BOOLEAN]]
  /\ policy \in [Side -> OraclePolicies \cup {Unpublished}]
  /\ facts \in [Side -> [tier : TierOrdinals, sig : BOOLEAN, parent : TierOrdinals, policy : OraclePolicies \cup {Unpublished}, valued : BOOLEAN]]

Signed == req.pc = "answered" /\ req.status = 200

\* The best tier a side can show: its own, or as a subname its parent's.
Standing(s) == IF s \in Subnames /\ facts[s].tier < facts[s].parent
               THEN facts[s].parent ELSE facts[s].tier

(* What an attestation vouches for, told from the truth: both addresses are *)
(* the names', neither side is without a tier, its own or its parent's, and *)
(* each policy that could be read is satisfied by the counterparty's tier,  *)
(* manifest signature and token, and by the size whenever that side's token *)
(* could be valued, whether or not the other side's valuation failed        *)
(* (index.ts:170-402).  A policy that lists no tokens accepts any           *)
(* (index.ts:535), where spec/trust-graded-swap.md:64 means none by that.   *)
SignedWithinBothPolicies == Signed => \A s \in Side :
  LET p == facts[s].policy IN
  /\ profile[s].addr = "claimed" /\ Standing(s) # None
  /\ policy[s] # Unpublished =>
       /\ p.minTier <= Standing(Other(s))
       /\ p.maxSize > 0 /\ facts[s].valued => req.amount[s] <= p.maxSize
       /\ p.tokens # {} => Inbound[s] \in p.tokens
       /\ p.sig => facts[Other(s)].sig

\* The tier a side is entitled to, and whether the worker saw less of the side.
TrueTier(s) == IF facts[s].tier = None /\ s \in Subnames THEN facts[s].parent ELSE facts[s].tier
Misread(s) == profile[s].tier < TrueTier(s) \/ (facts[s].sig /\ ~profile[s].sig)

(* A refusal on policy grounds (403) is deserved: a side has no tier, or a  *)
(* policy is really broken by the counterparty.  The one excuse is a read   *)
(* of a side that came back short; a valuation that failed never is, nor a  *)
(* policy that could not be read (index.ts:233-250, 308-402).               *)
RefusalHasCause == req.pc = "answered" /\ req.status = 403 => \E s \in Side :
  \/ Misread(s) \/ TrueTier(s) = None
  \/ LET p == facts[s].policy IN p # Unpublished /\
       \/ p.minTier > TrueTier(Other(s))
       \/ p.maxSize > 0 /\ facts[s].valued /\ req.amount[s] > p.maxSize
       \/ p.tokens # {} /\ Inbound[s] \notin p.tokens
       \/ p.sig /\ ~facts[Other(s)].sig
=============================================================================
