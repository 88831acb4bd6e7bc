----------------------------- MODULE Settlement -----------------------------
(***************************************************************************)
(* Oracle and router together.  A request reads the tiers of both sides at  *)
(* one moment, is signed at a later one with a time to live that starts     *)
(* then, and the attestation is sent to the router by whoever holds it,     *)
(* once, twice, late or never.  TrustSwapOracle has what happens within a   *)
(* request, TrustSwapRouter what happens within a call; here tiers change   *)
(* at any time and the question is which of them a settled swap went by.    *)
(***************************************************************************)
EXTENDS TrustSwapRouter, FiniteSets

CONSTANTS ShownTiers,  \* the tiers that names take
          TTL,         \* ATTESTATION_TTL_SECONDS, in block times
          MaxLatency,  \* bound: how long a request takes, what a replica lags included
          MaxIssued,   \* bound on the attestations
          MaxEdits     \* bound on the changes of tiers

ASSUME SettlementAssumption ==
  ShownTiers \subseteq Tier /\ TTL \in Nat /\ MaxLatency \in Nat /\ MaxIssued \in Nat /\ MaxEdits \in Nat

\* What the oracle can come to sign: ORACLE_PUBKEY is the key it signs with.
Signable ==
  [swapper: Swapper, swapperTier: ShownTiers \ {None}, recipientTier: ShownTiers \ {None},
   expiresAt: TTL .. (MaxTime + TTL), nonce: Nonce, calldataHash: Payload]
ASSUME OracleKeyAssumption == Signable \subseteq OracleSigned

VARIABLES
  tier,      \* the tiers of the names of the accounts, as ENS has them
  heldAt,    \* observer: when each account last had each tier
  requests,  \* requests to the oracle that are being answered
  issued,    \* attestations handed out, with their recipients, in order
  edits

off == <<tier, heldAt, requests, issued, edits>>
allVars == <<vars, off>>

Never == -1

SettlementInit ==
  /\ Init
  /\ tier \in [Swapper -> ShownTiers \ {None}]
  /\ heldAt = [s \in Swapper |-> [t \in Tier |-> IF t = tier[s] THEN 0 ELSE Never]]
  /\ requests = {} /\ issued = <<>> /\ edits = 0

Reads(swapper, recipient) ==
  [swapper |-> swapper, recipient |-> recipient, at |-> now,
   swapperTier |-> tier[swapper], recipientTier |-> tier[recipient]]

\* POST /attest reads both tiers; a side that has none is turned away.
Ask(swapper, recipient) ==
  /\ None \notin {tier[swapper], tier[recipient]}
  /\ Len(issued) + Cardinality(requests) < MaxIssued
  /\ requests' = requests \cup {Reads(swapper, recipient)}
  /\ UNCHANGED <<vars, tier, heldAt, issued, edits>>

Attested(q, nonce, payload) ==
  [swapper |-> q.swapper, swapperTier |-> q.swapperTier, recipientTier |-> q.recipientTier,
   expiresAt |-> now + TTL, nonce |-> nonce, calldataHash |-> payload]

\* The attestation is built and signed, with a nonce drawn at random.
Sign(q) == \E nonce \in Nonce, payload \in Payload :
  /\ issued' = Append(issued, [att |-> Attested(q, nonce, payload), recipient |-> q.recipient])
  /\ requests' = requests \ {q}
  /\ UNCHANGED <<vars, tier, heldAt, edits>>

\* A read that fails, a policy that forbids, a client that hangs up.
Refuse(q) ==
  /\ requests' = requests \ {q}
  /\ UNCHANGED <<vars, tier, heldAt, issued, edits>>

\* The records of a name change, and with them its tier.
EditRecords(s) == \E t \in ShownTiers \ {tier[s]} :
  /\ edits < MaxEdits
  /\ edits' = edits + 1
  /\ tier' = [tier EXCEPT ![s] = t]
  /\ heldAt' = [heldAt EXCEPT ![s][t] = now]
  /\ UNCHANGED <<vars, requests, issued>>

\* The next block; no request outlives the latency.
Block ==
  /\ NextBlock
  /\ \A q \in requests : now < q.at + MaxLatency
  /\ heldAt' = [s \in Swapper |-> [heldAt[s] EXCEPT ![tier[s]] = now + 1]]
  /\ UNCHANGED <<tier, requests, issued, edits>>

\* Whoever has seen an attestation sends it; the oracle signed no others.
Submit == \E i \in DOMAIN issued, v \in Value :
  LET c == [att |-> issued[i].att, payload |-> issued[i].att.calldataHash, value |-> v]
  IN  (EnterWithFee(c) \/ EnterFeeless(c)) /\ UNCHANGED off

RouterReturns ==
  (FeeReturns \/ PullReturns \/ SwapReturns \/ Reverts) /\ UNCHANGED off

SettlementNext ==
  \/ \E s, r \in Swapper : Ask(s, r)
  \/ \E q \in requests : Sign(q) \/ Refuse(q)
  \/ \E s \in Swapper : EditRecords(s)
  \/ Block \/ Submit \/ RouterReturns

SettlementSpec == SettlementInit /\ [][SettlementNext]_allVars
-----------------------------------------------------------------------------
(* A change of tiers binds in time although the attestations made before it *)
(* cannot be called back: a swap settles by tiers that its swapper and its  *)
(* recipient both still had when a time to live and a request ago, or later *)
(* (oracle/src/index.ts:157, 407; TrustSwapRouter.sol:250).                 *)
RecentlyHad(s, t) == heldAt[s][t] # Never /\ now - heldAt[s][t] <= TTL + MaxLatency
ByRecentTiers(s) == \E i \in DOMAIN issued :
  /\ issued[i].att = s.att
  /\ RecentlyHad(s.att.swapper, s.att.swapperTier)
  /\ RecentlyHad(issued[i].recipient, s.att.recipientTier)
ChangesBind ==
  [][Len(chain'.log) > Len(chain.log) => ByRecentTiers(Last(chain'.log))]_allVars

(* Nobody can take an attestation away: while it is in time and no other of *)
(* its swapper carries its nonce, it can be sent until it settles, whatever *)
(* submissions of it or of others reverted (TrustSwapRouter.sol:244-303).   *)
Settled(att) == \E k \in DOMAIN chain.log : chain.log[k].att = att
Alone(i) == \A j \in DOMAIN issued :
  NonceKey(issued[j].att) = NonceKey(issued[i].att) => issued[j].att = issued[i].att
AttestationsSurvive == frames = <<>> => \A i \in DOMAIN issued :
  LET c == [att |-> issued[i].att, payload |-> issued[i].att.calldataHash, value |-> 0]
  IN  Alone(i) /\ now <= c.att.expiresAt /\ ~Settled(c.att) => Admissible(chain, c)
=============================================================================
