--------------------------- MODULE SettlementProofs ---------------------------
(***************************************************************************)
(* Proofs about Settlement, for every latency, time to live and number of  *)
(* requests, attestations and changes of tiers: the tiers a swap settles   *)
(* by were held recently, and an attestation is not lost before it is used *)
(* or expires.                                                             *)
(***************************************************************************)
EXTENDS Settlement, TrustSwapRouterProofs

(***************************************************************************)
(* The inductive invariant.  What the oracle read it read at most a        *)
(* latency ago and was true then; what it issued says so for a time to     *)
(* live more; the calls in progress and the settled swaps show nothing     *)
(* that was not issued; and a call only ever adds to the log it found.     *)
(***************************************************************************)
Request ==
  [swapper: Swapper, recipient: Swapper, at: Nat,
   swapperTier: ShownTiers \ {None}, recipientTier: ShownTiers \ {None}]
Issue == [att: Signable, recipient: Swapper]

OracleTyped ==
  /\ tier \in [Swapper -> ShownTiers]
  /\ heldAt \in [Swapper -> [Tier -> Never .. now]]
  /\ requests \subseteq Request
  /\ issued \in Seq(Issue)

TierHeldNow == \A s \in Swapper : heldAt[s][tier[s]] = now
HeldSince(s, t, at) == heldAt[s][t] # Never /\ heldAt[s][t] >= at
RequestsHeld == \A q \in requests :
  /\ HeldSince(q.swapper, q.swapperTier, q.at)
  /\ HeldSince(q.recipient, q.recipientTier, q.at)
  /\ now <= q.at + MaxLatency
SignedFrom(att) == att.expiresAt - TTL - MaxLatency
IssuedHeld == \A i \in DOMAIN issued :
  LET att == issued[i].att
  IN  /\ HeldSince(att.swapper, att.swapperTier, SignedFrom(att))
      /\ HeldSince(issued[i].recipient, att.recipientTier, SignedFrom(att))
OracleInv == OracleTyped /\ TierHeldNow /\ RequestsHeld /\ IssuedHeld

Handed(att) == \E i \in DOMAIN issued : issued[i].att = att
FramesHanded == \A k \in DOMAIN frames : Gated(k) => Handed(frames[k].call.att)
AllHanded(w) == \A i \in DOMAIN w.log : Handed(w.log[i].att)
LogsHanded == \A k \in Level : AllHanded(World(k))
LogsGrow == \A j, k \in Level : j <= k => Len(World(j).log) <= Len(World(k).log)
CallsInv == FramesHanded /\ LogsHanded /\ LogsGrow

SettlementInv == TypeInv /\ NonceInv /\ OracleInv /\ CallsInv

(* A submission is a call of the router: the oracle signed its attestation. *)
LEMMA SubmitCalls ==
  ASSUME OracleInv, NEW i \in DOMAIN issued, NEW v \in Value
  PROVE  [att |-> issued[i].att, payload |-> issued[i].att.calldataHash, value |-> v] \in Call
  <1>1. issued[i] \in Issue
    BY DEF OracleInv, OracleTyped
  <1>2. issued[i].att \in Signable /\ issued[i].att.calldataHash \in Payload
    BY <1>1 DEF Issue, Signable
  <1>3. issued[i].att \in Attestation
    BY <1>2, OracleKeyAssumption, RouterAssumption
  <1> QED
    BY <1>2, <1>3 DEF Call

LEMMA RouterSteps == OracleInv /\ [SettlementNext]_allVars => [Next]_vars
  <1> SUFFICES ASSUME OracleInv, [SettlementNext]_allVars PROVE [Next]_vars
    OBVIOUS
  <1>1. CASE Submit
    <2>1. PICK i \in DOMAIN issued, v \in Value :
            LET c == [att |-> issued[i].att, payload |-> issued[i].att.calldataHash,
                      value |-> v]
            IN  EnterWithFee(c) \/ EnterFeeless(c)
      BY <1>1 DEF Submit
    <2> DEFINE c == [att |-> issued[i].att, payload |-> issued[i].att.calldataHash,
                     value |-> v]
    <2>2. c \in Call
      BY SubmitCalls
    <2> HIDE DEF c
    <2>3. EnterWithFee(c) \/ EnterFeeless(c)
      BY <2>1 DEF c
    <2> QED
      BY <2>2, <2>3 DEF Next
  <1>2. CASE RouterReturns
    BY <1>2 DEF RouterReturns, Next
  <1>3. CASE Block
    BY <1>3 DEF Block, Next
  <1>4. ASSUME NEW s \in Swapper, EditRecords(s) PROVE UNCHANGED vars
    BY <1>4 DEF EditRecords
  <1>5. ASSUME NEW q \in requests, Sign(q) \/ Refuse(q) PROVE UNCHANGED vars
    BY <1>5 DEF Sign, Refuse
  <1>6. ASSUME NEW s \in Swapper, NEW r \in Swapper, Ask(s, r) PROVE UNCHANGED vars
    BY <1>6 DEF Ask
  <1>7. CASE UNCHANGED allVars
    BY <1>7 DEF allVars
  <1> QED
    BY <1>1, <1>2, <1>3, <1>4, <1>5, <1>6, <1>7 DEF SettlementNext

----------------------------------------------------------------------------
(* What was once held stays held since: heldAt only moves forward.         *)
LEMMA HeldStays ==
  ASSUME NEW s \in Swapper, NEW t \in Tier, NEW at \in Int, HeldSince(s, t, at),
         heldAt \in [Swapper -> [Tier -> Never .. now]], now \in Nat,
         heldAt'[s][t] = heldAt[s][t] \/ (heldAt'[s][t] \in Nat /\ heldAt'[s][t] >= now)
  PROVE  HeldSince(s, t, at)'
  <1>1. heldAt[s][t] \in Never .. now
    OBVIOUS
  <1> QED
    BY <1>1 DEF HeldSince, Never

LEMMA IssuesTyped ==
  ASSUME OracleInv
  PROVE  /\ \A i \in DOMAIN issued :
              /\ issued[i].att.swapper \in Swapper /\ issued[i].recipient \in Swapper
              /\ issued[i].att.swapperTier \in Tier /\ issued[i].att.recipientTier \in Tier
              /\ SignedFrom(issued[i].att) \in Int
         /\ \A q \in requests :
              /\ q.swapper \in Swapper /\ q.recipient \in Swapper /\ q.at \in Nat
              /\ q.swapperTier \in Tier /\ q.recipientTier \in Tier
  <1>1. ASSUME NEW i \in DOMAIN issued
        PROVE  /\ issued[i].att.swapper \in Swapper /\ issued[i].recipient \in Swapper
               /\ issued[i].att.swapperTier \in Tier /\ issued[i].att.recipientTier \in Tier
               /\ SignedFrom(issued[i].att) \in Int
    <2>1. issued[i] \in Issue
      BY DEF OracleInv, OracleTyped
    <2>2. issued[i].att.expiresAt \in Int
      BY <2>1, SettlementAssumption, RouterAssumption DEF Issue, Signable
    <2> QED
      BY <2>1, <2>2, SettlementAssumption DEF Issue, Signable, SignedFrom
  <1>2. ASSUME NEW q \in requests
        PROVE  /\ q.swapper \in Swapper /\ q.recipient \in Swapper /\ q.at \in Nat
               /\ q.swapperTier \in Tier /\ q.recipientTier \in Tier
    BY SettlementAssumption DEF OracleInv, OracleTyped, Request
  <1> QED
    BY <1>1, <1>2

(* Time and tiers pass, and the answers keep to what was true.             *)
LEMMA HeldKept ==
  ASSUME OracleInv, now \in Nat, requests' = requests, issued' = issued,
         \A s \in Swapper, t \in Tier :
           \/ heldAt'[s][t] = heldAt[s][t]
           \/ heldAt'[s][t] \in Nat /\ heldAt'[s][t] >= now,
         \A q \in requests : now' <= q.at + MaxLatency
  PROVE  RequestsHeld' /\ IssuedHeld'
  <1>1. heldAt \in [Swapper -> [Tier -> Never .. now]]
    BY DEF OracleInv, OracleTyped
  <1>2. ASSUME NEW s \in Swapper, NEW t \in Tier, NEW at \in Int, HeldSince(s, t, at)
        PROVE  HeldSince(s, t, at)'
    BY <1>1, <1>2, HeldStays
  <1>3. RequestsHeld'
    <2> SUFFICES ASSUME NEW q \in requests
                 PROVE  /\ HeldSince(q.swapper, q.swapperTier, q.at)'
                        /\ HeldSince(q.recipient, q.recipientTier, q.at)'
      BY DEF RequestsHeld
    <2>1. /\ HeldSince(q.swapper, q.swapperTier, q.at)
          /\ HeldSince(q.recipient, q.recipientTier, q.at)
      BY DEF OracleInv, RequestsHeld
    <2>2. /\ q.swapper \in Swapper /\ q.recipient \in Swapper /\ q.at \in Int
          /\ q.swapperTier \in Tier /\ q.recipientTier \in Tier
      BY IssuesTyped
    <2> QED
      BY <1>2, <2>1, <2>2
  <1>4. IssuedHeld'
    <2> SUFFICES ASSUME NEW i \in DOMAIN issued
                 PROVE  /\ HeldSince(issued[i].att.swapper, issued[i].att.swapperTier,
                                     SignedFrom(issued[i].att))'
                        /\ HeldSince(issued[i].recipient, issued[i].att.recipientTier,
                                     SignedFrom(issued[i].att))'
      BY DEF IssuedHeld, HeldSince, SignedFrom
    <2> DEFINE a == issued[i].att
    <2>1. /\ HeldSince(a.swapper, a.swapperTier, SignedFrom(a))
          /\ HeldSince(issued[i].recipient, a.recipientTier, SignedFrom(a))
      BY DEF OracleInv, IssuedHeld
    <2>2. /\ a.swapper \in Swapper /\ issued[i].recipient \in Swapper
          /\ a.swapperTier \in Tier /\ a.recipientTier \in Tier /\ SignedFrom(a) \in Int
      BY IssuesTyped
    <2>3. issued'[i] = issued[i]
      OBVIOUS
    <2> QED
      BY <1>2, <2>1, <2>2, <2>3 DEF HeldSince, SignedFrom
  <1> QED
    BY <1>3, <1>4

LEMMA OracleStep ==
  ASSUME TypeOK, OracleInv, [SettlementNext]_allVars
  PROVE  OracleInv'
  <1>0. /\ now \in Nat /\ MaxTime \in Nat /\ TTL \in Nat /\ MaxLatency \in Nat
        /\ now <= MaxTime /\ ShownTiers \subseteq Tier
        /\ heldAt \in [Swapper -> [Tier -> Never .. now]] /\ tier \in [Swapper -> ShownTiers]
        /\ requests \subseteq Request /\ issued \in Seq(Issue)
    BY RouterAssumption, SettlementAssumption DEF TypeOK, OracleInv, OracleTyped
  <1>1. ASSUME NEW s \in Swapper, NEW r \in Swapper, Ask(s, r) PROVE OracleInv'
    <2> DEFINE q == Reads(s, r)
    <2>1. /\ None \notin {tier[s], tier[r]} /\ requests' = requests \cup {q}
          /\ tier' = tier /\ heldAt' = heldAt /\ now' = now /\ issued' = issued
      BY <1>1 DEF Ask, vars
    <2>2. tier[s] \in ShownTiers \ {None} /\ tier[r] \in ShownTiers \ {None}
      BY <1>0, <2>1
    <2>3. q \in Request
      BY <1>0, <2>2 DEF Reads, Request
    <2>4. /\ heldAt[q.swapper][q.swapperTier] = now /\ q.at = now
          /\ heldAt[q.recipient][q.recipientTier] = now
      BY DEF Reads, OracleInv, TierHeldNow
    <2> HIDE DEF q
    <2>5. RequestsHeld'
      <3>1. /\ HeldSince(q.swapper, q.swapperTier, q.at)
            /\ HeldSince(q.recipient, q.recipientTier, q.at) /\ now <= q.at + MaxLatency
        <4>1. now # Never /\ now <= now + MaxLatency /\ now >= now
          BY <1>0 DEF Never
        <4> QED
          BY <2>4, <4>1 DEF HeldSince
      <3>2. \A p \in requests' : p \in requests \/ p = q
        BY <2>1
      <3> QED
        BY <2>1, <3>1, <3>2 DEF OracleInv, RequestsHeld, HeldSince
    <2>6. IssuedHeld' /\ TierHeldNow'
      BY <2>1 DEF OracleInv, IssuedHeld, HeldSince, TierHeldNow
    <2>7. OracleTyped'
      BY <1>0, <2>1, <2>3 DEF OracleTyped
    <2> QED
      BY <2>5, <2>6, <2>7 DEF OracleInv
  <1>2. ASSUME NEW q \in requests, Sign(q) PROVE OracleInv'
    <2>1. PICK nonce \in Nonce, payload \in Payload :
            issued' = Append(issued, [att |-> Attested(q, nonce, payload),
                                      recipient |-> q.recipient])
      BY <1>2 DEF Sign
    <2> DEFINE att == Attested(q, nonce, payload)
               iss == [att |-> att, recipient |-> q.recipient]
    <2>2. /\ requests' = requests \ {q} /\ tier' = tier /\ heldAt' = heldAt /\ now' = now
      BY <1>2 DEF Sign, vars
    <2>3. q \in Request
      BY <1>0
    <2>4. now + TTL \in TTL .. (MaxTime + TTL)
      BY <1>0
    <2>5. iss \in Issue
      BY <2>3, <2>4 DEF Attested, Signable, Issue, Request
    <2>6. /\ att.swapper = q.swapper /\ att.swapperTier = q.swapperTier
          /\ att.recipientTier = q.recipientTier /\ att.expiresAt = now + TTL
          /\ iss.att = att /\ iss.recipient = q.recipient
      BY DEF Attested
    <2>7. /\ HeldSince(q.swapper, q.swapperTier, q.at)
          /\ HeldSince(q.recipient, q.recipientTier, q.at)
          /\ now <= q.at + MaxLatency
      BY DEF OracleInv, RequestsHeld
    <2>8. /\ heldAt[q.swapper][q.swapperTier] \in Int
          /\ heldAt[q.recipient][q.recipientTier] \in Int /\ q.at \in Nat
      BY <1>0, <2>3, IssuesTyped
    <2>9. SignedFrom(att) <= q.at /\ SignedFrom(att) \in Int
      BY <1>0, <2>6, <2>7, <2>8 DEF SignedFrom
    <2> HIDE DEF att
    <2>10. /\ HeldSince(att.swapper, att.swapperTier, SignedFrom(att))
           /\ HeldSince(iss.recipient, att.recipientTier, SignedFrom(att))
      BY <2>6, <2>7, <2>8, <2>9 DEF HeldSince
    <2> HIDE DEF iss
    <2>11. /\ issued' \in Seq(Issue) /\ Len(issued') = Len(issued) + 1
           /\ \A i \in 1 .. Len(issued) : issued'[i] = issued[i]
           /\ issued'[Len(issued) + 1] = iss /\ Len(issued) \in Nat
      <3>1. issued' = Append(issued, iss)
        BY <2>1 DEF iss, att
      <3> QED
        BY <1>0, <2>5, <3>1, PushFacts
    <2>12. IssuedHeld'
      <3> SUFFICES ASSUME NEW i \in DOMAIN issued'
                   PROVE  /\ HeldSince(issued'[i].att.swapper, issued'[i].att.swapperTier,
                                       SignedFrom(issued'[i].att))
                          /\ HeldSince(issued'[i].recipient, issued'[i].att.recipientTier,
                                       SignedFrom(issued'[i].att))
        BY <2>2 DEF IssuedHeld, HeldSince, SignedFrom
      <3>1. CASE i = Len(issued) + 1
        BY <2>6, <2>10, <2>11, <3>1
      <3>2. CASE i # Len(issued) + 1
        <4>1. i \in DOMAIN issued /\ issued'[i] = issued[i]
          BY <1>0, <2>11, <3>2
        <4> QED
          BY <4>1 DEF OracleInv, IssuedHeld
      <3> QED
        BY <3>1, <3>2
    <2>13. RequestsHeld' /\ TierHeldNow'
      BY <2>2 DEF OracleInv, RequestsHeld, HeldSince, TierHeldNow
    <2>14. OracleTyped'
      BY <1>0, <2>2, <2>11 DEF OracleTyped
    <2> QED
      BY <2>12, <2>13, <2>14 DEF OracleInv
  <1>3. ASSUME NEW q \in requests, Refuse(q) PROVE OracleInv'
    BY <1>3 DEF Refuse, vars, OracleInv, OracleTyped, RequestsHeld, IssuedHeld,
                HeldSince, TierHeldNow
  <1>4. ASSUME NEW s \in Swapper, EditRecords(s) PROVE OracleInv'
    <2>1. PICK t \in ShownTiers : /\ tier' = [tier EXCEPT ![s] = t]
                                  /\ heldAt' = [heldAt EXCEPT ![s][t] = now]
      BY <1>4 DEF EditRecords
    <2>2. now' = now /\ requests' = requests /\ issued' = issued
      BY <1>4 DEF EditRecords, vars
    <2>3. /\ t \in Tier /\ tier' \in [Swapper -> ShownTiers]
          /\ heldAt' \in [Swapper -> [Tier -> Never .. now]]
      BY <1>0, <2>1 DEF Never
    <2>4. \A r \in Swapper, u \in Tier :
            \/ heldAt'[r][u] = heldAt[r][u]
            \/ heldAt'[r][u] \in Nat /\ heldAt'[r][u] >= now
      BY <1>0, <2>1, <2>3
    <2>5. \A q \in requests : now' <= q.at + MaxLatency
      BY <2>2 DEF OracleInv, RequestsHeld
    <2>6. RequestsHeld' /\ IssuedHeld'
      BY <1>0, <2>2, <2>4, <2>5, HeldKept
    <2>7. TierHeldNow'
      BY <1>0, <2>1, <2>2, <2>3 DEF OracleInv, TierHeldNow
    <2> QED
      BY <1>0, <2>2, <2>3, <2>6, <2>7 DEF OracleInv, OracleTyped
  <1>5. CASE Block
    <2>1. /\ now' = now + 1 /\ requests' = requests /\ issued' = issued /\ tier' = tier
          /\ heldAt' = [s \in Swapper |-> [heldAt[s] EXCEPT ![tier[s]] = now + 1]]
          /\ \A q \in requests : now < q.at + MaxLatency
      BY <1>5 DEF Block, NextBlock
    <2>2. \A s \in Swapper : tier[s] \in Tier /\ heldAt[s] \in [Tier -> Never .. now]
      BY <1>0
    <2>3. heldAt' \in [Swapper -> [Tier -> Never .. now']]
      <3>1. ASSUME NEW s \in Swapper
            PROVE  [heldAt[s] EXCEPT ![tier[s]] = now + 1] \in [Tier -> Never .. (now + 1)]
        BY <1>0, <2>2 DEF Never
      <3> QED
        BY <2>1, <3>1
    <2>4. \A r \in Swapper, u \in Tier :
            \/ heldAt'[r][u] = heldAt[r][u]
            \/ heldAt'[r][u] \in Nat /\ heldAt'[r][u] >= now
      BY <1>0, <2>1, <2>2
    <2>5. \A q \in requests : now' <= q.at + MaxLatency
      BY <1>0, <2>1, IssuesTyped
    <2>6. RequestsHeld' /\ IssuedHeld'
      BY <1>0, <2>1, <2>4, <2>5, HeldKept
    <2>7. TierHeldNow'
      BY <1>0, <2>1, <2>2 DEF TierHeldNow
    <2> QED
      BY <1>0, <2>1, <2>3, <2>6, <2>7 DEF OracleInv, OracleTyped
  <1>6. ASSUME UNCHANGED <<off, now>> PROVE OracleInv'
    BY <1>6 DEF off, OracleInv, OracleTyped, RequestsHeld, IssuedHeld, HeldSince, TierHeldNow
  <1>7. CASE Submit
    <2>1. now' = now
      BY <1>7 DEF Submit, EnterWithFee, EnterFeeless, Enter
    <2> QED
      BY <1>6, <1>7, <2>1 DEF Submit
  <1>8. CASE RouterReturns
    <2>1. now' = now
      BY <1>8 DEF RouterReturns, FeeReturns, PullReturns, Resume, SwapReturns, Reverts
    <2> QED
      BY <1>6, <1>8, <2>1 DEF RouterReturns
  <1>9. CASE UNCHANGED allVars
    BY <1>6, <1>9 DEF allVars, vars
  <1> QED
    BY <1>1, <1>2, <1>3, <1>4, <1>5, <1>7, <1>8, <1>9 DEF SettlementNext

----------------------------------------------------------------------------
(* The router's side of the invariant: a step of the router that only ends *)
(* or resumes calls, and one that enters one.                              *)
LEMMA HandedStays ==
  ASSUME NEW att, Handed(att), issued' = issued
  PROVE  Handed(att)'
  BY DEF Handed

LEMMA LogLengths ==
  ASSUME TypeInv, NEW n \in Nat, n = Len(frames)
  PROVE  /\ Level = 1 .. n + 1 /\ World(n + 1) = chain
         /\ \A k \in 1 .. n + 1 : World(k).log \in Seq(Settlement) /\ Len(World(k).log) \in Nat
  <1>1. ASSUME NEW k \in 1 .. n + 1 PROVE World(k) \in Chain
    <2>1. CASE k = n + 1
      BY <2>1 DEF World, TypeInv, TypeOK
    <2>2. CASE k # n + 1
      <3>1. k \in 1 .. n
        BY <2>2
      <3>2. frames[k] \in Frame /\ k <= Len(frames)
        BY <3>1 DEF TypeInv, TypeOK
      <3> QED
        BY <3>2 DEF World, Frame, SwapFrame, CallerFrame
    <2> QED
      BY <2>1, <2>2
  <1> QED
    BY <1>1 DEF Level, World, Chain

(* The log of each chain state after a step is that of one before it, or,  *)
(* for the current one, longer by a settled swap.                          *)
LEMMA CallsPush ==
  ASSUME TypeInv, CallsInv, NEW n \in Nat, n = Len(frames), PushesSilently(n),
         issued' = issued,
         \A k \in DOMAIN frames' : k = n + 1 => (Gated(k)' => Handed(frames'[k].call.att))
  PROVE  CallsInv'
  <1>1. PICK f \in Frame : Pushes(n, f) /\ chain'.log = chain.log
    BY DEF PushesSilently
  <1>2. /\ Level = 1 .. n + 1 /\ World(n + 1) = chain /\ Level' = 1 .. n + 2
        /\ DOMAIN frames' = 1 .. n + 1 /\ DOMAIN frames = 1 .. n
    <2>1. frames' = Append(frames, f) /\ frames \in Seq(Frame)
      BY <1>1 DEF Pushes, TypeInv, TypeOK
    <2> QED
      BY <1>1, <2>1 DEF Pushes, Level, World
  <1>3. /\ \A k \in 1 .. n + 1 : World(k)'.log = World(k).log
        /\ World(n + 2)'.log = World(n + 1).log
    BY <1>1, <1>2 DEF Pushes
  <1>4. FramesHanded'
    <2> SUFFICES ASSUME NEW k \in 1 .. n + 1, Gated(k)'
                 PROVE  Handed(frames'[k].call.att)
      BY <1>2, HandedStays DEF FramesHanded, Handed
    <2>1. CASE k = n + 1
      BY <1>2, <2>1
    <2>2. CASE k # n + 1
      <3>1. k \in 1 .. n /\ frames'[k] = frames[k]
        BY <1>1, <2>2 DEF Pushes
      <3> QED
        BY <1>2, <3>1 DEF CallsInv, FramesHanded, Gated
    <2> QED
      BY <2>1, <2>2
  <1>5. ASSUME NEW k \in 1 .. n + 2
        PROVE  \E j \in 1 .. n + 1 : World(k)'.log = World(j).log /\ (k <= n + 1 => j = k)
                                     /\ (k = n + 2 => j = n + 1)
    BY <1>3
  <1>6. LogsHanded'
    BY <1>2, <1>5 DEF CallsInv, LogsHanded, AllHanded, Handed
  <1>7. LogsGrow'
    <2> SUFFICES ASSUME NEW j \in 1 .. n + 2, NEW k \in 1 .. n + 2, j <= k
                 PROVE  Len(World(j)'.log) <= Len(World(k)'.log)
      BY <1>2 DEF LogsGrow
    <2>1. PICK i \in 1 .. n + 1 : World(j)'.log = World(i).log /\ (j <= n + 1 => i = j)
                                  /\ (j = n + 2 => i = n + 1)
      BY <1>5
    <2>2. PICK l \in 1 .. n + 1 : World(k)'.log = World(l).log /\ (k <= n + 1 => l = k)
                                  /\ (k = n + 2 => l = n + 1)
      BY <1>5
    <2>3. i <= l
      BY <2>1, <2>2
    <2> QED
      BY <1>2, <2>1, <2>2, <2>3 DEF CallsInv, LogsGrow
  <1> QED
    BY <1>4, <1>6, <1>7 DEF CallsInv

LEMMA CallsKeep ==
  ASSUME TypeInv, CallsInv, NEW n \in Nat, n = Len(frames), KeepsSilently(n),
         DOMAIN frames' = 1 .. n,
         issued' = issued
  PROVE  CallsInv'
  <1>1. /\ Level = 1 .. n + 1 /\ World(n + 1) = chain /\ Level' = 1 .. n + 1
        /\ DOMAIN frames = 1 .. n /\ World(n + 1)' = chain' /\ chain'.log = chain.log
    BY DEF KeepsSilently, Keeps, Level, World, TypeInv, TypeOK
  <1>2. \A k \in 1 .. n + 1 : World(k)'.log = World(k).log
    BY <1>1 DEF KeepsSilently, Keeps
  <1>3. FramesHanded'
    BY <1>1 DEF KeepsSilently, Keeps, CallsInv, FramesHanded, Handed
  <1>4. LogsHanded'
    BY <1>1, <1>2 DEF CallsInv, LogsHanded, AllHanded, Handed
  <1>5. LogsGrow'
    BY <1>1, <1>2 DEF CallsInv, LogsGrow
  <1> QED
    BY <1>3, <1>4, <1>5 DEF CallsInv

LEMMA CallsPop ==
  ASSUME TypeInv, CallsInv, NEW n \in Nat, n = Len(frames), Pops(n),
         frames' = Front(frames), issued' = issued, AllHanded(chain'),
         Len(World(n).log) <= Len(chain'.log), Len(chain'.log) \in Nat
  PROVE  CallsInv'
  <1>1. /\ Level = 1 .. n + 1 /\ Level' = 1 .. n /\ n \in 1 .. n
        /\ DOMAIN frames = 1 .. n /\ DOMAIN frames' = 1 .. n - 1
        /\ \A k \in 1 .. n : Len(World(k).log) \in Nat
    <2>1. frames \in Seq(Frame) /\ frames' \in Seq(Frame)
      BY PopFacts DEF TypeInv, TypeOK, Pops
    <2> QED
      BY <2>1, LogLengths DEF Pops, Level
  <1>2. /\ \A k \in 1 .. n - 1 : World(k)' = World(k) /\ frames'[k] = frames[k]
        /\ World(n)' = chain'
    BY DEF Pops
  <1>3. FramesHanded'
    BY <1>1, <1>2 DEF CallsInv, FramesHanded, Gated, Handed
  <1>4. LogsHanded'
    <2> SUFFICES ASSUME NEW k \in 1 .. n PROVE AllHanded(World(k))'
      BY <1>1 DEF LogsHanded
    <2>1. CASE k = n
      BY <1>2, <2>1 DEF AllHanded, Handed
    <2>2. CASE k # n
      <3>1. k \in 1 .. n - 1 /\ k \in Level
        BY <1>1, <2>2
      <3> QED
        BY <1>2, <3>1 DEF CallsInv, LogsHanded, AllHanded, Handed
    <2> QED
      BY <2>1, <2>2
  <1>5. LogsGrow'
    <2> SUFFICES ASSUME NEW j \in 1 .. n, NEW k \in 1 .. n, j <= k
                 PROVE  Len(World(j)'.log) <= Len(World(k)'.log)
      BY <1>1 DEF LogsGrow
    <2>1. CASE k # n
      <3>1. k \in 1 .. n - 1 /\ j \in 1 .. n - 1 /\ k \in Level /\ j \in Level
        BY <1>1, <2>1
      <3> QED
        BY <1>2, <3>1 DEF CallsInv, LogsGrow
    <2>2. CASE k = n /\ j # n
      <3>1. Len(World(j).log) <= Len(World(n).log)
        BY <1>1 DEF CallsInv, LogsGrow
      <3> QED
        BY <1>1, <1>2, <2>2, <3>1
    <2>3. CASE k = n /\ j = n
      BY <1>2, <2>3
    <2> QED
      BY <2>1, <2>2, <2>3
  <1> QED
    BY <1>3, <1>4, <1>5 DEF CallsInv

(* A pop goes back to a log that was there or adds the swap that settles.  *)
LEMMA CallsReturn ==
  ASSUME TypeInv, CallsInv, NEW n \in Nat, n = Len(frames), issued' = issued,
         PopsBack(n) \/ PopsSettling(n)
  PROVE  CallsInv'
  <1>1. /\ Level = 1 .. n + 1 /\ World(n + 1) = chain /\ n \in 1 .. n
        /\ \A k \in 1 .. n + 1 : World(k).log \in Seq(Settlement) /\ Len(World(k).log) \in Nat
        /\ Pops(n) /\ frames' = Front(frames)
    BY LogLengths DEF PopsBack, PopsSettling, Pops
  <1>2. Len(World(n).log) <= Len(chain.log) /\ AllHanded(World(n)) /\ AllHanded(chain)
    <2>1. n \in Level /\ n + 1 \in Level /\ n <= n + 1
      BY <1>1
    <2> QED
      BY <1>1, <2>1 DEF CallsInv, LogsGrow, LogsHanded
  <1>3. CASE PopsBack(n)
    <2>1. chain'.log = World(n).log \/ chain'.log = World(n + 1).log
      BY <1>1, <1>3 DEF PopsBack
    <2>2. /\ Len(World(n).log) <= Len(chain'.log) /\ Len(chain'.log) \in Nat
          /\ AllHanded(chain')
      BY <1>1, <1>2, <2>1 DEF AllHanded
    <2> QED
      BY <1>1, <2>2, CallsPop
  <1>4. CASE PopsSettling(n)
    <2>1. chain'.log = Append(chain.log, EntryOf(Top.call)) /\ Handed(Top.call.att)
      <3>1. n \in DOMAIN frames /\ Gated(n) /\ Top = frames[n]
        BY <1>1, <1>4 DEF PopsSettling, Pops, Gated, TypeInv, TypeOK
      <3> QED
        BY <1>4, <3>1 DEF PopsSettling, CallsInv, FramesHanded
    <2>2. EntryOf(Top.call).att = Top.call.att
      BY DEF EntryOf
    <2> DEFINE e == EntryOf(Top.call)
    <2> HIDE DEF e
    <2>3. /\ Len(chain'.log) = Len(chain.log) + 1
          /\ \A i \in DOMAIN chain'.log : chain'.log[i] = e \/
               (i \in DOMAIN chain.log /\ chain'.log[i] = chain.log[i])
      <3>1. chain.log \in Seq(Settlement) /\ chain'.log = Append(chain.log, e)
        BY <1>1, <2>1 DEF e
      <3> QED
        BY <3>1
    <2>4. AllHanded(chain')
      BY <1>2, <2>1, <2>2, <2>3 DEF AllHanded, e
    <2>5. Len(World(n).log) <= Len(chain'.log) /\ Len(chain'.log) \in Nat
      BY <1>1, <1>2, <2>3
    <2> QED
      BY <1>1, <2>4, <2>5, CallsPop
  <1> QED
    BY <1>3, <1>4

LEMMA CallsStep ==
  ASSUME TypeInv, OracleInv, CallsInv, [SettlementNext]_allVars
  PROVE  CallsInv'
  <1>0. [Next]_vars /\ frames \in Seq(Frame) /\ chain \in Chain
    BY RouterSteps DEF TypeInv, TypeOK
  <1>n. PICK n \in Nat : n = Len(frames)
    BY <1>0
  <1>s. PushesSilently(n) \/ KeepsSilently(n) \/ PopsBack(n) \/ PopsSettling(n)
    BY <1>0, <1>n, StepShape
  <1>1. CASE Submit
    <2>1. PICK i \in DOMAIN issued, v \in Value :
            LET c == [att |-> issued[i].att, payload |-> issued[i].att.calldataHash,
                      value |-> v]
            IN  EnterWithFee(c) \/ EnterFeeless(c)
      BY <1>1 DEF Submit
    <2> DEFINE c == [att |-> issued[i].att, payload |-> issued[i].att.calldataHash,
                     value |-> v]
    <2>2. Handed(c.att)
      BY DEF Handed
    <2>3. issued' = issued
      BY <1>1 DEF Submit, off
    <2> HIDE DEF c
    <2>4. EnterWithFee(c) \/ EnterFeeless(c)
      BY <2>1 DEF c
    <2>5. PICK pc \in {"fee", "pull", "forward"} :
            frames' = Append(frames, [pc |-> pc, call |-> c, entry |-> chain])
      BY <2>4 DEF EnterWithFee, EnterFeeless, Enter, PcAfterFee
    <2> DEFINE f == [pc |-> pc, call |-> c, entry |-> chain]
    <2>6. f.call = c
      OBVIOUS
    <2> HIDE DEF f
    <2>7. frames' = Append(frames, f)
      BY <2>5 DEF f
    <2>8. frames'[n + 1] = f /\ Len(frames') = n + 1
      BY <1>0, <1>n, <2>7
    <2>9. PushesSilently(n)
      BY <1>n, <1>s, <2>8 DEF KeepsSilently, Keeps, PopsBack, PopsSettling, Pops
    <2> QED
      BY <1>n, <2>2, <2>3, <2>6, <2>8, <2>9, CallsPush
  <1>2. CASE RouterReturns
    <2>1. issued' = issued
      BY <1>2 DEF RouterReturns, off
    <2>2. /\ frames # <<>>
          /\ \/ frames' = Front(frames)
             \/ \E pc \in {"fee", "pull", "forward"} :
                  frames' = [frames EXCEPT ![Len(frames)].pc = pc]
      BY <1>2 DEF RouterReturns, FeeReturns, PullReturns, SwapReturns, Reverts, Resume,
                  Suspended, PcAfterFee
    <2>3. \/ Len(frames') = n - 1
          \/ Len(frames') = n /\ DOMAIN frames' = 1 .. n
      <3>1. CASE frames' = Front(frames)
        BY <1>0, <1>n, <2>2, <3>1, PopFacts
      <3>2. CASE \E pc \in {"fee", "pull", "forward"} :
                   frames' = [frames EXCEPT ![Len(frames)].pc = pc]
        BY <1>0, <1>n, <3>2
      <3> QED
        BY <2>2, <3>1, <3>2
    <2>4. CASE PushesSilently(n)
      BY <1>n, <2>3, <2>4 DEF PushesSilently, Pushes
    <2>5. CASE KeepsSilently(n)
      <3>1. DOMAIN frames' = 1 .. n
        BY <2>3, <2>5 DEF KeepsSilently, Keeps
      <3> QED
        BY <1>n, <2>1, <2>5, <3>1, CallsKeep
    <2> QED
      BY <1>n, <1>s, <2>1, <2>4, <2>5, CallsReturn
  <1>3. ASSUME chain' = chain, frames' = frames, issued' = issued PROVE CallsInv'
    <2>1. \A k \in Level : World(k)' = World(k)
      BY <1>3 DEF World
    <2> QED
      BY <1>3, <2>1 DEF CallsInv, FramesHanded, LogsHanded, LogsGrow, Level, Gated, AllHanded,
                        Handed
  <1>4. CASE Block
    BY <1>3, <1>4 DEF Block, NextBlock
  <1>5. ASSUME NEW s \in Swapper, EditRecords(s) PROVE CallsInv'
    BY <1>3, <1>5 DEF EditRecords, vars
  <1>6. ASSUME NEW s \in Swapper, NEW r \in Swapper, Ask(s, r) PROVE CallsInv'
    BY <1>3, <1>6 DEF Ask, vars
  <1>7. ASSUME NEW q \in requests, Refuse(q) PROVE CallsInv'
    BY <1>3, <1>7 DEF Refuse, vars
  <1>8. ASSUME NEW q \in requests, Sign(q) PROVE CallsInv'
    <2>1. chain' = chain /\ frames' = frames
      BY <1>8 DEF Sign, vars
    <2>2. PICK e : issued' = Append(issued, e)
      BY <1>8 DEF Sign
    <2>3. issued \in Seq(Issue)
      BY DEF OracleInv, OracleTyped
    <2>4. \A i \in DOMAIN issued : i \in DOMAIN issued' /\ issued'[i] = issued[i]
      BY <2>2, <2>3
    <2>5. \A att : Handed(att) => Handed(att)'
      BY <2>4 DEF Handed
    <2>6. \A k \in Level : World(k)' = World(k)
      BY <2>1 DEF World
    <2> QED
      BY <2>1, <2>5, <2>6 DEF CallsInv, FramesHanded, LogsHanded, LogsGrow, Level, Gated,
                              AllHanded
  <1>9. CASE UNCHANGED allVars
    BY <1>3, <1>9 DEF allVars, vars, off
  <1> QED
    BY <1>1, <1>2, <1>4, <1>5, <1>6, <1>7, <1>8, <1>9 DEF SettlementNext

LEMMA SettlementInvInit == SettlementInit => SettlementInv
  <1> SUFFICES ASSUME SettlementInit PROVE SettlementInv
    OBVIOUS
  <1>1. TypeInv /\ NonceInv
    BY InitTyped, NonceInit DEF SettlementInit
  <1>2. /\ now = 0 /\ frames = <<>> /\ chain.log = <<>> /\ requests = {} /\ issued = <<>>
        /\ tier \in [Swapper -> ShownTiers \ {None}]
        /\ heldAt = [s \in Swapper |-> [t \in Tier |-> IF t = tier[s] THEN 0 ELSE Never]]
    BY DEF SettlementInit, Init
  <1>3. OracleInv
    <2>1. heldAt \in [Swapper -> [Tier -> Never .. now]]
      BY <1>2 DEF Never
    <2>2. TierHeldNow
      BY <1>2, SettlementAssumption DEF TierHeldNow
    <2> QED
      BY <1>2, <2>1, <2>2 DEF OracleInv, OracleTyped, RequestsHeld, IssuedHeld
  <1>4. CallsInv
    <2>1. Level = {1} /\ World(1) = chain
      BY <1>2 DEF Level, World
    <2> QED
      BY <1>2, <2>1 DEF CallsInv, FramesHanded, LogsHanded, LogsGrow, AllHanded
  <1> QED
    BY <1>1, <1>3, <1>4 DEF SettlementInv

LEMMA SettlementInvStep == SettlementInv /\ [SettlementNext]_allVars => SettlementInv'
  BY RouterSteps, TypeInvStep, NonceStep, OracleStep, CallsStep DEF SettlementInv, TypeInv

----------------------------------------------------------------------------
(* An attestation whose tiers were held lately, at any time it is good.    *)
LEMMA HeldLately ==
  ASSUME NEW s \in Swapper, NEW t \in Tier, NEW e \in Int, now \in Nat, now <= e,
         HeldSince(s, t, e - TTL - MaxLatency),
         heldAt \in [Swapper -> [Tier -> Never .. now]]
  PROVE  RecentlyHad(s, t)
  <1>1. heldAt[s][t] \in Never .. now /\ TTL \in Nat /\ MaxLatency \in Nat
    BY SettlementAssumption
  <1> QED
    BY <1>1 DEF HeldSince, RecentlyHad, Never

LEMMA GrowthBinds ==
  SettlementInv /\ [SettlementNext]_allVars =>
    (Len(chain'.log) > Len(chain.log) => ByRecentTiers(Last(chain'.log)))
  <1> SUFFICES ASSUME SettlementInv, [SettlementNext]_allVars,
                      Len(chain'.log) > Len(chain.log)
               PROVE  ByRecentTiers(Last(chain'.log))
    OBVIOUS
  <1>0. /\ TypeInv /\ OracleInv /\ CallsInv /\ [Next]_vars /\ chain \in Chain
        /\ now \in Nat /\ frames \in Seq(Frame)
    BY RouterSteps DEF SettlementInv, TypeInv, TypeOK
  <1>1. PICK n \in Nat : n = Len(frames)
    BY <1>0
  <1>2. /\ Level = 1 .. n + 1 /\ World(n + 1) = chain
        /\ \A k \in 1 .. n + 1 : World(k).log \in Seq(Settlement) /\ Len(World(k).log) \in Nat
    BY <1>0, <1>1, LogLengths
  <1>3. chain.log \in Seq(Settlement) /\ Len(chain.log) \in Nat
    BY <1>0 DEF Chain
  <1>4. PopsSettling(n)
    <2>1. CASE PopsBack(n)
      <3>1. n \in 1 .. n
        BY <2>1 DEF PopsBack, Pops
      <3>2. n \in Level /\ n + 1 \in Level /\ n <= n + 1
        BY <1>2, <3>1
      <3>3. Len(World(n).log) <= Len(chain.log) /\ Len(World(n).log) \in Nat
        BY <1>0, <1>2, <3>1, <3>2 DEF CallsInv, LogsGrow
      <3> QED
        BY <1>3, <2>1, <3>3 DEF PopsBack
    <2> QED
      BY <1>0, <1>1, <1>3, <2>1, StepShape DEF PushesSilently, KeepsSilently
  <1> DEFINE c == Top.call
             e == EntryOf(c)
  <1>5. /\ n \in DOMAIN frames /\ Gated(n) /\ Top = frames[n]
        /\ chain'.log = Append(chain.log, e) /\ NotExpired(c)
    BY <1>0, <1>1, <1>4 DEF PopsSettling, Pops, Gated, Checked
  <1>6. e.att = c.att
    BY DEF EntryOf
  <1>7. PICK i \in DOMAIN issued : issued[i].att = c.att
    BY <1>0, <1>5 DEF CallsInv, FramesHanded, Handed
  <1>8. Last(chain'.log) = e
    <2> HIDE DEF e
    <2> QED
      BY <1>3, <1>5 DEF Last
  <1> DEFINE a == issued[i].att
  <1>9. /\ a.swapper \in Swapper /\ issued[i].recipient \in Swapper /\ a.expiresAt \in Int
        /\ a.swapperTier \in Tier /\ a.recipientTier \in Tier
    <2>1. issued[i] \in Issue
      BY <1>0 DEF OracleInv, OracleTyped
    <2> QED
      BY <1>0, <2>1, IssuesTyped, SettlementAssumption, RouterAssumption DEF Issue, Signable
  <1>10. /\ HeldSince(a.swapper, a.swapperTier, a.expiresAt - TTL - MaxLatency)
         /\ HeldSince(issued[i].recipient, a.recipientTier, a.expiresAt - TTL - MaxLatency)
    BY <1>0 DEF OracleInv, IssuedHeld, SignedFrom
  <1>11. now <= a.expiresAt /\ heldAt \in [Swapper -> [Tier -> Never .. now]]
    BY <1>0, <1>5, <1>7 DEF NotExpired, OracleInv, OracleTyped
  <1>12. RecentlyHad(a.swapper, a.swapperTier) /\ RecentlyHad(issued[i].recipient, a.recipientTier)
    BY <1>0, <1>9, <1>10, <1>11, HeldLately
  <1> HIDE DEF e, c
  <1> QED
    BY <1>6, <1>7, <1>8, <1>12 DEF ByRecentTiers

(* A change of tiers binds: a swap settles by tiers that its swapper and   *)
(* its recipient both had within a time to live and a latency before.      *)
THEOREM TierChangesBind == SettlementSpec => ChangesBind
  <1>1. SettlementInv /\ [SettlementNext]_allVars =>
          [Len(chain'.log) > Len(chain.log) => ByRecentTiers(Last(chain'.log))]_allVars
    BY GrowthBinds
  <1> QED
    BY <1>1, SettlementInvInit, SettlementInvStep, PTL DEF SettlementSpec, ChangesBind

LEMMA Survival == SettlementInv => AttestationsSurvive
  <1> SUFFICES ASSUME SettlementInv, frames = <<>>, NEW i \in DOMAIN issued, Alone(i),
                      now <= issued[i].att.expiresAt, ~ Settled(issued[i].att)
               PROVE  Admissible(chain, [att |-> issued[i].att,
                                         payload |-> issued[i].att.calldataHash, value |-> 0])
    BY DEF AttestationsSurvive
  <1> DEFINE a == issued[i].att
             c == [att |-> a, payload |-> a.calldataHash, value |-> 0]
  <1>1. issued[i] \in Issue /\ a \in Signable
    <2>1. issued \in Seq(Issue)
      BY DEF SettlementInv, OracleInv, OracleTyped
    <2>2. issued[i] \in Issue
      BY <2>1
    <2> QED
      BY <2>2 DEF Issue
  <1>2. SignatureValid(c) /\ CalldataBound(c) /\ NotExpired(c)
    BY <1>1, OracleKeyAssumption DEF SignatureValid, CalldataBound, NotExpired
  <1>3. a.swapperTier \in Tier \ {None} /\ a.recipientTier \in Tier \ {None}
    BY <1>1, SettlementAssumption DEF Signable
  <1>4. AboveFloor(c)
    BY <1>3 DEF AboveFloor
  <1>5. UnderCap(c)
    <2>1. EffectiveTier(a) \in Tier
      BY <1>3 DEF EffectiveTier, StricterTier
    <2> QED
      BY <2>1, CapUnitAssumption DEF UnderCap, WithinCap, MaxTradeSize
  <1>6. NonceKey(a) \notin SettledKeys(chain)
    <2> SUFFICES ASSUME NEW k \in DOMAIN chain.log, NonceKey(chain.log[k].att) = NonceKey(a)
                 PROVE  FALSE
      BY DEF SettledKeys
    <2>1. 1 \in Level /\ World(1) = chain
      BY DEF Level, World
    <2>2. PICK j \in DOMAIN issued : issued[j].att = chain.log[k].att
      BY <2>1 DEF SettlementInv, CallsInv, LogsHanded, AllHanded, Handed
    <2>3. issued[j].att = a
      BY <2>2 DEF Alone
    <2> QED
      BY <2>2, <2>3 DEF Settled
  <1>7. chain.usedNonce = SettledKeys(chain)
    BY NonceInvImplies DEF SettlementInv, NonceBurnedIffSettled
  <1>8. NonceFresh(chain, c)
    BY <1>6, <1>7 DEF NonceFresh
  <1> QED
    BY <1>2, <1>4, <1>5, <1>8 DEF Admissible

(* Nobody can take an attestation away: in time and alone with its nonce,  *)
(* it stays good until it settles, whatever was submitted or reverted.     *)
THEOREM AttestationsStayGood == SettlementSpec => []AttestationsSurvive
  BY SettlementInvInit, SettlementInvStep, Survival, PTL DEF SettlementSpec

(* With the oracle in front of it the router takes no step that it does    *)
(* not take alone, so that what is proved of it there holds here; and to   *)
(* the outside the two still keep the attestation ledger                   *)
(* (oracle/src/index.ts:407, TrustSwapRouter.sol:244-303).                 *)
THEOREM SettlementKeepsTheLedger == SettlementSpec => Spec /\ LedgerSpec
  <1>1. SettlementInit => Init
    BY DEF SettlementInit
  <1>2. SettlementInv /\ [SettlementNext]_allVars => [Next]_vars
    BY RouterSteps DEF SettlementInv
  <1>3. SettlementSpec => Spec
    BY <1>1, <1>2, SettlementInvInit, SettlementInvStep, PTL DEF SettlementSpec, Spec
  <1> QED
    BY <1>3, ImplementsLedger
=============================================================================
