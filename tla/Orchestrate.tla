---------------------------- MODULE Orchestrate ----------------------------
(***************************************************************************)
(* The swap pipeline of packages/core/src/orchestrate.ts: resolve both      *)
(* sides (through the resolver cache), gate, pre-flight the recipient's     *)
(* RiskPolicy, quote, ask the oracle for an attestation, execute.  One      *)
(* action per await; the records may change between any two of them, so     *)
(* what the caller holds may be stale when the oracle reads them again.     *)
(* Runs follow one another in one process and share its cache, whose        *)
(* entries expire at any moment here (ResolverCache has the clock).         *)
(***************************************************************************)
EXTENDS Integers

CONSTANTS Address, NoAddress,   \* addresses the recipient's name may have
          Policies, NoPolicy,   \* the recipient's RiskPolicy: [minTier, maxSize, accepts]
          GateMin,              \* the caller's own minimum tier
          Size,                 \* the swap's value in USD
          Worlds,               \* what the chain may say at first
          OldCaches,            \* what earlier runs may have left in the cache
          MaxRuns, MaxEdits     \* bounds

\* The recipient trades under a subname of parent.
Name == {"recipient", "parent", "swapper"}
Tiers == 0..2                   \* 0 is none
Miss == [addr |-> NoAddress, tier |-> -1]
Profiles == [addr : Address \cup {NoAddress}, tier : Tiers]
Unknown == [addr |-> NoAddress, tier |-> 0]
Stages == {"idle", "recipient", "parent", "policy", "swapper", "retry", "retryParent",
           "valuing", "quoting", "attesting", "executing", "ended"}
Halts == {"none", "threw", "gate-deny", "recipient-unresolved", "risk-policy-deny",
          "quote-failed", "oracle-refusal", "swap-failed"}

\* What the constants that stand for the outside may be: records of the three names,
\* entries that were worth keeping, and a tier.
PipelineInputsTyped ==
  /\ Worlds \subseteq [names : [Name -> Profiles], policy : Policies \cup {NoPolicy}]
  /\ OldCaches \subseteq [Name -> {p \in Profiles : p.tier # 0 /\ p.addr # NoAddress} \cup {Miss}]
  /\ GateMin \in Nat
ASSUME PipelineAssumption == PipelineInputsTyped

VARIABLES world,   \* what the chain says: the names' profiles and the finalized policy
          cached,   \* the process's resolver cache
          run,     \* the run in progress
          att,     \* the attestation it got, and the truth when it was signed
          edits, runs
pipelineVars == <<world, cached, run, att, edits, runs>>

NoQuote == [quote |-> 0, payer |-> "zero"]
NoAtt == [recipient |-> NoAddress, hash |-> NoQuote, truth |-> [names |-> [n \in Name |-> Unknown], policy |-> NoPolicy], blind |-> FALSE]
\* `clean` and `lost` observe a run and decide nothing: whether all it has seen was the
\* truth and still is, and whether its retry was answered with less than that.
NoRun == [pc |-> "idle", halt |-> "none", dry |-> TRUE, caller |-> FALSE, profile |-> Unknown,
          policy |-> NoPolicy, swapper |-> Miss, fresh |-> Miss, quote |-> NoQuote, sent |-> NoQuote,
          clean |-> FALSE, lost |-> FALSE]

PipelineInit ==
  /\ world \in Worlds
  /\ cached \in OldCaches
  /\ run = NoRun /\ att = NoAtt
  /\ edits = 0 /\ runs = 0

-----------------------------------------------------------------------------
\* A profile with layers that failed: no address, or a lower tier or none.
Degraded(p) == [addr : {p.addr, NoAddress}, tier : 0..p.tier]
IsFlake(p) == p.tier = 0 \/ p.addr = NoAddress

\* What a lookup of a name may return, the cache entry after it, and whether the
\* resolver was asked and gave less than the truth.
Lookups(n, bypass) ==
  IF ~bypass /\ cached[n] # Miss
  THEN {[profile |-> cached[n], entry |-> cached[n], lost |-> FALSE]}
  ELSE {[profile |-> p, entry |-> IF IsFlake(p) THEN cached[n] ELSE p, lost |-> p # world.names[n]] :
          p \in Degraded(world.names[n])}

\* A subname of tier none takes its parent's profile, with its own address, asked
\* for once more when it is missing.
Inherited(own, parent) ==
  IF parent.tier = 0 THEN {own}
  ELSE {[parent EXCEPT !.addr = a] :
          a \in IF own.addr = NoAddress THEN {NoAddress, world.names["recipient"].addr} ELSE {own.addr}}

Quiet == UNCHANGED <<world, att, edits, runs>>
Halt(reason) == [run EXCEPT !.pc = "ended", !.halt = reason]
Goto(from, next) == run.pc = from /\ run' = next

\* What the observers make of a read that came back short, or failed.
Seen(lost, next) == [next EXCEPT !.clean = @ /\ ~lost,
                                 !.lost = @ \/ (lost /\ run.pc \in {"retry", "retryParent"})]
Failed(from, next) == Goto(from, Seen(TRUE, next)) /\ UNCHANGED cached /\ Quiet

\* A lookup of n comes back as l, upon which the run goes on as next.
ComesBack(n, l, next) ==
  /\ run' = Seen(l.lost, next)
  /\ cached' = [cached EXCEPT ![n] = l.entry]
  /\ Quiet

\* orchestrate() is called; a broadcast without a router address is refused at once.
Start == \E dry, caller, routerSet \in BOOLEAN :
  /\ run.pc \in {"idle", "ended"} /\ runs < MaxRuns /\ runs' = runs + 1
  /\ run' = IF dry \/ routerSet
            THEN [NoRun EXCEPT !.pc = "recipient", !.dry = dry, !.caller = caller,
                               !.clean = \A n \in Name : cached[n] \in {Miss, world.names[n]}]
            ELSE [NoRun EXCEPT !.pc = "ended", !.halt = "threw", !.dry = dry]
  /\ att' = NoAtt /\ UNCHANGED <<world, cached, edits>>

RecipientResolved(p) ==
  [run EXCEPT !.profile = p, !.pc = IF p.tier = 0 THEN "parent" ELSE "policy"]

\* The first await of all: what the resolver throws is the caller's.
ResolveRecipient ==
  \/ run.pc = "recipient" /\ \E l \in Lookups("recipient", FALSE) :
       ComesBack("recipient", l, RecipientResolved(l.profile))
  \/ Failed("recipient", Halt("threw"))

ResolveParent ==
  \/ run.pc = "parent" /\ \E l \in Lookups("parent", FALSE) : \E p \in Inherited(run.profile, l.profile) :
       ComesBack("parent", l, [run EXCEPT !.pc = "policy", !.profile = p])
  \/ Failed("parent", [run EXCEPT !.pc = "policy"])

\* The recipient's policy at the finalized block: a read that fails finds none, a
\* document that does not parse throws.
ReadPolicy ==
  \/ \E got \in {world.policy, NoPolicy} :
       /\ Goto("policy", Seen(got # world.policy, [run EXCEPT !.pc = "swapper", !.policy = got]))
       /\ UNCHANGED cached /\ Quiet
  \/ Failed("policy", Halt("threw"))

GateAllows(p) == p.tier >= GateMin

\* riskPolicyPreflightStatic: token, then tier when the swapper's profile is known.
StaticDeny(r) == r.policy # NoPolicy /\
  (~r.policy.accepts \/ (r.swapper # Miss /\ r.swapper.tier < r.policy.minTier))

\* Past the gate: address, static pre-flight, and on to the next await.
Admitted(r) ==
  IF r.profile.addr = NoAddress THEN [r EXCEPT !.pc = "ended", !.halt = "recipient-unresolved"]
  ELSE IF StaticDeny(r) THEN [r EXCEPT !.pc = "ended", !.halt = "risk-policy-deny"]
  ELSE [r EXCEPT !.pc = IF r.policy = NoPolicy THEN "quoting" ELSE "valuing"]

Gated(r) == IF GateAllows(r.profile) THEN Admitted(r) ELSE [r EXCEPT !.pc = "retry"]

SwapperResolved(p) == Gated([run EXCEPT !.swapper = p])

\* The swapper's own profile, only with a caller name; a failure is swallowed.
ResolveSwapper ==
  \/ run.caller /\ run.pc = "swapper" /\ \E l \in Lookups("swapper", FALSE) :
       ComesBack("swapper", l, SwapperResolved(l.profile))
  \/ run.caller /\ Failed("swapper", Gated(run))
  \/ ~run.caller /\ Goto("swapper", Gated(run)) /\ UNCHANGED cached /\ Quiet

\* Mutant: a profile that is denied again is asked for again.
RefreshedUntilAllowed(p) ==
  LET r == [run EXCEPT !.fresh = p, !.profile = IF IsFlake(p) THEN @ ELSE p]
  IN IF GateAllows(r.profile) THEN Admitted(r) ELSE [r EXCEPT !.pc = "retry"]

\* One retry past the cache; a flake does not replace what was there.
Refreshed(p) ==
  LET r == [run EXCEPT !.fresh = p, !.profile = IF IsFlake(p) THEN @ ELSE p]
  IN IF GateAllows(r.profile) THEN Admitted(r)
     ELSE [r EXCEPT !.pc = "ended", !.halt = "gate-deny"]

RetryResolved(p) == IF p.tier = 0 THEN [run EXCEPT !.pc = "retryParent", !.fresh = p] ELSE Refreshed(p)

RetryFails == Failed("retry", [Halt("gate-deny") EXCEPT !.fresh = Unknown])

\* Mutant: the retry asks the cache.
RetryThroughCache ==
  \/ run.pc = "retry" /\ \E l \in Lookups("recipient", FALSE) : ComesBack("recipient", l, RetryResolved(l.profile))
  \/ RetryFails

Retry ==
  \/ run.pc = "retry" /\ \E l \in Lookups("recipient", TRUE) : ComesBack("recipient", l, RetryResolved(l.profile))
  \/ RetryFails

RetryParent ==
  \/ run.pc = "retryParent" /\ \E l \in Lookups("parent", TRUE) : \E p \in Inherited(run.fresh, l.profile) :
       ComesBack("parent", l, Refreshed(p))
  \/ Failed("retryParent", Refreshed(run.fresh))

\* valueInUsdc, then riskPolicyPreflightSize.
Value ==
  /\ run.pc = "valuing"
  /\ \/ run' = IF Size > run.policy.maxSize THEN Halt("risk-policy-deny") ELSE [run EXCEPT !.pc = "quoting"]
     \/ run' = Halt("quote-failed")
  /\ UNCHANGED cached /\ Quiet

\* keccak256 over the pull parameters and the quote's calldata.
HashOf(quote, payer) == [quote |-> quote, payer |-> payer]

\* The quote and its calldata; the router pulls an ERC20 input from the signer,
\* and nothing when the input is native.
Quote == run.pc = "quoting" /\ \E id \in {1, 2}, payer \in {"signer", "zero"} :
  /\ \/ run' = IF run.caller
                THEN [run EXCEPT !.pc = "attesting", !.quote = [quote |-> id, payer |-> payer]]
                ELSE Halt("oracle-refusal")
     \/ run' = Halt("quote-failed")
  /\ UNCHANGED cached /\ Quiet

\* Mutant: the oracle believes the address it is sent.
OracleTrustsCaller(recipient) ==
  /\ world.names["recipient"].tier > 0 \/ world.names["parent"].tier > 0
  /\ world.names["swapper"].tier > 0

\* The oracle resolves both sides itself: the address must be the name's and both
\* sides must have a tier.
OracleSigns(recipient) ==
  /\ recipient = world.names["recipient"].addr
  /\ world.names["recipient"].tier > 0 \/ world.names["parent"].tier > 0
  /\ world.names["swapper"].tier > 0

\* Its check of the recipient's policy; no limit is a limit of 0 to it.
PolicyForbids(w) == w.policy # NoPolicy /\
  \/ ~w.policy.accepts
  \/ w.names["swapper"].tier < w.policy.minTier
  \/ w.policy.maxSize > 0 /\ Size > w.policy.maxSize

\* What the oracle refuses (403) when it sees the truth.
Ineligible(w) ==
  \/ w.names["swapper"].tier = 0
  \/ w.names["recipient"].tier = 0 /\ w.names["parent"].tier = 0
  \/ PolicyForbids(w)

\* 403 is a refusal, which the oracle's own reads may be to blame for; any other
\* failure, a wrong address too, is thrown to orchestrate's caller.
Attest ==
  /\ run.pc = "attesting"
  /\ \/ \E blind \in BOOLEAN :      \* the oracle may fail to read the policy
          /\ OracleSigns(run.profile.addr) /\ (blind \/ ~PolicyForbids(world))
          /\ run' = [run EXCEPT !.pc = IF run.dry THEN "ended" ELSE "executing"]
          /\ att' = [recipient |-> run.profile.addr, hash |-> HashOf(run.quote.quote, run.quote.payer),
                     truth |-> world, blind |-> blind]
     \/ run' = Seen(~Ineligible(world), Halt("oracle-refusal")) /\ UNCHANGED att
     \/ run' = Halt("threw") /\ UNCHANGED att
  /\ UNCHANGED <<world, cached, edits, runs>>

\* signer.execute of the gatedSwap call built from the quote and the attestation.
Execute ==
  /\ run.pc = "executing"
  /\ run' \in {[run EXCEPT !.pc = "ended", !.sent = run.quote], Halt("swap-failed")}
  /\ UNCHANGED cached /\ Quiet

\* The records change; what a run saw, or got from its retry, may no longer be true.
EditNames == \E n \in Name, p \in [addr : Address, tier : Tiers] :
  /\ edits < MaxEdits /\ world.names[n] # p
  /\ n # "recipient" => p.addr = world.names[n].addr   \* only its address is used
  /\ edits' = edits + 1 /\ world' = [world EXCEPT !.names[n] = p]
  /\ run' = [run EXCEPT !.clean = FALSE, !.lost = TRUE] /\ UNCHANGED <<cached, att, runs>>

EditPolicy == \E p \in Policies :
  /\ edits < MaxEdits /\ world.policy # p
  /\ edits' = edits + 1 /\ world' = [world EXCEPT !.policy = p]
  /\ run' = [run EXCEPT !.clean = FALSE] /\ UNCHANGED <<cached, att, runs>>

Expire == \E n \in Name :
  /\ cached[n] # Miss /\ cached' = [cached EXCEPT ![n] = Miss]
  /\ UNCHANGED <<world, run, att, edits, runs>>

\* The awaits that end: the chain's and the gateways' clients give up after their time
\* limits, the Trading API and the oracle answer or drop the connection, and a response
\* that has begun comes to its end.
Timed == \/ ResolveRecipient \/ ResolveParent \/ ResolveSwapper \/ Retry \/ RetryParent
         \/ Value \/ Quote \/ Attest \/ Execute

\* ReadPolicy asks the recipient's own server, with no time limit (risk-policy.ts:238).
Step == Timed \/ ReadPolicy

PipelineNext == Start \/ Step \/ EditNames \/ EditPolicy \/ Expire

PipelineSpec == PipelineInit /\ [][PipelineNext]_pipelineVars /\ WF_pipelineVars(Timed)
-----------------------------------------------------------------------------
PipelineTypeOK ==
  /\ world.names \in [Name -> Profiles] /\ world.policy \in Policies \cup {NoPolicy}
  /\ cached \in [Name -> {p \in Profiles : ~IsFlake(p)} \cup {Miss}]
  /\ run.pc \in Stages /\ run.halt \in Halts /\ run.profile \in Profiles
  /\ run.halt # "none" => run.pc = "ended"

(* However old the cached profile a run went by, what it sends was signed   *)
(* when the recipient's name still had that address, both sides had a tier  *)
(* and the policy, unless it could not be read, allowed the swap            *)
(* (orchestrate.ts:348-622, resolver-cache.ts).                             *)
StaleCacheNeverSettles == run.sent # NoQuote =>
  LET truth == att.truth.names IN
  /\ att.recipient = truth["recipient"].addr
  /\ truth["swapper"].tier > 0 /\ truth["recipient"].tier + truth["parent"].tier > 0
  /\ ~att.blind => ~PolicyForbids(att.truth)

(* What is sent is what was attested, quote and payer together, and a dry   *)
(* run sends nothing, however the run was interrupted (orchestrate.ts:543). *)
SentIsAttested == run.sent # NoQuote => att.hash = run.sent /\ ~run.dry

\* The recipient's profile as it is, inheritance included.
TrueRecipient ==
  LET own == world.names["recipient"]  parent == world.names["parent"]
  IN IF own.tier # 0 \/ parent.tier = 0 THEN own ELSE [parent EXCEPT !.addr = own.addr]

(* The gate turns a recipient away only if its records, as they are now,    *)
(* deserve it, whatever the cache held of it or of its parent: a profile    *)
(* kept from before is asked for again past the cache.  Excused is only the *)
(* retry that failed or came back short (orchestrate.ts:392-424).           *)
GateDenyIsDeserved == run.halt = "gate-deny" /\ ~run.lost =>
  ~GateAllows(TrueRecipient) \/ TrueRecipient.addr = NoAddress

(* Any other refusal that the truth does not bear out goes back to an entry *)
(* that was out of date when the run began, to a read that came back short  *)
(* or to a change of the records on the way: once the entry has expired,    *)
(* the next run is admitted.  Until then a stale profile does refuse: the   *)
(* swapper's decides the pre-flight, which has no retry past the cache, and *)
(* a stale address is refused by the oracle (orchestrate.ts:367-378,        *)
(* 449-465; resolver-cache.ts:72).                                          *)
RefusalEndsWithEntry == run.clean /\ run.pc = "ended" =>
  /\ run.halt = "gate-deny" => ~GateAllows(TrueRecipient)
  /\ run.halt = "recipient-unresolved" => TrueRecipient.addr = NoAddress
  /\ run.halt = "risk-policy-deny" => world.policy # NoPolicy /\
       \/ ~world.policy.accepts
       \/ run.caller /\ world.names["swapper"].tier < world.policy.minTier
       \/ Size > world.policy.maxSize
  /\ run.halt = "oracle-refusal" => ~run.caller \/ Ineligible(world)

(* What a stale cache can do to a swap is bounded: it never settles one, it *)
(* never changes what was attested into something else, it does not deny at *)
(* the gate, and what else it refuses it refuses no longer than its entry   *)
(* lives (orchestrate.ts:348, 392, 449, 543).                               *)
StaleCacheIsContained ==
  StaleCacheNeverSettles /\ SentIsAttested /\ GateDenyIsDeserved /\ RefusalEndsWithEntry

(* Every run comes to an end or waits for the recipient's own server, the   *)
(* one await without a time limit: it is never left in another await, and   *)
(* once it is past the policy it ends (orchestrate.ts:317-708,              *)
(* risk-policy.ts:238).                                                     *)
RunEnds == run.pc \notin {"idle", "policy", "ended"} ~> run.pc \in {"policy", "ended"}
=============================================================================
