---------------------------- MODULE SwapPreview ----------------------------
(***************************************************************************)
(* The /swap page (packages/site/src/app/swap/page.tsx) and the route it    *)
(* posts its form to (api/gate/route.ts): resolve the recipient, read its   *)
(* RiskPolicy, resolve the caller if there is one, and say whether the swap *)
(* would pass.  Nothing is signed here; the preview is worth what it agrees *)
(* with the pipeline that does (Orchestrate).  A lookup is one step: the    *)
(* walk to the parent name and the cache are in Orchestrate.                *)
(***************************************************************************)
EXTENDS Integers

CONSTANTS SwapForms,               \* [recipient, caller, amount, accepted]: see SwapFormType
          Policies, NoPolicy,  \* [minTier, maxSize, anyToken]
          MaxSubmits, MaxNameEdits \* bounds

SwapFormType == [recipient : {"", "ab", "alice"},     \* empty, too short, a name
             caller    : BOOLEAN,                 \* is the caller's name given?
             amount    : -1..3,                   \* in base units; -1: no positive number
             accepted  : BOOLEAN]                 \* is the token on the recipient's list?
Tiers == 0..2                   \* 0 is none
GateMin == 1                    \* defaultSwapPolicy

PreviewInputsTyped ==
  /\ SwapForms \subseteq SwapFormType
  /\ Policies \subseteq [minTier : Nat, maxSize : Nat, anyToken : BOOLEAN] /\ NoPolicy \notin Policies
  /\ MaxSubmits \in Nat /\ MaxNameEdits \in Nat
ASSUME PreviewAssumption == PreviewInputsTyped

VARIABLES form, requests,   \* the fields, and the requests under way
          loading, preview, error,
          submits, world, nameEdits
previewVars == <<form, requests, loading, preview, error, submits, world, nameEdits>>

\* A name: its address record, its agent-ids record, the tier the layers give to an
\* agent whose identity they can verify, and whether it has a manifest whose lineage holds.
NameRecords == [addr : BOOLEAN, ids : BOOLEAN, tier : Tiers \ {0}, lineage : BOOLEAN]
Profile == [addr : BOOLEAN, tier : Tiers, lineage : BOOLEAN]
Unread == [addr |-> FALSE, tier |-> -1, lineage |-> FALSE]
NoPreview == [id |-> 0, form |-> CHOOSE f \in SwapForms : TRUE, swapper |-> Unread,
              profile |-> Unread, policy |-> NoPolicy, halt |-> "none"]

PreviewInit == /\ form \in SwapForms /\ requests = {} /\ loading = FALSE
        /\ preview = NoPreview /\ error = FALSE /\ submits = 0 /\ nameEdits = 0
        /\ world \in [recipient : NameRecords, swapper : {[addr |-> TRUE, ids |-> TRUE, tier |-> 1, lineage |-> TRUE]},
                      policy : Policies \cup {NoPolicy}]

-----------------------------------------------------------------------------
\* The page.

EditForm == \E f \in SwapForms : /\ f # form /\ form' = f
                             /\ UNCHANGED <<requests, loading, preview, error, submits, world, nameEdits>>

\* The button is disabled without a recipient and while loading.
CanSubmit == form.recipient # "" /\ ~loading

\* handleSubmit up to the fetch: an amount that is no positive number is refused here.
Submit ==
  /\ CanSubmit /\ submits < MaxSubmits /\ submits' = submits + 1 /\ preview' = NoPreview
  /\ IF form.amount = -1
     THEN error' = TRUE /\ loading' = FALSE /\ UNCHANGED requests
     ELSE /\ error' = FALSE /\ loading' = TRUE
          /\ requests' = requests \cup {[pc |-> "schema", id |-> submits', form |-> form,
                                         profile |-> Unread, policy |-> NoPolicy, swapper |-> Unread]}
  /\ UNCHANGED <<form, world, nameEdits>>

\* The rest of handleSubmit, whatever came back.
Answered(request, p, e) == /\ requests' = requests \ {request} /\ loading' = FALSE
                           /\ preview' = p /\ error' = e
                           /\ UNCHANGED <<form, submits, world, nameEdits>>

Refuse(request) == Answered(request, preview, TRUE)

-----------------------------------------------------------------------------
\* The route, one action per await.

Step(request, next) == /\ requests' = (requests \ {request}) \cup {next}
                       /\ UNCHANGED <<form, loading, preview, error, submits, world, nameEdits>>

\* The resolver verifies an identity only with the ids it is given.
TierOf(name, ids) == IF ids /\ name.ids THEN name.tier ELSE 0

\* resolveWithAutoAgentIds: a read of the ids that fails is swallowed, and a layer may
\* fail without the resolver saying so.
Lookups(name) == [addr : {name.addr, FALSE}, tier : {TierOf(name, TRUE), TierOf(name, FALSE)},
                  lineage : {name.lineage}]

\* gate() under defaultSwapPolicy, which requires the lineage of a manifest to hold.
GateAllows(p) == p.tier >= GateMin /\ p.lineage

Schema == \E request \in requests :
  /\ request.pc = "schema"
  /\ IF request.form.recipient = "ab" THEN Refuse(request)
     ELSE Step(request, [request EXCEPT !.pc = "recipient"])

ResolveRecipient == \E request \in requests :
  /\ request.pc = "recipient"
  /\ \/ \E p \in Lookups(world.recipient) : Step(request, [request EXCEPT !.pc = "policy", !.profile = p])
     \/ Refuse(request)

ReadPolicy == \E request \in requests :
  /\ request.pc = "policy"
  /\ \/ \E p \in {world.policy, NoPolicy} : Step(request, [request EXCEPT !.pc = "swapper", !.policy = p])
     \/ Refuse(request)

\* Only with a caller's name; a failure is swallowed.
ResolveSwapper == \E request \in requests :
  /\ request.pc = "swapper"
  /\ \E p \in {Unread} \cup IF request.form.caller THEN Lookups(world.swapper) ELSE {} :
       Step(request, [request EXCEPT !.pc = "verdict", !.swapper = p])

\* Mutant: the address is looked at only when there is no policy to check.
HaltedAtPolicyFirst(r) ==
  CASE ~GateAllows(r.profile) -> "gate-deny"
    [] GateAllows(r.profile) /\ r.policy = NoPolicy /\ ~r.profile.addr -> "recipient-unresolved"
    [] GateAllows(r.profile) /\ r.policy # NoPolicy
         /\ \/ ~(r.policy.anyToken \/ r.form.accepted)
            \/ r.swapper # Unread /\ r.swapper.tier < r.policy.minTier
            \/ r.form.amount > r.policy.maxSize -> "risk-policy-deny"
    [] OTHER -> "none"

\* The first that holds, in this order.
HaltedAt(r) ==
  CASE ~GateAllows(r.profile) -> "gate-deny"
    [] GateAllows(r.profile) /\ ~r.profile.addr -> "recipient-unresolved"
    [] GateAllows(r.profile) /\ r.profile.addr /\ r.policy # NoPolicy
         /\ \/ ~(r.policy.anyToken \/ r.form.accepted)
            \/ r.swapper # Unread /\ r.swapper.tier < r.policy.minTier
            \/ r.form.amount > r.policy.maxSize -> "risk-policy-deny"
    [] OTHER -> "none"

Verdict == \E request \in requests :
  /\ request.pc = "verdict"
  /\ Answered(request, [id |-> request.id, form |-> request.form, swapper |-> request.swapper,
                        profile |-> request.profile, policy |-> request.policy,
                        halt |-> HaltedAt(request)], error)

\* The fetch rejects, or the answer is no JSON.
PreviewFails == \E request \in requests : Refuse(request)

EditNames == /\ nameEdits < MaxNameEdits /\ nameEdits' = nameEdits + 1
             /\ \E tier \in Tiers \ {0}, policy \in Policies \cup {NoPolicy} :
                  world' = [world EXCEPT !.swapper.tier = tier, !.policy = policy]
             /\ UNCHANGED <<form, requests, loading, preview, error, submits>>

PreviewNext == \/ EditForm \/ Submit \/ Schema \/ ResolveRecipient \/ ReadPolicy \/ ResolveSwapper
        \/ Verdict \/ PreviewFails \/ EditNames

\* Every await of the route ends.
PreviewSpec == PreviewInit /\ [][PreviewNext]_previewVars /\ WF_previewVars(Schema) /\ WF_previewVars(ResolveRecipient)
             /\ WF_previewVars(ReadPolicy) /\ WF_previewVars(ResolveSwapper) /\ WF_previewVars(Verdict)
-----------------------------------------------------------------------------
\* The halt of a run of the pipeline past its gate, given what it has read
\* (orchestrate: gate, address, riskPolicyPreflightStatic, riskPolicyPreflightSize).
Denied(policy, swapper, f) ==
  /\ policy # NoPolicy
  /\ (~policy.anyToken /\ ~f.accepted) \/ swapper.tier \in 0..(policy.minTier - 1) \/ f.amount > policy.maxSize

PipelineHalt(profile, policy, swapper, f) ==
  IF ~GateAllows(profile) THEN "gate-deny" ELSE IF ~profile.addr THEN "recipient-unresolved"
  ELSE IF Denied(policy, swapper, f) THEN "risk-policy-deny" ELSE "none"

PreviewTypeOK ==
  /\ form \in SwapForms /\ submits \in 0..MaxSubmits
  /\ loading \in BOOLEAN /\ error \in BOOLEAN
  /\ preview.profile \in Profile \cup {Unread} /\ preview.swapper \in Profile \cup {Unread}
  /\ preview.halt \in {"none", "gate-deny", "recipient-unresolved", "risk-policy-deny"}
  /\ preview # NoPreview => ~error

(* What is shown answers the last submission, never an earlier one that     *)
(* comes late (page.tsx:38-80, ui/button.tsx:39).                           *)
AnswersTheLast == preview # NoPreview => preview.id = submits

(* Given the same reads, the preview halts where the pipeline would, and    *)
(* for the same reason: "Mirrors the orchestrate path" (route.ts:171-206).  *)
MirrorsThePipeline ==
  preview # NoPreview =>
    preview.halt = PipelineHalt(preview.profile, preview.policy, preview.swapper, preview.form)

(* The page never stays in its loading state (page.tsx:77-79).              *)
LoadingEnds == loading ~> ~loading
=============================================================================
