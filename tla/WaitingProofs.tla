--------------------------- MODULE WaitingProofs ---------------------------
(***************************************************************************)
(* What is proved of the parts that wait for timers, files and answers: the *)
(* policy editor, the file's watcher, the swap preview, the token picker    *)
(* and the daemon's poll of its peers with the script that sets their       *)
(* endpoints.  Whatever the timers and answers do, and for every set of     *)
(* forms, policies, peers and lists.                                        *)
(***************************************************************************)
EXTENDS Waiting, FiniteSetTheorems, SequenceTheorems, TLAPS

-----------------------------------------------------------------------------
\* The policy editor.

\* A draft is what the route makes of a form.
DraftsOfForms == {NoDraft} \cup {DraftOf(f) : f \in DraftForms}

\* What is shown, and hence what is copied, is such a draft, of no version to come.
EditorShows ==
  /\ shown \in [kind : {"nothing", "draft", "error"}, version : Nat, draft : DraftsOfForms]
  /\ clip \in DraftsOfForms

EditorInv == EditorTypeOK /\ EditorShows /\ ValidIsRunnable

LEMMA DraftSays ==
  ASSUME EditorInputsTyped, NEW d \in DraftsOfForms, d.valid \/ d.needsIpfs
  PROVE  /\ d.of \in DraftForms /\ d.of.bytes \in Nat
         /\ d.valid => d.of.tokens = "known"
         /\ d.needsIpfs <=> d.of.bytes > SoftCap
<1>1. PICK f \in DraftForms : d = DraftOf(f)
  BY DEF DraftsOfForms, NoDraft
<1>2. f.bytes \in Nat BY DEF EditorInputsTyped, DraftFormType
<1>3. d.of = f /\ d.valid = Valid(f) /\ d.needsIpfs = NeedsIpfs(f)
  BY <1>1 DEF DraftOf
<1> QED BY <1>2, <1>3 DEF Valid, NeedsIpfs

LEMMA EditorStarts == ASSUME EditorInputsTyped, EditorInit PROVE EditorInv
<1>1. EditorTypeOK
  BY DEF EditorInit, EditorTypeOK, EditorInputsTyped, Nothing, NoDraft, NotRun
<1>2. EditorShows
  BY DEF EditorInit, EditorShows, Nothing, DraftsOfForms
<1>3. ValidIsRunnable
  BY DEF EditorInit, ValidIsRunnable, NoDraft, NotRun
<1> QED BY <1>1, <1>2, <1>3 DEF EditorInv

LEMMA EditorShowKeeps ==
  ASSUME EditorInputsTyped, EditorInv, NEW request \in drafts, NEW kind \in {"draft", "error"},
         NEW draft \in DraftsOfForms, Show(request, kind, draft)
  PROVE  EditorInv' /\ shown'.version >= shown.version
<1>1. request.version \in 1..version /\ version \in Nat
  BY DEF EditorInv, EditorTypeOK
<1>2. /\ shown' \in [kind : {"nothing", "draft", "error"}, version : Nat, draft : DraftsOfForms]
      /\ shown'.version <= version /\ shown'.version >= shown.version
  <2>1. CASE Current(request)
    <3>1. shown' = [kind |-> kind, version |-> request.version, draft |-> draft]
      BY <2>1 DEF Show
    <3> QED BY <1>1, <2>1, <3>1 DEF Current, EditorInv, EditorTypeOK, EditorShows
  <2>2. CASE ~Current(request)
    <3>1. shown' = shown BY <2>2 DEF Show
    <3> QED BY <1>1, <3>1 DEF EditorInv, EditorTypeOK, EditorShows
  <2> QED BY <2>1, <2>2
<1>3. EditorTypeOK' BY <1>2 DEF Show, EditorInv, EditorTypeOK, EditorShows
<1>4. EditorShows' BY <1>2 DEF Show, EditorInv, EditorShows
<1>5. ValidIsRunnable' BY DEF Show, EditorInv, ValidIsRunnable
<1> QED BY <1>2, <1>3, <1>4, <1>5 DEF EditorInv

LEMMA EditorRunKeeps == ASSUME EditorInputsTyped, EditorInv, RunCommand PROVE EditorInv'
<1> DEFINE c == CommandOf(clip)
<1>1. PICK env \in [primaryName : BOOLEAN, key : BOOLEAN, jwt : BOOLEAN] :
        run' = [outcome |-> Outcome(c.form, c.storage, env),
                complete |-> env.key /\ (clip.of.name # "" \/ env.primaryName)
                             /\ (env.jwt \/ clip.of.bytes < SoftCap)]
  BY DEF RunCommand
<1>2. UNCHANGED <<fields, version, debounce, drafts, shown, clip>>
  BY DEF RunCommand
<1>3. c.form = clip.of /\ c.storage = IF clip.needsIpfs THEN "ipfs" ELSE "auto"
  BY DEF CommandOf
<1>4. Storage(c.form, c.storage) \in {"ipfs", "inline"} /\ (clip.needsIpfs => Storage(c.form, c.storage) = "ipfs")
  BY <1>3 DEF Storage
<1>5. run'.outcome \in {"none", "threw", "inline", "ipfs"} /\ (clip.needsIpfs => run'.outcome # "inline")
  BY <1>1, <1>4 DEF Outcome
<1>6. EditorTypeOK' BY <1>2, <1>5 DEF EditorInv, EditorTypeOK
<1>7. EditorShows' BY <1>2 DEF EditorInv, EditorShows
<1>8. ValidIsRunnable'
  <2> SUFFICES ASSUME clip.valid, run'.complete PROVE run'.outcome # "threw"
    BY <1>2 DEF ValidIsRunnable
  <2>1. /\ clip.of.tokens = "known" /\ clip.of.bytes \in Nat
        /\ clip.needsIpfs <=> clip.of.bytes > SoftCap
    BY DraftSays DEF EditorInv, EditorShows
  <2>2. env.key /\ (clip.of.name # "" \/ env.primaryName) /\ (env.jwt \/ clip.of.bytes < SoftCap)
    BY <1>1
  <2>3. ASSUME clip.of.bytes < SoftCap PROVE Storage(c.form, c.storage) = "inline"
    <3>1. ~clip.needsIpfs BY <2>1, <2>3 DEF SoftCap
    <3>2. c.storage = "auto" /\ c.form.bytes < SoftCap BY <1>3, <2>3, <3>1
    <3>3. ~(c.form.bytes >= SoftCap) BY <1>3, <2>1, <3>2 DEF SoftCap
    <3> QED BY <3>2, <3>3 DEF Storage
  <2> QED BY <1>1, <1>3, <1>4, <2>1, <2>2, <2>3 DEF Outcome
<1> QED BY <1>6, <1>7, <1>8 DEF EditorInv

LEMMA EditorStep ==
  ASSUME EditorInputsTyped, EditorInv, [EditorNext]_editorVars
  PROVE  EditorInv' /\ (shown' = shown \/ shown'.version >= shown.version)
<1> USE DEF EditorInv
<1>1. ASSUME NEW f \in DraftForms, EditField(f) PROVE EditorInv' /\ shown' = shown
  <2>1. version' = version + 1 /\ version' \in 1..(MaxDraftEdits + 1) /\ version \in Nat
    BY <1>1 DEF EditField, EditorTypeOK, EditorInputsTyped
  <2>2. drafts' \subseteq [version : 1..version', form : DraftForms]
    BY <1>1, <2>1 DEF EditField, EditorTypeOK
  <2>3. shown'.version <= version'
    BY <1>1, <2>1 DEF EditField, EditorTypeOK, EditorShows
  <2>4. EditorTypeOK' BY <1>1, <2>1, <2>2, <2>3 DEF EditField, EditorTypeOK
  <2> QED BY <1>1, <2>4 DEF EditField, EditorShows, ValidIsRunnable
<1>2. ASSUME DebounceFires PROVE EditorInv' /\ shown' = shown
  <2>1. drafts' \subseteq [version : 1..version, form : DraftForms]
    BY <1>2 DEF DebounceFires, EditorTypeOK
  <2>2. EditorTypeOK' BY <1>2, <2>1 DEF DebounceFires, EditorTypeOK
  <2> QED BY <1>2, <2>2 DEF DebounceFires, EditorShows, ValidIsRunnable
<1>3. ASSUME DraftAnswered PROVE EditorInv' /\ shown'.version >= shown.version
  <2>1. PICK request \in drafts :
          \/ Show(request, "draft", DraftOf(request.form)) \/ Show(request, "error", NoDraft)
    BY <1>3 DEF DraftAnswered
  <2>2. DraftOf(request.form) \in DraftsOfForms /\ NoDraft \in DraftsOfForms
    BY <2>1 DEF EditorTypeOK, DraftsOfForms
  <2> QED BY <2>1, <2>2, EditorShowKeeps
<1>4. ASSUME DraftFails PROVE EditorInv' /\ shown'.version >= shown.version
  <2>1. PICK request \in drafts : Show(request, "error", NoDraft)
    BY <1>4 DEF DraftFails
  <2>2. NoDraft \in DraftsOfForms BY DEF DraftsOfForms
  <2> QED BY <2>1, <2>2, EditorShowKeeps
<1>5. ASSUME Copy PROVE EditorInv' /\ shown' = shown
  <2>1. EditorTypeOK' BY <1>5 DEF Copy, EditorTypeOK, NotRun
  <2>2. EditorShows' BY <1>5 DEF Copy, EditorShows
  <2>3. ValidIsRunnable' BY <1>5 DEF Copy, ValidIsRunnable, NotRun
  <2> QED BY <1>5, <2>1, <2>2, <2>3 DEF Copy
<1>6. ASSUME RunCommand PROVE EditorInv' /\ shown' = shown
  BY <1>6, EditorRunKeeps DEF RunCommand
<1>7. ASSUME UNCHANGED editorVars PROVE EditorInv' /\ shown' = shown
  BY <1>7 DEF editorVars, EditorTypeOK, EditorShows, ValidIsRunnable
<1> QED BY <1>1, <1>2, <1>3, <1>4, <1>5, <1>6, <1>7 DEF EditorNext

(* A form in the editor, its drafts and the command copied from one keep    *)
(* their types, and a draft too long to be inline is never published inline *)
(* (policy/page.tsx:27-84, api/policy/draft/route.ts:133-166).             *)
THEOREM EditorTyped == EditorSpec => []EditorTypeOK
<1>1. EditorInit => EditorInv BY EditorStarts, EditorAssumption
<1>2. EditorInv /\ [EditorNext]_editorVars => EditorInv' BY EditorStep, EditorAssumption
<1>3. EditorInv => EditorTypeOK BY DEF EditorInv
<1> QED BY <1>1, <1>2, <1>3, PTL DEF EditorSpec

(* The command copied from a valid draft publishes when the secrets it      *)
(* needs are there, whatever the form and whenever the answer came          *)
(* (api/policy/draft/route.ts:81-82, cli/src/commands/policy.ts:30-77).    *)
THEOREM ValidDraftsRun == EditorSpec => []ValidIsRunnable
<1>1. EditorInit => EditorInv BY EditorStarts, EditorAssumption
<1>2. EditorInv /\ [EditorNext]_editorVars => EditorInv' BY EditorStep, EditorAssumption
<1>3. EditorInv => ValidIsRunnable BY DEF EditorInv
<1> QED BY <1>1, <1>2, <1>3, PTL DEF EditorSpec

LEMMA EditorForward ==
  EditorInv /\ [EditorNext]_editorVars => [shown'.version >= shown.version]_editorVars
<1> SUFFICES ASSUME EditorInv, [EditorNext]_editorVars PROVE shown'.version >= shown.version
  OBVIOUS
<1>1. shown' = shown \/ shown'.version >= shown.version BY EditorStep, EditorAssumption
<1>2. shown.version \in Nat BY DEF EditorInv, EditorShows
<1> QED BY <1>1, <1>2

(* Answers may come in any order and the page never goes back to an older   *)
(* version of the form than it has shown (policy/page.tsx:46-84).           *)
THEOREM EditorGoesForward == EditorSpec => NeverBackwards
<1>1. EditorInit => EditorInv BY EditorStarts, EditorAssumption
<1>2. EditorInv /\ [EditorNext]_editorVars => EditorInv' BY EditorStep, EditorAssumption
<1> QED BY <1>1, <1>2, EditorForward, PTL DEF EditorSpec, NeverBackwards

-----------------------------------------------------------------------------
\* The watcher of the policy file.

WatcherInv == WatcherTypeOK /\ saves \in 0..MaxSaves /\ closed \in BOOLEAN

LEMMA OneMore == ASSUME NEW max \in Nat, NEW k \in 0..max, k < max PROVE k + 1 \in 0..max
OBVIOUS

LEMMA WatcherStarts == ASSUME MaxSaves \in Nat, WatcherInit PROVE WatcherInv
<1>1. file = [version |-> 0, valid |-> TRUE] /\ delivered = [file EXCEPT !.valid = TRUE]
  BY DEF WatcherInit
<1>0. 0 \in 0..MaxSaves OBVIOUS
<1>a. delivered = [version |-> 0, valid |-> TRUE] BY <1>1
<1>2. file \in LoadResult /\ delivered \in LoadResult BY <1>0, <1>1, <1>a DEF LoadResult
<1>3. WatcherTypeOK BY <1>2 DEF WatcherInit, WatcherTypeOK
<1>4. saves = 0 /\ closed = FALSE BY DEF WatcherInit
<1>5. saves \in 0..MaxSaves BY <1>0, <1>4
<1> QED BY <1>3, <1>4, <1>5 DEF WatcherInv

LEMMA WatcherStep ==
  ASSUME MaxSaves \in Nat, WatcherInv, [WatcherNext]_watcherVars
  PROVE  WatcherInv' /\ (closed => delivered' = delivered)
<1> USE DEF WatcherInv, WatcherTypeOK
<1>1. ASSUME Save PROVE WatcherInv' /\ delivered' = delivered
  <2>1. PICK valid \in BOOLEAN, name \in {"the file", "unknown"} :
          /\ saves < MaxSaves /\ saves' = saves + 1
          /\ file' = [version |-> saves', valid |-> valid]
          /\ events' = events \cup {name}
          /\ UNCHANGED <<setting, timer, loads, closed, delivered>>
    BY <1>1 DEF Save
  <2>2. saves' \in 0..MaxSaves
    <3>1. saves \in 0..MaxSaves /\ saves < MaxSaves /\ saves' = saves + 1 BY <2>1
    <3> QED BY <3>1, OneMore
  <2>3. file' \in LoadResult BY <2>1, <2>2 DEF LoadResult
  <2>4. events' \subseteq EventNames BY <2>1 DEF EventNames
  <2> QED BY <2>1, <2>2, <2>3, <2>4
<1>2. ASSUME OtherFile PROVE WatcherInv' /\ delivered' = delivered
  BY <1>2 DEF OtherFile, EventNames
<1>3. ASSUME Event PROVE WatcherInv' /\ delivered' = delivered
  <2>1. PICK name \in events :
          /\ events' = events \ {name}
          /\ timer' = (timer \/ Concerns(name))
          /\ UNCHANGED <<setting, file, loads, closed, delivered, saves>>
    BY <1>3 DEF Event
  <2>2. timer' => ~closed' BY <2>1 DEF Concerns
  <2> QED BY <2>1, <2>2
<1>4. ASSUME Fire PROVE WatcherInv' /\ delivered' = delivered
  BY <1>4 DEF Fire
<1>5. ASSUME Read PROVE WatcherInv' /\ delivered' = delivered
  BY <1>5 DEF Read
<1>6. ASSUME Deliver PROVE WatcherInv' /\ (closed => delivered' = delivered)
  <2>1. PICK load \in loads :
          /\ load.got # NotRead
          /\ loads' = loads \ {load}
          /\ \/ delivered' = IF Calls(load) THEN load.got ELSE delivered
             \/ setting.throws /\ Calls(load) /\ delivered' = [load.got EXCEPT !.valid = FALSE]
    BY <1>6 DEF Deliver
  <2>2. load.got \in LoadResult BY <2>1
  <2>3. [load.got EXCEPT !.valid = FALSE] \in LoadResult BY <2>2 DEF LoadResult
  <2>4. delivered' \in LoadResult /\ (closed => delivered' = delivered)
    BY <2>1, <2>2, <2>3 DEF Calls
  <2> QED BY <1>6, <2>1, <2>4 DEF Deliver
<1>7. ASSUME Close PROVE WatcherInv' /\ delivered' = delivered
  BY <1>7 DEF Close
<1>8. ASSUME UNCHANGED watcherVars PROVE WatcherInv' /\ delivered' = delivered
  BY <1>8 DEF watcherVars
<1> HIDE DEF WatcherInv, WatcherTypeOK
<1> QED BY <1>1, <1>2, <1>3, <1>4, <1>5, <1>6, <1>7, <1>8 DEF WatcherNext

(* The watcher keeps its types, and no timer outlives close()               *)
(* (core/src/operating-policy.ts:269-327).                                  *)
THEOREM WatcherTyped == WatcherSpec => []WatcherTypeOK
<1>1. WatcherInit => WatcherInv BY WatcherStarts, WatcherAssumption
<1>2. WatcherInv /\ [WatcherNext]_watcherVars => WatcherInv' BY WatcherStep, WatcherAssumption
<1>3. WatcherInv => WatcherTypeOK BY DEF WatcherInv
<1> QED BY <1>1, <1>2, <1>3, PTL DEF WatcherSpec

LEMMA WatcherQuiet ==
  WatcherInv /\ [WatcherNext]_watcherVars => [closed => delivered' = delivered]_watcherVars
BY WatcherStep, WatcherAssumption

(* After close() the callback is never called again, whatever was being     *)
(* loaded and however many events are under way                             *)
(* (core/src/operating-policy.ts:285-327).                                  *)
THEOREM ClosedIsQuiet == WatcherSpec => QuietAfterClose
<1>1. WatcherInit => WatcherInv BY WatcherStarts, WatcherAssumption
<1>2. WatcherInv /\ [WatcherNext]_watcherVars => WatcherInv' BY WatcherStep, WatcherAssumption
<1> QED BY <1>1, <1>2, WatcherQuiet, PTL DEF WatcherSpec, QuietAfterClose

-----------------------------------------------------------------------------
\* The swap preview.

\* What a lookup left, and a request of the route.
LookedUp == Profile \cup {Unread}
AnyPolicy == Policies \cup {NoPolicy}
GateRequest == [pc : {"schema", "recipient", "policy", "swapper", "verdict"}, id : Nat,
                form : SwapForms, profile : LookedUp, policy : AnyPolicy, swapper : LookedUp]
GateWorld == [recipient : NameRecords, swapper : NameRecords, policy : AnyPolicy]

\* At most one request is under way, for the last submission, and nothing is shown
\* meanwhile.
OneAtATime ==
  /\ loading = (requests # {})
  /\ \A r \in requests : r.id = submits /\ \A s \in requests : s = r
  /\ loading => preview = NoPreview /\ ~error

PreviewInv ==
  /\ form \in SwapForms /\ submits \in 0..MaxSubmits /\ error \in BOOLEAN
  /\ requests \subseteq GateRequest /\ world \in GateWorld
  /\ OneAtATime
  /\ preview # NoPreview =>
       /\ preview.id = submits /\ ~error
       /\ \E r \in GateRequest :
            preview = [id |-> r.id, form |-> r.form, swapper |-> r.swapper,
                       profile |-> r.profile, policy |-> r.policy, halt |-> HaltedAt(r)]

LEMMA LookupsTyped == ASSUME NEW name \in NameRecords PROVE Lookups(name) \subseteq Profile
<1>1. name.addr \in BOOLEAN /\ name.tier \in Tiers /\ name.lineage \in BOOLEAN /\ 0 \in Tiers
  BY DEF NameRecords, Tiers
<1>2. TierOf(name, TRUE) \in Tiers /\ TierOf(name, FALSE) \in Tiers
  BY <1>1 DEF TierOf
<1>3. {name.addr, FALSE} \subseteq BOOLEAN /\ {TierOf(name, TRUE), TierOf(name, FALSE)} \subseteq Tiers
      /\ {name.lineage} \subseteq BOOLEAN
  BY <1>1, <1>2
<1> QED BY <1>3 DEF Lookups, Profile

\* The route's verdict is the pipeline's, whatever was read.
LEMMA HaltsAgree ==
  ASSUME PreviewInputsTyped, NEW r \in GateRequest
  PROVE  /\ HaltedAt(r) = PipelineHalt(r.profile, r.policy, r.swapper, r.form)
         /\ HaltedAt(r) \in {"none", "gate-deny", "recipient-unresolved", "risk-policy-deny"}
<1> DEFINE denied == \/ ~(r.policy.anyToken \/ r.form.accepted)
                     \/ r.swapper # Unread /\ r.swapper.tier < r.policy.minTier
                     \/ r.form.amount > r.policy.maxSize
<1>1. r.policy # NoPolicy => (denied <=> Denied(r.policy, r.swapper, r.form))
  <2> SUFFICES ASSUME r.policy # NoPolicy PROVE denied <=> Denied(r.policy, r.swapper, r.form)
    OBVIOUS
  <2>1. r.policy.minTier \in Nat /\ r.swapper \in LookedUp
    BY DEF PreviewInputsTyped, GateRequest, AnyPolicy
  <2>2. r.swapper # Unread => r.swapper.tier \in 0..2 BY <2>1 DEF LookedUp, Profile, Tiers
  <2>3. r.swapper = Unread => r.swapper.tier = -1 BY DEF Unread
  <2>4. (r.swapper # Unread /\ r.swapper.tier < r.policy.minTier) <=> r.swapper.tier \in 0..(r.policy.minTier - 1)
    BY <2>1, <2>2, <2>3
  <2> QED BY <2>4 DEF Denied
<1>2. r.policy = NoPolicy => ~Denied(r.policy, r.swapper, r.form) BY DEF Denied
<1> HIDE DEF denied
<1>3. HaltedAt(r) = IF ~GateAllows(r.profile) THEN "gate-deny"
                    ELSE IF ~r.profile.addr THEN "recipient-unresolved"
                    ELSE IF r.policy # NoPolicy /\ denied THEN "risk-policy-deny" ELSE "none"
  BY DEF HaltedAt, denied
<1> QED BY <1>1, <1>2, <1>3 DEF PipelineHalt

LEMMA PreviewSafe ==
  ASSUME PreviewInputsTyped, PreviewInv
  PROVE  PreviewTypeOK /\ AnswersTheLast /\ MirrorsThePipeline
<1>1. CASE preview = NoPreview
  <2>1. preview.profile = Unread /\ preview.swapper = Unread /\ preview.halt = "none"
    BY <1>1 DEF NoPreview
  <2> QED BY <1>1, <2>1 DEF PreviewInv, OneAtATime, PreviewTypeOK, AnswersTheLast, MirrorsThePipeline
<1>2. CASE preview # NoPreview
  <2>1. PICK r \in GateRequest :
          preview = [id |-> r.id, form |-> r.form, swapper |-> r.swapper,
                     profile |-> r.profile, policy |-> r.policy, halt |-> HaltedAt(r)]
    BY <1>2 DEF PreviewInv
  <2>2. preview.halt = HaltedAt(r) /\ preview.form = r.form /\ preview.swapper = r.swapper
        /\ preview.profile = r.profile /\ preview.policy = r.policy
    BY <2>1
  <2>3. MirrorsThePipeline BY <2>2, HaltsAgree DEF MirrorsThePipeline
  <2>4. preview.profile \in LookedUp /\ preview.swapper \in LookedUp BY <2>2 DEF GateRequest
  <2>5. preview.halt \in {"none", "gate-deny", "recipient-unresolved", "risk-policy-deny"}
    BY <2>2, HaltsAgree
  <2>6. PreviewTypeOK BY <2>4, <2>5 DEF PreviewTypeOK, PreviewInv, OneAtATime, LookedUp
  <2> QED BY <2>3, <2>6 DEF PreviewInv, AnswersTheLast
<1> QED BY <1>1, <1>2

LEMMA PreviewStarts == ASSUME PreviewInputsTyped, PreviewInit PROVE PreviewInv
<1>1. [addr |-> TRUE, ids |-> TRUE, tier |-> 1, lineage |-> TRUE] \in NameRecords
  BY DEF NameRecords, Tiers
<1>2. world \in GateWorld BY <1>1 DEF PreviewInit, GateWorld, AnyPolicy
<1>3. OneAtATime BY DEF PreviewInit, OneAtATime
<1>4. submits \in 0..MaxSubmits BY DEF PreviewInit, PreviewInputsTyped
<1> QED BY <1>2, <1>3, <1>4 DEF PreviewInit, PreviewInv

\* A request that goes on is still the only one.
LEMMA PreviewStepKeeps ==
  ASSUME PreviewInputsTyped, PreviewInv, NEW request \in requests, NEW next \in GateRequest,
         next.id = request.id, Step(request, next)
  PROVE  PreviewInv'
<1>1. requests = {request} /\ request.id = submits BY DEF PreviewInv, OneAtATime
<1>2. requests' = {next} BY <1>1 DEF Step
<1>3. UNCHANGED <<form, loading, preview, error, submits, world, nameEdits>> BY DEF Step
<1>4. OneAtATime' BY <1>1, <1>2, <1>3 DEF PreviewInv, OneAtATime
<1>5. requests' \subseteq GateRequest BY <1>2
<1> QED BY <1>3, <1>4, <1>5 DEF PreviewInv

\* An answer leaves no request; what it shows is nothing, or the verdict on it.
LEMMA PreviewRefusalKeeps ==
  ASSUME PreviewInputsTyped, PreviewInv, NEW request \in requests, Refuse(request)
  PROVE  PreviewInv'
<1>1. requests = {request} /\ loading /\ preview = NoPreview BY DEF PreviewInv, OneAtATime
<1>2. requests' = {} /\ loading' = FALSE /\ preview' = NoPreview /\ error' = TRUE
      /\ UNCHANGED <<form, submits, world, nameEdits>>
  BY <1>1 DEF Refuse, Answered
<1> QED BY <1>2 DEF PreviewInv, OneAtATime, NoPreview

LEMMA PreviewVerdictKeeps ==
  ASSUME PreviewInputsTyped, PreviewInv, Verdict PROVE PreviewInv'
<1>1. PICK request \in requests :
        Answered(request, [id |-> request.id, form |-> request.form, swapper |-> request.swapper,
                           profile |-> request.profile, policy |-> request.policy,
                           halt |-> HaltedAt(request)], error)
  BY DEF Verdict
<1>2. requests = {request} /\ ~error /\ request.id = submits /\ request \in GateRequest
  BY DEF PreviewInv, OneAtATime
<1>3. requests' = {} /\ loading' = FALSE /\ ~error' /\ error' \in BOOLEAN
      /\ UNCHANGED <<form, submits, world, nameEdits>>
  BY <1>1, <1>2 DEF Answered, PreviewInv
<1>4. preview' = [id |-> request.id, form |-> request.form, swapper |-> request.swapper,
                  profile |-> request.profile, policy |-> request.policy, halt |-> HaltedAt(request)]
  BY <1>1 DEF Answered
<1>5. preview'.id = submits' BY <1>2, <1>3, <1>4
<1>6. OneAtATime' BY <1>3 DEF OneAtATime
<1>7. \E r \in GateRequest :
        preview' = [id |-> r.id, form |-> r.form, swapper |-> r.swapper,
                    profile |-> r.profile, policy |-> r.policy, halt |-> HaltedAt(r)]
  BY <1>2, <1>4
<1> QED BY <1>3, <1>5, <1>6, <1>7 DEF PreviewInv

LEMMA PreviewStepsKeep ==
  ASSUME PreviewInputsTyped, PreviewInv, [PreviewNext]_previewVars PROVE PreviewInv'
<1>1. ASSUME EditForm PROVE PreviewInv'
  BY <1>1 DEF EditForm, PreviewInv, OneAtATime
<1>2. ASSUME Submit PROVE PreviewInv'
  <2> DEFINE new == [pc |-> "schema", id |-> submits', form |-> form,
                     profile |-> Unread, policy |-> NoPolicy, swapper |-> Unread]
  <2>1. requests = {} BY <1>2 DEF Submit, CanSubmit, PreviewInv, OneAtATime
  <2>2. /\ submits' \in 0..MaxSubmits /\ preview' = NoPreview
        /\ UNCHANGED <<form, world, nameEdits>>
    BY <1>2 DEF Submit, PreviewInv, PreviewInputsTyped
  <2>3. new \in GateRequest BY <2>2 DEF GateRequest, LookedUp, AnyPolicy, PreviewInv
  <2>4. \/ error' = TRUE /\ loading' = FALSE /\ requests' = {}
        \/ error' = FALSE /\ loading' = TRUE /\ requests' = {new}
    BY <1>2, <2>1 DEF Submit
  <2>5. new.id = submits' OBVIOUS
  <2> HIDE DEF new
  <2>6. OneAtATime' BY <2>2, <2>4, <2>5 DEF OneAtATime, NoPreview
  <2> QED BY <2>2, <2>3, <2>4, <2>6 DEF PreviewInv, NoPreview
<1>3. ASSUME Schema PROVE PreviewInv'
  <2>1. PICK request \in requests :
          Refuse(request) \/ Step(request, [request EXCEPT !.pc = "recipient"])
    BY <1>3 DEF Schema
  <2>2. [request EXCEPT !.pc = "recipient"] \in GateRequest
        /\ [request EXCEPT !.pc = "recipient"].id = request.id
    BY <2>1 DEF PreviewInv, GateRequest
  <2> QED BY <2>1, <2>2, PreviewStepKeeps, PreviewRefusalKeeps
<1>4. ASSUME ResolveRecipient PROVE PreviewInv'
  <2>1. PICK request \in requests :
          \/ \E p \in Lookups(world.recipient) : Step(request, [request EXCEPT !.pc = "policy", !.profile = p])
          \/ Refuse(request)
    BY <1>4 DEF ResolveRecipient
  <2>2. CASE Refuse(request) BY <2>2, PreviewRefusalKeeps
  <2>3. CASE ~Refuse(request)
    <3>1. PICK p \in Lookups(world.recipient) : Step(request, [request EXCEPT !.pc = "policy", !.profile = p])
      BY <2>1, <2>3
    <3>2. p \in LookedUp BY LookupsTyped DEF PreviewInv, GateWorld, LookedUp
    <3>3. [request EXCEPT !.pc = "policy", !.profile = p] \in GateRequest
          /\ [request EXCEPT !.pc = "policy", !.profile = p].id = request.id
      BY <3>2 DEF PreviewInv, GateRequest
    <3> QED BY <3>1, <3>3, PreviewStepKeeps
  <2> QED BY <2>2, <2>3
<1>5. ASSUME ReadPolicy PROVE PreviewInv'
  <2>1. PICK request \in requests :
          \/ \E p \in {world.policy, NoPolicy} : Step(request, [request EXCEPT !.pc = "swapper", !.policy = p])
          \/ Refuse(request)
    BY <1>5 DEF ReadPolicy
  <2>2. CASE Refuse(request) BY <2>2, PreviewRefusalKeeps
  <2>3. CASE ~Refuse(request)
    <3>1. PICK p \in {world.policy, NoPolicy} : Step(request, [request EXCEPT !.pc = "swapper", !.policy = p])
      BY <2>1, <2>3
    <3>2. p \in AnyPolicy BY DEF PreviewInv, GateWorld, AnyPolicy
    <3>3. [request EXCEPT !.pc = "swapper", !.policy = p] \in GateRequest
          /\ [request EXCEPT !.pc = "swapper", !.policy = p].id = request.id
      BY <3>2 DEF PreviewInv, GateRequest
    <3> QED BY <3>1, <3>3, PreviewStepKeeps
  <2> QED BY <2>2, <2>3
<1>6. ASSUME ResolveSwapper PROVE PreviewInv'
  <2>1. PICK request \in requests :
          \E p \in {Unread} \cup IF request.form.caller THEN Lookups(world.swapper) ELSE {} :
            Step(request, [request EXCEPT !.pc = "verdict", !.swapper = p])
    BY <1>6 DEF ResolveSwapper
  <2>2. PICK p \in {Unread} \cup Lookups(world.swapper) :
          Step(request, [request EXCEPT !.pc = "verdict", !.swapper = p])
    BY <2>1
  <2>3. p \in LookedUp BY LookupsTyped DEF PreviewInv, GateWorld, LookedUp
  <2>4. [request EXCEPT !.pc = "verdict", !.swapper = p] \in GateRequest
        /\ [request EXCEPT !.pc = "verdict", !.swapper = p].id = request.id
    BY <2>3 DEF PreviewInv, GateRequest
  <2> QED BY <2>2, <2>4, PreviewStepKeeps
<1>7. ASSUME PreviewFails PROVE PreviewInv'
  BY <1>7, PreviewRefusalKeeps DEF PreviewFails
<1>8. ASSUME EditNames PROVE PreviewInv'
  <2>1. PICK tier \in Tiers \ {0}, policy \in AnyPolicy :
          world' = [world EXCEPT !.swapper.tier = tier, !.policy = policy]
    BY <1>8 DEF EditNames, AnyPolicy
  <2>2. [world.swapper EXCEPT !.tier = tier] \in NameRecords
    BY DEF PreviewInv, GateWorld, NameRecords
  <2>3. world' \in GateWorld BY <2>1, <2>2 DEF PreviewInv, GateWorld
  <2> QED BY <1>8, <2>3 DEF EditNames, PreviewInv, OneAtATime
<1>9. ASSUME UNCHANGED previewVars PROVE PreviewInv'
  BY <1>9 DEF previewVars, PreviewInv, OneAtATime
<1> QED BY <1>1, <1>2, <1>3, <1>4, <1>5, <1>6, <1>7, <1>8, <1>9, PreviewVerdictKeeps DEF PreviewNext

(* The page keeps its types, and never shows a preview and an error at once *)
(* (swap/page.tsx:22-80).                                                   *)
THEOREM PreviewTyped == PreviewSpec => []PreviewTypeOK
<1>1. PreviewInit => PreviewInv BY PreviewStarts, PreviewAssumption
<1>2. PreviewInv /\ [PreviewNext]_previewVars => PreviewInv' BY PreviewStepsKeep, PreviewAssumption
<1>3. PreviewInv => PreviewTypeOK BY PreviewSafe, PreviewAssumption
<1> QED BY <1>1, <1>2, <1>3, PTL DEF PreviewSpec

(* What is shown answers the last submission, never an earlier one that     *)
(* comes late (swap/page.tsx:38-80, ui/button.tsx:39).                      *)
THEOREM LastSubmissionAnswered == PreviewSpec => []AnswersTheLast
<1>1. PreviewInit => PreviewInv BY PreviewStarts, PreviewAssumption
<1>2. PreviewInv /\ [PreviewNext]_previewVars => PreviewInv' BY PreviewStepsKeep, PreviewAssumption
<1>3. PreviewInv => AnswersTheLast BY PreviewSafe, PreviewAssumption
<1> QED BY <1>1, <1>2, <1>3, PTL DEF PreviewSpec

(* The preview halts where the pipeline would on the same reads, for the    *)
(* same reason, for every policy, form and outcome of the lookups           *)
(* (api/gate/route.ts:171-206, core/src/orchestrate.ts:392-513).           *)
THEOREM PreviewMirrors == PreviewSpec => []MirrorsThePipeline
<1>1. PreviewInit => PreviewInv BY PreviewStarts, PreviewAssumption
<1>2. PreviewInv /\ [PreviewNext]_previewVars => PreviewInv' BY PreviewStepsKeep, PreviewAssumption
<1>3. PreviewInv => MirrorsThePipeline BY PreviewSafe, PreviewAssumption
<1> QED BY <1>1, <1>2, <1>3, PTL DEF PreviewSpec

-----------------------------------------------------------------------------
\* The token picker.

\* Entries that a sort can tell apart: no two have the same place.
IsEntries(S, n) ==
  /\ \A e \in S : e.rank \in Nat /\ e.name \in Nat /\ e.at \in 1..n
  /\ \A e, f \in S : e.at = f.at => e = f

LEMMA EntriesFinite ==
  ASSUME NEW n \in Nat, NEW S, IsEntries(S, n)
  PROVE  IsFiniteSet(S)
<1> DEFINE place == [e \in S |-> e.at]
<1>1. place \in Injection(S, 1..n) BY DEF IsEntries, Injection, IsInjective
<1>2. IsFiniteSet(1..n) BY FS_Interval
<1> HIDE DEF place
<1> QED BY <1>1, <1>2, FS_Injection

\* Before is a strict order of them, and a total one.
LEMMA BeforeOrders ==
  ASSUME NEW n \in Nat, NEW S, IsEntries(S, n), NEW e \in S, NEW f \in S
  PROVE  /\ ~ Before(e, e)
         /\ e # f => Before(e, f) \/ Before(f, e)
         /\ \A g \in S : Before(g, e) /\ Before(e, f) => Before(g, f)
BY DEF IsEntries, Before

LEMMA AheadIsBelow ==
  ASSUME NEW n \in Nat, NEW S, IsEntries(S, n), NEW e \in S
  PROVE  /\ IsFiniteSet({f \in S : Before(f, e)})
         /\ Ahead(S, e) \in 0..(Cardinality(S) - 1)
<1> DEFINE B == {f \in S : Before(f, e)}
<1>1. IsFiniteSet(S) BY EntriesFinite
<1>2. B \in SUBSET (S \ {e}) BY BeforeOrders
<1>3. Cardinality(S \ {e}) = Cardinality(S) - 1 /\ IsFiniteSet(S \ {e}) BY <1>1, FS_RemoveElement
<1>4. Cardinality(S) \in Nat BY <1>1, FS_CardinalityType
<1> HIDE DEF B
<1>5. IsFiniteSet(B) /\ Cardinality(B) <= Cardinality(S \ {e}) BY <1>2, <1>3, FS_Subset
<1>6. Cardinality(B) \in Nat BY <1>5, FS_CardinalityType
<1>7. Ahead(S, e) = Cardinality(B) BY DEF Ahead, B
<1> QED BY <1>3, <1>4, <1>5, <1>6, <1>7 DEF B

LEMMA AheadGrows ==
  ASSUME NEW n \in Nat, NEW S, IsEntries(S, n), NEW e \in S, NEW f \in S, Before(e, f)
  PROVE  Ahead(S, e) < Ahead(S, f)
<1> DEFINE B == {g \in S : Before(g, e)}
           C == {g \in S : Before(g, f)}
<1>1. IsFiniteSet(B) /\ IsFiniteSet(C) BY AheadIsBelow
<1>2. e \notin B /\ B \cup {e} \in SUBSET C BY BeforeOrders
<1>3. Ahead(S, e) = Cardinality(B) /\ Ahead(S, f) = Cardinality(C) BY DEF Ahead
<1> HIDE DEF B, C
<1>4. Cardinality(B \cup {e}) = Cardinality(B) + 1 BY <1>1, <1>2, FS_AddElement
<1>5. Cardinality(B \cup {e}) <= Cardinality(C) BY <1>1, <1>2, FS_Subset
<1>6. Cardinality(B) \in Nat /\ Cardinality(C) \in Nat BY <1>1, FS_CardinalityType
<1> QED BY <1>3, <1>4, <1>5, <1>6

\* Hence each place has an entry: there are as many as there are places.
LEMMA NthIs ==
  ASSUME NEW n \in Nat, NEW S, IsEntries(S, n), NEW k \in 1..Cardinality(S)
  PROVE  Nth(S, k) \in S /\ Ahead(S, Nth(S, k)) = k - 1
<1> DEFINE m == Cardinality(S)
           ahead == [e \in S |-> Ahead(S, e)]
<1>1. m \in Nat BY EntriesFinite, FS_CardinalityType
<1>2. \A e \in S : Ahead(S, e) \in 0..(m - 1) BY AheadIsBelow
<1>3. ASSUME NEW e \in S, NEW f \in S, e # f PROVE Ahead(S, e) # Ahead(S, f)
  <2>1. CASE Before(e, f)
    <3>1. Ahead(S, e) < Ahead(S, f) BY <2>1, AheadGrows
    <3> QED BY <1>1, <1>2, <3>1
  <2>2. CASE Before(f, e)
    <3>1. Ahead(S, f) < Ahead(S, e) BY <2>2, AheadGrows
    <3> QED BY <1>1, <1>2, <3>1
  <2> QED BY <1>3, <2>1, <2>2, BeforeOrders
<1>4. ahead \in Injection(S, 0..(m - 1)) BY <1>2, <1>3 DEF Injection, IsInjective
<1>5. IsFiniteSet(0..(m - 1)) /\ Cardinality(0..(m - 1)) = m
  <2>1. 0 \in Int /\ m - 1 \in Int BY <1>1
  <2>2. IsFiniteSet(0..(m - 1)) /\ Cardinality(0..(m - 1)) = IF 0 > m - 1 THEN 0 ELSE (m - 1) - 0 + 1
    BY <2>1, FS_Interval
  <2> QED BY <1>1, <2>2
<1>6. ahead \in Surjection(S, 0..(m - 1))
  <2> HIDE DEF ahead
  <2> QED BY <1>4, <1>5, FS_Injection
<1>7. k - 1 \in 0..(m - 1) BY <1>1
<1>8. \E e \in S : Ahead(S, e) = k - 1 BY <1>6, <1>7 DEF Surjection
<1> QED BY <1>8 DEF Nth

\* The list has the tokens of the entries, all of them, in the entries' order.
LEMMA SortedIs ==
  ASSUME NEW n \in Nat, NEW S, IsEntries(S, n)
  PROVE  /\ \A e \in S : \E k \in DOMAIN Sorted(S) : Sorted(S)[k] = e.token
         /\ \A k \in DOMAIN Sorted(S) : \E e \in S : Sorted(S)[k] = e.token
         /\ DOMAIN Sorted(S) \subseteq Nat
         /\ \A i, j \in DOMAIN Sorted(S) :
              i < j => \E e, f \in S : Sorted(S)[i] = e.token /\ Sorted(S)[j] = f.token /\ Before(e, f)
<1> DEFINE m == Cardinality(S)
<1>1. m \in Nat BY EntriesFinite, FS_CardinalityType
<1>2. DOMAIN Sorted(S) = 1..m /\ \A k \in 1..m : Sorted(S)[k] = Nth(S, k).token BY DEF Sorted
<1>3. \A k \in 1..m : Nth(S, k) \in S /\ Ahead(S, Nth(S, k)) = k - 1 BY NthIs
<1>4. ASSUME NEW e \in S PROVE \E k \in 1..m : Sorted(S)[k] = e.token
  <2> DEFINE k == Ahead(S, e) + 1
  <2>1. Ahead(S, e) \in 0..(m - 1) BY AheadIsBelow
  <2>2. k \in 1..m /\ k - 1 = Ahead(S, e) BY <1>1, <2>1
  <2> HIDE DEF k
  <2>3. Nth(S, k) \in S /\ Ahead(S, Nth(S, k)) = Ahead(S, e) BY <1>3, <2>2
  <2>4. ~ Before(e, Nth(S, k)) /\ ~ Before(Nth(S, k), e)
    <3>1. Before(e, Nth(S, k)) => Ahead(S, e) < Ahead(S, Nth(S, k)) BY <2>3, AheadGrows
    <3>2. Before(Nth(S, k), e) => Ahead(S, Nth(S, k)) < Ahead(S, e) BY <2>3, AheadGrows
    <3> QED BY <1>1, <2>1, <2>3, <3>1, <3>2
  <2>5. Nth(S, k) = e BY <2>3, <2>4, BeforeOrders
  <2> QED BY <1>2, <2>2, <2>5
<1>5. ASSUME NEW i \in 1..m, NEW j \in 1..m, i < j PROVE Before(Nth(S, i), Nth(S, j))
  <2>1. /\ Nth(S, i) \in S /\ Ahead(S, Nth(S, i)) = i - 1
        /\ Nth(S, j) \in S /\ Ahead(S, Nth(S, j)) = j - 1
    BY <1>3
  <2>2. Nth(S, i) # Nth(S, j) BY <1>1, <1>5, <2>1
  <2>3. Before(Nth(S, j), Nth(S, i)) => Ahead(S, Nth(S, j)) < Ahead(S, Nth(S, i)) BY <2>1, AheadGrows
  <2>4. ~ Before(Nth(S, j), Nth(S, i)) BY <1>1, <1>5, <2>1, <2>3
  <2> QED BY <2>1, <2>2, <2>4, BeforeOrders
<1> HIDE DEF m
<1> QED BY <1>1, <1>2, <1>3, <1>4, <1>5

\* What a list must be to be shown: of the chain, complete and in order.
Shows(list) ==
  /\ \A i \in DOMAIN list : list[i].chain = Chain
  /\ \A k \in DOMAIN Curated : HasSymbol(list, Curated[k])
  /\ \A i, j \in DOMAIN list :
       i < j => \/ Rank(list[i]) < Rank(list[j])
                \/ Rank(list[i]) = Rank(list[j]) /\ Collation[list[i]] <= Collation[list[j]]

LEMMA RankIs ==
  ASSUME PickerInputsTyped, NEW t
  PROVE  Rank(t) \in Nat
<1>1. Len(Curated) \in Nat /\ DOMAIN Curated = 1..Len(Curated) BY DEF PickerInputsTyped
<1>2. CASE IsCurated(t)
  <2>1. (CHOOSE i \in DOMAIN Curated : Curated[i] = t.symbol) \in DOMAIN Curated BY <1>2 DEF IsCurated
  <2> QED BY <1>1, <1>2, <2>1 DEF Rank
<1>3. CASE ~ IsCurated(t) BY <1>1, <1>3 DEF Rank
<1> QED BY <1>2, <1>3

LEMMA FallbackRank ==
  ASSUME PickerInputsTyped, NEW i \in DOMAIN Fallback
  PROVE  Rank(Fallback[i]) = i
<1>1. DOMAIN Curated = DOMAIN Fallback /\ Fallback[i].symbol = Curated[i] BY DEF PickerInputsTyped
<1>2. IsCurated(Fallback[i]) BY <1>1 DEF IsCurated
<1>3. \A k \in DOMAIN Curated : Curated[k] = Fallback[i].symbol => k = i
  BY <1>1 DEF PickerInputsTyped
<1>4. (CHOOSE k \in DOMAIN Curated : Curated[k] = Fallback[i].symbol) = i BY <1>1, <1>3
<1> QED BY <1>2, <1>4 DEF Rank

\* The tokens there are, and what an entry of one holds.
LEMMA EntryIs ==
  ASSUME PickerInputsTyped, NEW t \in DOMAIN Collation, NEW n \in Nat, NEW i \in 1..n
  PROVE  /\ Entry(t, i).rank = Rank(t) /\ Entry(t, i).rank \in Nat
         /\ Entry(t, i).name = Collation[t] /\ Entry(t, i).name \in Nat
         /\ Entry(t, i).at = i /\ Entry(t, i).at \in 1..n /\ Entry(t, i).token = t
<1>1. Collation[t] \in Nat BY DEF PickerInputsTyped
<1> QED BY <1>1, RankIs DEF Entry

LEMMA EntriesAre ==
  ASSUME PickerInputsTyped, NEW list \in Seq(DOMAIN Collation)
  PROVE  /\ IsEntries(Entries(list), Len(list) + Len(Fallback))
         /\ \A e \in Entries(list) :
              e.rank = Rank(e.token) /\ e.name = Collation[e.token] /\ e.token.chain = Chain
<1> DEFINE l == Len(list)
           n == l + Len(Fallback)
           own(e) == \E i \in SameChain(list) : e = Entry(list[i], i)
           folded(e) == \E i \in FoldedIn(list) : e = Entry(Fallback[i], l + i)
<1>1. /\ l \in Nat /\ n \in Nat /\ Len(Fallback) \in Nat
      /\ DOMAIN list = 1..l /\ DOMAIN Fallback = 1..Len(Fallback)
      /\ \A i \in DOMAIN list : list[i] \in DOMAIN Collation
      /\ \A i \in DOMAIN Fallback : Fallback[i] \in DOMAIN Collation
  BY DEF PickerInputsTyped
<1>2. \A e \in Entries(list) : own(e) \/ folded(e) BY DEF Entries
<1>3. \A i \in SameChain(list) : i \in 1..l /\ i \in 1..n /\ list[i] \in DOMAIN Collation /\ list[i].chain = Chain
  BY <1>1 DEF SameChain
<1>4. \A i \in FoldedIn(list) : /\ i \in 1..Len(Fallback) /\ l + i \in 1..n /\ l + i > l
                               /\ Fallback[i] \in DOMAIN Collation /\ Fallback[i].chain = Chain
  BY <1>1 DEF FoldedIn
<1> HIDE DEF n
<1>5. ASSUME NEW e, own(e)
      PROVE  /\ e.rank = Rank(e.token) /\ e.rank \in Nat /\ e.name = Collation[e.token] /\ e.name \in Nat
             /\ e.at \in 1..l /\ e.at \in 1..n /\ e.token.chain = Chain /\ e = Entry(list[e.at], e.at)
  <2>1. PICK i \in SameChain(list) : e = Entry(list[i], i) BY <1>5
  <2>2. i \in 1..l /\ i \in 1..n /\ list[i] \in DOMAIN Collation /\ list[i].chain = Chain BY <1>3
  <2> QED BY <1>1, <2>1, <2>2, EntryIs
<1>6. ASSUME NEW e, folded(e)
      PROVE  /\ e.rank = Rank(e.token) /\ e.rank \in Nat /\ e.name = Collation[e.token] /\ e.name \in Nat
             /\ e.at > l /\ e.at \in 1..n /\ e.token.chain = Chain /\ e = Entry(Fallback[e.at - l], e.at)
  <2>1. PICK i \in FoldedIn(list) : e = Entry(Fallback[i], l + i) BY <1>6
  <2>2. /\ i \in 1..Len(Fallback) /\ l + i \in 1..n /\ l + i > l
        /\ Fallback[i] \in DOMAIN Collation /\ Fallback[i].chain = Chain
    BY <1>4
  <2>3. /\ e.rank = Rank(e.token) /\ e.rank \in Nat /\ e.name = Collation[e.token] /\ e.name \in Nat
        /\ e.at = l + i /\ e.token = Fallback[i]
    BY <1>1, <2>1, <2>2, EntryIs
  <2>4. e.at - l = i BY <1>1, <2>2, <2>3
  <2> QED BY <2>1, <2>2, <2>3, <2>4
<1>7. \A e \in Entries(list) : /\ e.rank = Rank(e.token) /\ e.rank \in Nat /\ e.name = Collation[e.token]
                               /\ e.name \in Nat /\ e.at \in 1..n /\ e.token.chain = Chain
  BY <1>2, <1>5, <1>6
<1>8. ASSUME NEW e \in Entries(list), NEW f \in Entries(list), e.at = f.at PROVE e = f
  <2>1. CASE own(e) /\ own(f) BY <1>5, <1>8, <2>1
  <2>2. CASE folded(e) /\ folded(f) BY <1>6, <1>8, <2>2
  <2>3. ~ (own(e) /\ folded(f)) /\ ~ (folded(e) /\ own(f))
    <3>1. own(e) /\ folded(f) => e.at \in 1..l /\ f.at > l BY <1>5, <1>6
    <3>2. folded(e) /\ own(f) => f.at \in 1..l /\ e.at > l BY <1>5, <1>6
    <3> QED BY <1>1, <1>8, <3>1, <3>2
  <2> QED BY <1>2, <2>1, <2>2, <2>3
<1> QED BY <1>7, <1>8 DEF IsEntries, n

\* The route's answer to whatever the upstream serves.
LEMMA TokenListShows ==
  ASSUME PickerInputsTyped, NEW list \in Seq(DOMAIN Collation)
  PROVE  Shows(TokenList(list))
<1> DEFINE S == Entries(list)
           n == Len(list) + Len(Fallback)
<1>1. n \in Nat BY DEF PickerInputsTyped
<1>2. /\ IsEntries(S, n)
      /\ \A e \in S : e.rank = Rank(e.token) /\ e.name = Collation[e.token] /\ e.token.chain = Chain
  BY EntriesAre
<1>3. ASSUME NEW k \in DOMAIN Curated PROVE \E e \in S : e.token.symbol = Curated[k]
  <2>1. k \in DOMAIN Fallback /\ Fallback[k].symbol = Curated[k] /\ Fallback[k].chain = Chain
    BY DEF PickerInputsTyped
  <2>2. CASE \E j \in SameChain(list) : list[j].symbol = Curated[k]
    <3>1. PICK j \in SameChain(list) : list[j].symbol = Curated[k] BY <2>2
    <3>2. Entry(list[j], j) \in S BY DEF Entries
    <3>3. Entry(list[j], j).token = list[j] BY DEF Entry
    <3> QED BY <3>1, <3>2, <3>3
  <2>3. CASE ~ \E j \in SameChain(list) : list[j].symbol = Curated[k]
    <3>1. k \in FoldedIn(list) BY <2>1, <2>3 DEF FoldedIn
    <3>2. Entry(Fallback[k], Len(list) + k) \in S BY <3>1 DEF Entries
    <3>3. Entry(Fallback[k], Len(list) + k).token = Fallback[k] BY DEF Entry
    <3> QED BY <2>1, <3>2, <3>3
  <2> QED BY <2>2, <2>3
<1> HIDE DEF S, n
<1> DEFINE sorted == Sorted(S)
<1>4. /\ \A e \in S : \E k \in DOMAIN sorted : sorted[k] = e.token
      /\ \A k \in DOMAIN sorted : \E e \in S : sorted[k] = e.token
      /\ \A i, j \in DOMAIN sorted :
           i < j => \E e, f \in S : sorted[i] = e.token /\ sorted[j] = f.token /\ Before(e, f)
  BY <1>1, <1>2, SortedIs
<1>5. TokenList(list) = sorted BY DEF TokenList, S
<1> HIDE DEF sorted
<1>6. \A i \in DOMAIN sorted : sorted[i].chain = Chain BY <1>2, <1>4
<1>7. \A k \in DOMAIN Curated : HasSymbol(sorted, Curated[k]) BY <1>3, <1>4 DEF HasSymbol
<1>8. ASSUME NEW i \in DOMAIN sorted, NEW j \in DOMAIN sorted, i < j
      PROVE  \/ Rank(sorted[i]) < Rank(sorted[j])
             \/ Rank(sorted[i]) = Rank(sorted[j]) /\ Collation[sorted[i]] <= Collation[sorted[j]]
  <2>1. PICK e \in S, f \in S : sorted[i] = e.token /\ sorted[j] = f.token /\ Before(e, f) BY <1>4, <1>8
  <2>2. e.name \in Nat /\ f.name \in Nat BY <1>2 DEF IsEntries
  <2> QED BY <1>2, <2>1, <2>2 DEF Before
<1> QED BY <1>5, <1>6, <1>7, <1>8 DEF Shows

\* The hand-kept list alone, which is not sorted.
LEMMA FallbackShows ==
  ASSUME PickerInputsTyped
  PROVE  Shows(FallbackList)
<1> DEFINE n == Len(Fallback)
           S == {[rank |-> 0, name |-> 0, at |-> i, token |-> Fallback[i]] :
                   i \in {j \in DOMAIN Fallback : Fallback[j].chain = Chain}}
<1>1. n \in Nat /\ DOMAIN Fallback = 1..n /\ DOMAIN Curated = 1..n BY DEF PickerInputsTyped
<1>2. \A i \in 1..n : Fallback[i].symbol = Curated[i] /\ Fallback[i].chain = Chain
  BY <1>1 DEF PickerInputsTyped
<1>3. \A e \in S : e.rank = 0 /\ e.name = 0 /\ e.at \in 1..n /\ e.token = Fallback[e.at]
  BY <1>1
<1>4. IsEntries(S, n)
  <2>1. \A e, f \in S : e.at = f.at => e = f OBVIOUS
  <2> QED BY <1>3, <2>1 DEF IsEntries
<1>5. ASSUME NEW k \in DOMAIN Curated PROVE \E e \in S : e.token.symbol = Curated[k]
  <2>1. [rank |-> 0, name |-> 0, at |-> k, token |-> Fallback[k]] \in S BY <1>1, <1>2
  <2> QED BY <1>1, <1>2, <2>1
<1>6. FallbackList = Sorted(S) BY DEF FallbackList
<1> HIDE DEF S
<1> DEFINE sorted == Sorted(S)
<1>7. /\ \A e \in S : \E k \in DOMAIN sorted : sorted[k] = e.token
      /\ \A k \in DOMAIN sorted : \E e \in S : sorted[k] = e.token
      /\ \A i, j \in DOMAIN sorted :
           i < j => \E e, f \in S : sorted[i] = e.token /\ sorted[j] = f.token /\ Before(e, f)
  BY <1>1, <1>4, SortedIs
<1> HIDE DEF sorted
<1>8. \A i \in DOMAIN sorted : sorted[i].chain = Chain BY <1>2, <1>3, <1>7
<1>9. \A k \in DOMAIN Curated : HasSymbol(sorted, Curated[k]) BY <1>5, <1>7 DEF HasSymbol
<1>10. ASSUME NEW i \in DOMAIN sorted, NEW j \in DOMAIN sorted, i < j
       PROVE  Rank(sorted[i]) < Rank(sorted[j])
  <2>1. PICK e \in S, f \in S : sorted[i] = e.token /\ sorted[j] = f.token /\ Before(e, f) BY <1>7, <1>10
  <2>2. e.at < f.at BY <1>3, <2>1 DEF Before
  <2>3. Rank(Fallback[e.at]) = e.at /\ Rank(Fallback[f.at]) = f.at BY <1>1, <1>3, FallbackRank
  <2> QED BY <1>3, <2>1, <2>2, <2>3
<1> QED BY <1>6, <1>8, <1>9, <1>10 DEF Shows, sorted

-----------------------------------------------------------------------------
\* What the picker shows is nothing or such a list.
PickerInv ==
  /\ fetch \in {"none", "sent", "answered"} /\ mounted \in BOOLEAN /\ fetching \in BOOLEAN
  /\ open \in BOOLEAN /\ query \in {"", "USDC"} /\ upstream \in Upstreams
  /\ loaded = (tokens # <<>>)
  /\ tokens # <<>> => Shows(tokens)
  /\ open => mounted

LEMMA PickerStarts == PickerInit => PickerInv
  BY DEF PickerInit, PickerInv

LEMMA AnswersShow == ASSUME PickerInputsTyped, upstream \in Upstreams, NEW list \in Answers PROVE Shows(list)
<1>1. upstream \in Seq(DOMAIN Collation) BY DEF PickerInputsTyped
<1> QED BY <1>1, TokenListShows, FallbackShows DEF Answers

LEMMA PickerSteps == PickerInv /\ [PickerNext]_pickerVars => PickerInv'
<1> SUFFICES ASSUME PickerInv, [PickerNext]_pickerVars PROVE PickerInv' OBVIOUS
<1>1. CASE Loaded
  <2>1. PICK list \in Answers \cup {Failed} :
          /\ fetch = "sent" /\ fetch' = "answered"
          /\ IF Shown THEN tokens' = list /\ loaded' = (list # Failed) /\ fetching' = FALSE
             ELSE UNCHANGED <<tokens, loaded, fetching>>
          /\ UNCHANGED <<upstream, mounted, open, query, selected>>
    BY <1>1 DEF Loaded
  <2>2. list # <<>> => Shows(list) BY <2>1, AnswersShow, PickerAssumption DEF PickerInv, Failed
  <2>3. CASE Shown
    <3>1. tokens' = list /\ loaded' = (list # <<>>) /\ fetching' = FALSE BY <2>1, <2>3 DEF Failed
    <3>2. tokens' # <<>> => Shows(tokens') BY <2>2, <3>1
    <3>3. (tokens # <<>> => Shows(tokens))' BY <3>2 DEF Shows, HasSymbol
    <3> QED BY <2>1, <3>1, <3>3 DEF PickerInv
  <2>4. CASE ~ Shown
    <3>1. (tokens # <<>> => Shows(tokens))' BY <2>1, <2>4 DEF PickerInv, Shows, HasSymbol
    <3> QED BY <2>1, <2>4, <3>1 DEF PickerInv
  <2> QED BY <2>3, <2>4
<1>2. CASE Load \/ Unmount \/ Toggle \/ ClickOutside \/ Search \/ Select \/ UNCHANGED pickerVars
  <2>1. UNCHANGED <<upstream, tokens, loaded>>
    BY <1>2 DEF Load, Unmount, Toggle, ClickOutside, Search, Select, pickerVars
  <2>2. (tokens # <<>> => Shows(tokens))' BY <2>1 DEF PickerInv, Shows, HasSymbol
  <2>3. (loaded = (tokens # <<>>))' BY <2>1 DEF PickerInv
  <2>4. fetch' \in {"none", "sent", "answered"} /\ query' \in {"", "USDC"}
    BY <1>2 DEF PickerInv, Load, Unmount, Toggle, ClickOutside, Search, Select, pickerVars
  <2>5. mounted' \in BOOLEAN /\ fetching' \in BOOLEAN
    BY <1>2, Zenon DEF PickerInv, Load, Unmount, Toggle, ClickOutside, Search, Select, pickerVars
  <2>6. open' \in BOOLEAN /\ (open' => mounted')
    <3>1. open \in BOOLEAN /\ (open => mounted) BY DEF PickerInv
    <3>2. CASE Toggle
      <4>1. mounted /\ mounted' = mounted /\ open' = ~open BY <3>2 DEF Toggle
      <4> QED BY <3>1, <4>1
    <3>3. CASE Unmount \/ ClickOutside \/ Select BY <3>3 DEF Unmount, ClickOutside, Select
    <3>4. CASE Load \/ Search \/ UNCHANGED pickerVars
      <4>1. mounted' = mounted /\ open' = open BY <3>4 DEF Load, Search, pickerVars
      <4> QED BY <3>1, <4>1
    <3> QED BY <1>2, <3>2, <3>3, <3>4
  <2> QED BY <2>1, <2>2, <2>3, <2>4, <2>5, <2>6 DEF PickerInv
<1> QED BY <1>1, <1>2 DEF PickerNext

LEMMA PickerIsSafe == PickerInv => PickerTypeOK /\ CommonPairsFirst
<1> SUFFICES ASSUME PickerInv PROVE PickerTypeOK /\ CommonPairsFirst OBVIOUS
<1>1. \A i \in DOMAIN tokens : tokens[i].chain = Chain
  <2>1. CASE tokens = <<>>
    <3>1. DOMAIN tokens = {} BY <2>1
    <3> QED BY <3>1
  <2>2. CASE tokens # <<>> BY <2>2 DEF PickerInv, Shows
  <2> QED BY <2>1, <2>2
<1>2. PickerTypeOK BY <1>1 DEF PickerInv, PickerTypeOK
<1>3. loaded => Shows(tokens) BY DEF PickerInv
<1> QED BY <1>2, <1>3 DEF Shows, CommonPairsFirst

LEMMA PickerGone ==
  PickerInv /\ [PickerNext]_pickerVars => [~mounted => tokens' = tokens /\ selected' = selected]_pickerVars
  BY DEF PickerInv, PickerNext, Load, Loaded, Shown, Unmount, Toggle, ClickOutside, Search, Select

(* What the picker shows is of its chain, and it knows whether it has a list*)
(* (token-picker.tsx:36-63).                                                *)
THEOREM PickerTyped == PickerSpec => []PickerTypeOK
  BY PickerStarts, PickerSteps, PickerIsSafe, PTL DEF PickerSpec

(* Whatever the upstream lists, in whatever order and under whatever        *)
(* addresses, every curated symbol is listed, in the curated order and      *)
(* before the rest, which is in the order of its symbols                    *)
(* (route.ts:126-171).                                                      *)
THEOREM CommonPairsComeFirst == PickerSpec => []CommonPairsFirst
  BY PickerStarts, PickerSteps, PickerIsSafe, PTL DEF PickerSpec

(* A list that arrives after the picker is gone changes nothing, whatever   *)
(* the upstream serves (token-picker.tsx:45-67).                            *)
THEOREM GonePickerIsLeftAlone == PickerSpec => LateListIsIgnored
  BY PickerStarts, PickerSteps, PickerGone, PTL DEF PickerSpec, LateListIsIgnored

-----------------------------------------------------------------------------
\* The poll of the peers.

Peers == PeerNames \cup {BadName}
LivePairs == UNION {LiveIn(q) : q \in PeerPolicies}
Replies == [kind : {"none", "fetch-failed", "parse-failed"}]
             \cup {[kind |-> "ok", pairs |-> Listed(q)] : q \in {p \in PeerPolicies : p.listen}}
PollRec == [pc : {"idle", "resolving", "fetching"}, todo : Seq(Peers), at : Endpoints,
            reply : Replies, live : SUBSET LivePairs]
Servers == [Hosts -> [up : BOOLEAN, policy : PeerPolicies, boot : PeerPolicies]]
Offers == UNION {[D -> LivePairs] : D \in SUBSET Nat}
ResultRec == [peer : Peers, kind : {"ok", "no-endpoint", "fetch-failed", "parse-failed"},
              live : SUBSET LivePairs, offers : Offers]

ExchangeTypes ==
  /\ mine \in MyPolicies /\ server \in Servers /\ endpoint \in [PeerNames -> Endpoints]
  /\ poll \in PollRec /\ results \in Seq(ResultRec)
  /\ peerEdits \in 0..MaxPeerEdits /\ polls \in 0..MaxPolls /\ scripts \in 0..MaxScripts

\* What a result says is taken from its answer, and the answer from what was enabled.
ResultsGood == \A i \in DOMAIN results :
  /\ poll.pc # "idle" => DOMAIN results[i].offers \subseteq 1..mine.max
  /\ results[i].kind # "ok" => results[i].offers = <<>>
  /\ ToSet(results[i].offers) \subseteq results[i].live

\* While a peer is asked, `live` has all it lists now, and all that its answer has.
AskedInv ==
  /\ IF poll.pc = "fetching" THEN poll.todo # <<>> ELSE poll.reply.kind = "none"
  /\ poll.pc = "fetching" /\ poll.at.host \in Hosts => Live(poll.at.host) \subseteq poll.live
  /\ poll.reply.kind = "ok" => ToSet(poll.reply.pairs) \subseteq poll.live

PollInv == ExchangeTypes /\ ResultsGood /\ AskedInv /\ OneResultPerPeer

LEMMA PollIsSafe ==
  ASSUME ExchangeInputsTyped, PollInv PROVE ExchangeTypeOK /\ OffersWereLive
<1>1. \A i \in DOMAIN results : results[i] \in ResultRec
  BY DEF PollInv, ExchangeTypes
<1>2. \A i \in DOMAIN results : results[i].kind \in {"ok", "no-endpoint", "fetch-failed", "parse-failed"}
  BY <1>1 DEF ResultRec
<1>3. poll.pc \in {"idle", "resolving", "fetching"} BY DEF PollInv, ExchangeTypes, PollRec
<1>4. \A h \in Hosts : server[h].policy \in PeerPolicies /\ server[h].up \in BOOLEAN
  BY DEF PollInv, ExchangeTypes, Servers
<1>5. ExchangeTypeOK BY <1>2, <1>3, <1>4 DEF PollInv, ResultsGood, ExchangeTypes, ExchangeTypeOK
<1>6. OffersWereLive BY DEF PollInv, ResultsGood, OffersWereLive
<1> QED BY <1>5, <1>6

LEMMA IdleTyped == Idle \in PollRec /\ Idle.pc = "idle" /\ Idle.reply.kind = "none"
BY EmptySeq DEF Idle, PollRec, Endpoints, Replies, None

LEMMA ResolvingTyped ==
  ASSUME NEW todo \in Seq(Peers)
  PROVE  LET p == [Idle EXCEPT !.pc = "resolving", !.todo = todo]
         IN  p \in PollRec /\ p.pc = "resolving" /\ p.todo = todo /\ p.reply.kind = "none"
BY IdleTyped DEF Idle, PollRec

LEMMA ExchangeStarts == ASSUME ExchangeInputsTyped, ExchangeInit PROVE PollInv
<1>1. results = <<>> /\ poll = Idle BY DEF ExchangeInit
<1>2. server \in Servers
  <2>1. PICK p \in PeerPolicies : server = [h \in Hosts |-> [up |-> TRUE, policy |-> p, boot |-> p]]
    BY DEF ExchangeInit
  <2> QED BY <2>1 DEF Servers
<1>3. results \in Seq(ResultRec) /\ DOMAIN results = {}
  BY <1>1, EmptySeq, LenProperties
<1>4. 0 \in 0..MaxPeerEdits /\ 0 \in 0..MaxPolls /\ 0 \in 0..MaxScripts
  BY DEF ExchangeInputsTyped
<1>5. ExchangeTypes
  BY <1>1, <1>2, <1>3, <1>4, IdleTyped DEF ExchangeInit, ExchangeTypes, ExchangeInputsTyped
<1>6. ResultsGood BY <1>3 DEF ResultsGood
<1>7. AskedInv BY <1>1, IdleTyped DEF AskedInv
<1>8. OneResultPerPeer BY <1>1, IdleTyped DEF OneResultPerPeer
<1> QED BY <1>5, <1>6, <1>7, <1>8 DEF PollInv

\* Moving the head of one sequence to the end of another leaves them the same together.
LEMMA HeadMovesOver ==
  ASSUME NEW S, NEW a \in Seq(S), NEW b \in Seq(S), b # <<>>
  PROVE  Append(a, Head(b)) \o Tail(b) = a \o b
<1>1. Head(b) \in S /\ Tail(b) \in Seq(S) /\ b = <<Head(b)>> \o Tail(b)
  BY HeadTailProperties, SMTT(30)
<1>2. Append(a, Head(b)) = a \o <<Head(b)>> /\ <<Head(b)>> \in Seq(S)
  BY <1>1, AppendIsConcat
<1>3. (a \o <<Head(b)>>) \o Tail(b) = a \o (<<Head(b)>> \o Tail(b))
  BY <1>1, <1>2, ConcatAssociative
<1> QED BY <1>1, <1>2, <1>3

\* A result is recorded: of the peer at the head, with nothing or with what its answer has.
LEMMA RecordKeeps ==
  ASSUME ExchangeInputsTyped, PollInv, poll.pc # "idle", poll.todo # <<>>,
         NEW kind \in {"ok", "no-endpoint", "fetch-failed", "parse-failed"}, NEW pairs,
         \/ pairs = <<>>
         \/ kind = "ok" /\ poll.reply.kind = "ok" /\ pairs = poll.reply.pairs,
         Record(kind, pairs)
  PROVE  PollInv'
<1> DEFINE r == PollResult(kind, pairs)
           D == {j \in 1..mine.max : j \in DOMAIN pairs /\ Matches(pairs[j])}
<1>1. /\ results' = Append(results, r)
      /\ poll' = [Idle EXCEPT !.pc = "resolving", !.todo = Tail(poll.todo)]
      /\ UNCHANGED <<mine, polls, server, endpoint, script, mempool, peerEdits, scripts>>
  BY DEF Record, theRest
<1>2. /\ poll.todo \in Seq(Peers) /\ poll.live \in SUBSET LivePairs /\ mine.max \in Nat
      /\ results \in Seq(ResultRec)
  BY DEF PollInv, ExchangeTypes, PollRec, ExchangeInputsTyped
<1>3. Head(poll.todo) \in Peers /\ Tail(poll.todo) \in Seq(Peers)
  BY <1>2, HeadTailProperties
<1>4. poll' \in PollRec /\ poll'.pc = "resolving" /\ poll'.todo = Tail(poll.todo)
      /\ poll'.reply.kind = "none"
  BY <1>1, <1>3, ResolvingTyped
<1>5. \A j \in D : pairs[j] \in poll.live
  <2>1. CASE pairs = <<>> BY <2>1
  <2>2. CASE poll.reply.kind = "ok" /\ pairs = poll.reply.pairs
    <3>1. \A j \in DOMAIN pairs : pairs[j] \in ToSet(pairs) BY DEF ToSet
    <3> QED BY <2>2, <3>1 DEF PollInv, AskedInv
  <2> QED BY <2>1, <2>2
<1>6. r = [peer |-> Head(poll.todo), kind |-> kind, live |-> poll.live,
           offers |-> [i \in D |-> pairs[i]]]
  BY DEF PollResult
<1>7. DOMAIN r.offers = D /\ D \subseteq 1..mine.max /\ \A j \in D : r.offers[j] = pairs[j]
  BY <1>6
<1>8. r.offers \in [D -> LivePairs] /\ D \in SUBSET Nat
  BY <1>2, <1>5, <1>6
<1>9. r \in ResultRec
  <2>1. r.offers \in Offers BY <1>8 DEF Offers
  <2> QED BY <1>2, <1>3, <1>6, <2>1 DEF ResultRec
<1>10. ToSet(r.offers) \subseteq r.live
  BY <1>5, <1>6, <1>7 DEF ToSet
<1>11. kind # "ok" => r.offers = <<>>
  <2> SUFFICES ASSUME kind # "ok" PROVE r.offers = <<>> OBVIOUS
  <2>1. D = {} OBVIOUS
  <2>2. r.offers = [i \in {} |-> pairs[i]] BY <1>6, <2>1
  <2>3. 1..0 = {} OBVIOUS
  <2>4. r.offers \in [1..0 -> {}] BY <2>2, <2>3
  <2> HIDE DEF r, D
  <2>5. r.offers \in Seq({}) BY <2>4, SeqDef
  <2>6. Len(r.offers) = 0 BY <2>2, <2>5, LenProperties
  <2> QED BY <2>5, <2>6, EmptySeq
<1> HIDE DEF r, D
<1>12. /\ results' \in Seq(ResultRec) /\ Len(results') = Len(results) + 1
       /\ \A i \in 1..Len(results) : results'[i] = results[i]
       /\ results'[Len(results) + 1] = r
  BY <1>1, <1>2, <1>9, AppendProperties
<1>13. ExchangeTypes' BY <1>1, <1>4, <1>12 DEF PollInv, ExchangeTypes
<1>14. ResultsGood'
  <2>1. DOMAIN results = 1..Len(results) /\ DOMAIN results' = 1..Len(results') /\ Len(results) \in Nat
    BY <1>2, <1>12, LenProperties
  <2>2. \A i \in DOMAIN results' : (i \in DOMAIN results /\ results'[i] = results[i]) \/ results'[i] = r
    BY <1>12, <2>1
  <2>3. r.kind = kind BY <1>6
  <2>4. mine' = mine BY <1>1
  <2>5. ASSUME NEW i \in DOMAIN results'
        PROVE  /\ DOMAIN results'[i].offers \subseteq 1..mine.max
               /\ results'[i].kind # "ok" => results'[i].offers = <<>>
               /\ ToSet(results'[i].offers) \subseteq results'[i].live
    <3>1. CASE i \in DOMAIN results /\ results'[i] = results[i]
      BY <3>1 DEF PollInv, ResultsGood
    <3>2. CASE results'[i] = r BY <3>2, <1>7, <1>10, <1>11, <2>3
    <3> QED BY <2>2, <3>1, <3>2
  <2> QED BY <2>4, <2>5 DEF ResultsGood
<1>15. AskedInv' BY <1>4 DEF AskedInv
<1>16. OneResultPerPeer'
  <2> DEFINE n == Len(results)
             told == [i \in DOMAIN results |-> results[i].peer]
             toldNow == [i \in DOMAIN results' |-> results'[i].peer]
  <2>1. n \in Nat /\ DOMAIN results = 1..n /\ DOMAIN results' = 1..(n + 1)
    BY <1>2, <1>12, LenProperties
  <2>2. \A i \in 1..n : results[i].peer \in Peers
    <3>1. \A i \in 1..n : results[i] \in ResultRec BY <1>2, <2>1, ElementOfSeq
    <3> QED BY <3>1 DEF ResultRec
  <2>3. told \in Seq(Peers) /\ Len(told) = n /\ \A i \in 1..n : told[i] = results[i].peer
    <3>1. told \in [1..n -> Peers] BY <2>1, <2>2
    <3> HIDE DEF told, n
    <3>2. told \in Seq(Peers) BY <2>1, <3>1, SeqDef
    <3>3. Len(told) = n BY <2>1, <3>1, <3>2, LenProperties
    <3> QED BY <2>1, <3>2, <3>3 DEF told
  <2>4. r.peer = Head(poll.todo) BY <1>6
  <2>5. DOMAIN toldNow = 1..(n + 1) /\ \A i \in 1..(n + 1) : toldNow[i] = results'[i].peer
    BY <2>1
  <2>6. \A i \in 1..n : toldNow[i] = told[i] BY <1>12, <2>1, <2>3, <2>5
  <2>7. toldNow[n + 1] = Head(poll.todo) BY <1>12, <2>1, <2>4, <2>5
  <2>8. toldNow = [i \in DOMAIN results' |-> results'[i].peer] OBVIOUS
  <2>9. told \o poll.todo = mine.peers BY DEF PollInv, OneResultPerPeer
  <2> HIDE DEF told, toldNow, n
  <2>10. /\ Append(told, Head(poll.todo)) \in Seq(Peers)
         /\ Len(Append(told, Head(poll.todo))) = n + 1
         /\ \A i \in 1..n : Append(told, Head(poll.todo))[i] = told[i]
         /\ Append(told, Head(poll.todo))[n + 1] = Head(poll.todo)
    BY <1>3, <2>1, <2>3, AppendProperties
  <2>11. \A i \in 1..(n + 1) : toldNow[i] = Append(told, Head(poll.todo))[i]
    BY <2>1, <2>6, <2>7, <2>10
  <2>12. toldNow \in Seq(Peers)
    <3>1. \A i \in 1..(n + 1) : toldNow[i] \in Peers
      BY <2>10, <2>11, ElementOfSeq
    <3>2. toldNow \in [1..(n + 1) -> Peers] BY <2>5, <2>8, <3>1
    <3> QED BY <2>1, <3>2, SeqDef
  <2>13. toldNow = Append(told, Head(poll.todo))
    <3>1. Len(toldNow) = n + 1 BY <2>1, <2>5, <2>12, LenProperties
    <3> QED BY <2>10, <2>11, <2>12, <3>1, SeqEqual
  <2>14. toldNow \o Tail(poll.todo) = mine.peers
    BY <1>2, <2>3, <2>9, <2>13, HeadMovesOver
  <2> QED BY <1>1, <1>4, <2>8, <2>14 DEF OneResultPerPeer
<1> QED BY <1>13, <1>14, <1>15, <1>16 DEF PollInv

LEMMA IdleKeeps ==
  ASSUME ExchangeInputsTyped, PollInv, poll' = Idle, results' \in {results, <<>>},
         UNCHANGED <<mine, polls, theRest>>
  PROVE  PollInv'
<1>0. <<>> \in Seq(ResultRec) /\ DOMAIN <<>> = {} BY EmptySeq, LenProperties
<1>1. results' \in Seq(ResultRec) /\ (results' = results \/ DOMAIN results' = {})
  BY <1>0 DEF PollInv, ExchangeTypes
<1>2. ExchangeTypes' BY <1>1, IdleTyped DEF PollInv, ExchangeTypes, theRest
<1>3. ResultsGood' BY <1>1, IdleTyped DEF PollInv, ResultsGood, theRest
<1>4. AskedInv' BY IdleTyped DEF AskedInv
<1>5. OneResultPerPeer' BY IdleTyped DEF OneResultPerPeer
<1> QED BY <1>2, <1>3, <1>4, <1>5 DEF PollInv

LEMMA StartPollKeeps == ASSUME ExchangeInputsTyped, PollInv, StartPoll PROVE PollInv'
<1>1. /\ poll.pc = "idle" /\ polls < MaxPolls /\ polls' = polls + 1 /\ results' = <<>>
      /\ poll' = [Idle EXCEPT !.pc = "resolving", !.todo = mine.peers]
      /\ UNCHANGED <<mine, server, endpoint, script, mempool, peerEdits, scripts>>
  BY DEF StartPoll, theRest
<1>2. mine.peers \in Seq(Peers) BY DEF PollInv, ExchangeTypes, ExchangeInputsTyped, Peers
<1>3. poll' \in PollRec /\ poll'.pc = "resolving" /\ poll'.todo = mine.peers /\ poll'.reply.kind = "none"
  BY <1>1, <1>2, ResolvingTyped
<1>4. results' \in Seq(ResultRec) /\ DOMAIN results' = {}
  BY <1>1, EmptySeq, LenProperties
<1>5. polls' \in 0..MaxPolls
  <2>1. polls \in 0..MaxPolls BY DEF PollInv, ExchangeTypes
  <2>2. MaxPolls \in Nat BY DEF ExchangeInputsTyped
  <2> QED BY <1>1, <2>1, <2>2, OneMore
<1>6. ExchangeTypes' BY <1>1, <1>3, <1>4, <1>5 DEF PollInv, ExchangeTypes
<1>7. ResultsGood' BY <1>4 DEF ResultsGood
<1>8. AskedInv' BY <1>3 DEF AskedInv
<1>9. OneResultPerPeer'
  <2>1. [i \in DOMAIN results' |-> results'[i].peer] = [i \in {} |-> results'[i].peer]
    BY <1>4
  <2>2. [i \in {} |-> results'[i].peer] = <<>>
    <3> DEFINE f == [i \in {} |-> results'[i].peer]
    <3>1. 1..0 = {} OBVIOUS
    <3>2. f \in [1..0 -> Peers] BY <3>1
    <3>3. DOMAIN f = {} OBVIOUS
    <3> HIDE DEF f
    <3>4. f \in Seq(Peers) BY <3>2, SeqDef
    <3>5. Len(f) = 0 BY <3>3, <3>4, LenProperties
    <3>6. f = <<>> BY <3>4, <3>5, EmptySeq
    <3> QED BY <3>6 DEF f
  <2>3. <<>> \o mine.peers = mine.peers BY <1>2, ConcatEmptySeq
  <2> QED BY <1>1, <1>3, <2>1, <2>2, <2>3 DEF OneResultPerPeer
<1> QED BY <1>6, <1>7, <1>8, <1>9 DEF PollInv

LEMMA LiveTyped ==
  ASSUME ExchangeTypes, NEW peer PROVE Live(peer) \subseteq LivePairs
BY DEF ExchangeTypes, Servers, Live, LivePairs

\* A peer is asked: what it lists is noted from then on.
LEMMA AskKeeps ==
  ASSUME ExchangeInputsTyped, PollInv, poll.pc = "resolving", poll.todo # <<>>, NEW read \in Endpoints,
         poll' = [poll EXCEPT !.pc = "fetching", !.at = read, !.live = Live(read.host)],
         UNCHANGED <<mine, results, polls, theRest>>
  PROVE  PollInv'
<1>1. Live(read.host) \subseteq LivePairs BY LiveTyped DEF PollInv
<1>2. /\ poll' \in PollRec /\ poll'.pc = "fetching" /\ poll'.at = read /\ poll'.live = Live(read.host)
      /\ poll'.todo = poll.todo /\ poll'.reply = poll.reply
  BY <1>1 DEF PollInv, ExchangeTypes, PollRec
<1>3. poll.reply.kind = "none" BY DEF PollInv, AskedInv
<1>4. ExchangeTypes' BY <1>2 DEF PollInv, ExchangeTypes, theRest
<1>5. ResultsGood' BY <1>2 DEF PollInv, ResultsGood, theRest
<1>6. Live(poll.at.host)' = poll'.live
  BY <1>2 DEF Live, theRest
<1>7. AskedInv' BY <1>2, <1>3, <1>6 DEF AskedInv
<1>8. OneResultPerPeer' BY <1>2 DEF PollInv, OneResultPerPeer, theRest
<1> QED BY <1>4, <1>5, <1>7, <1>8 DEF PollInv

LEMMA ResolveKeeps == ASSUME ExchangeInputsTyped, PollInv, Resolve PROVE PollInv'
<1>1. poll.pc = "resolving" /\ poll.todo # <<>> /\ Head(poll.todo) # BadName BY DEF Resolve
<1>2. Head(poll.todo) \in PeerNames
  <2>1. poll.todo \in Seq(Peers) BY DEF PollInv, ExchangeTypes, PollRec
  <2> QED BY <1>1, <2>1, HeadTailProperties DEF Peers
<1>3. PICK read \in {endpoint[Head(poll.todo)], None} :
        IF read = None THEN Record("no-endpoint", <<>>)
        ELSE /\ poll' = [poll EXCEPT !.pc = "fetching", !.at = read, !.live = Live(read.host)]
             /\ UNCHANGED <<mine, results, polls, theRest>>
  BY DEF Resolve
<1>4. read \in Endpoints BY <1>2 DEF PollInv, ExchangeTypes, Endpoints
<1>5. CASE read = None
  <2>1. Record("no-endpoint", <<>>) BY <1>3, <1>5
  <2> QED BY <1>1, <2>1, RecordKeeps
<1>6. CASE read # None
  <2>1. /\ poll' = [poll EXCEPT !.pc = "fetching", !.at = read, !.live = Live(read.host)]
        /\ UNCHANGED <<mine, results, polls, theRest>>
    BY <1>3, <1>6
  <2> QED BY <1>1, <1>4, <2>1, AskKeeps
<1> QED BY <1>5, <1>6

\* The answers that end the wait for a peer.
LEMMA WaitEndsKeeps ==
  ASSUME ExchangeInputsTyped, PollInv, Receive \/ ConnectionFails \/ AbortFires PROVE PollInv'
<1>1. poll.pc = "fetching" BY DEF Receive, ConnectionFails, AbortFires
<1>2. poll.pc # "idle" /\ poll.todo # <<>> BY <1>1 DEF PollInv, AskedInv
<1>3. CASE Record("fetch-failed", <<>>) BY <1>2, <1>3, RecordKeeps
<1>4. CASE Receive
  <2>1. poll.reply.kind # "none"
        /\ Record(poll.reply.kind, IF poll.reply.kind = "ok" THEN poll.reply.pairs ELSE <<>>)
    BY <1>4 DEF Receive
  <2>2. poll.reply.kind \in {"ok", "fetch-failed", "parse-failed"}
    BY <2>1 DEF PollInv, ExchangeTypes, PollRec, Replies
  <2>3. CASE poll.reply.kind = "ok"
    <3>1. Record("ok", poll.reply.pairs) BY <2>1, <2>3
    <3> QED BY <1>2, <2>3, <3>1, RecordKeeps
  <2>4. CASE poll.reply.kind # "ok"
    <3>1. Record(poll.reply.kind, <<>>) BY <2>1, <2>4
    <3> QED BY <1>2, <2>2, <3>1, RecordKeeps
  <2> QED BY <2>3, <2>4
<1> QED BY <1>3, <1>4 DEF ConnectionFails, AbortFires

LEMMA ServeKeeps == ASSUME ExchangeInputsTyped, PollInv, Serve PROVE PollInv'
<1>1. PICK answer \in IF poll.at.host \in Hosts THEN {ServerAnswer(poll.at.host, poll.at.path)}
                      ELSE {[kind |-> "fetch-failed"], [kind |-> "parse-failed"]} :
        poll' = [poll EXCEPT !.reply = answer]
  BY DEF Serve
<1>2. poll.pc = "fetching" /\ UNCHANGED <<mine, results, polls, theRest>> BY DEF Serve
<1>3. answer \in Replies /\ (answer.kind = "ok" => ToSet(answer.pairs) \subseteq poll.live)
  <2>1. CASE poll.at.host \in Hosts
    <3> DEFINE q == server[poll.at.host].policy
    <3>1. q \in PeerPolicies BY <2>1 DEF PollInv, ExchangeTypes, Servers
    <3>2. \/ answer = [kind |-> "fetch-failed"]
          \/ q.listen /\ answer = [kind |-> "ok", pairs |-> Listed(q)]
      BY <1>1, <2>1 DEF ServerAnswer, ServedPolicy
    <3>3. q.listen => ToSet(Listed(q)) \subseteq poll.live
      BY <1>2, <2>1 DEF PollInv, AskedInv, Live, LiveIn
    <3> HIDE DEF q
    <3> QED BY <3>1, <3>2, <3>3 DEF Replies
  <2>2. CASE poll.at.host \notin Hosts BY <1>1, <2>2 DEF Replies
  <2> QED BY <2>1, <2>2
<1>4. /\ poll' \in PollRec /\ poll'.pc = "fetching" /\ poll'.at = poll.at /\ poll'.live = poll.live
      /\ poll'.todo = poll.todo /\ poll'.reply = answer
  BY <1>1, <1>2, <1>3 DEF PollInv, ExchangeTypes, PollRec
<1>5. ExchangeTypes' BY <1>2, <1>4 DEF PollInv, ExchangeTypes, theRest
<1>6. ResultsGood' BY <1>2, <1>4 DEF PollInv, ResultsGood, theRest
<1>7. Live(poll.at.host)' = Live(poll.at.host) BY <1>2, <1>4 DEF Live, theRest
<1>8. AskedInv' BY <1>2, <1>3, <1>4, <1>7 DEF PollInv, AskedInv
<1>9. OneResultPerPeer' BY <1>2, <1>4 DEF PollInv, OneResultPerPeer, theRest
<1> QED BY <1>5, <1>6, <1>8, <1>9 DEF PollInv

\* A peer's edit: what it lists from then on is live too.
LEMMA EditPeerKeeps ==
  ASSUME ExchangeInputsTyped, PollInv, NEW peer \in Hosts,
         NEW new \in [up : BOOLEAN, policy : PeerPolicies, boot : PeerPolicies], EditPeer(peer, new)
  PROVE  PollInv'
<1>1. /\ peerEdits < MaxPeerEdits /\ peerEdits' = peerEdits + 1 /\ server' = [server EXCEPT ![peer] = new]
      /\ poll' = IF poll.at.host = peer THEN [poll EXCEPT !.live = @ \cup LiveIn(new.policy)] ELSE poll
      /\ UNCHANGED <<mine, endpoint, results, script, mempool, polls, scripts>>
  BY DEF EditPeer
<1>2. LiveIn(new.policy) \subseteq LivePairs BY DEF LivePairs
<1>3. /\ poll' \in PollRec /\ poll'.pc = poll.pc /\ poll'.at = poll.at /\ poll.live \subseteq poll'.live
      /\ poll'.todo = poll.todo /\ poll'.reply = poll.reply
      /\ poll.at.host = peer => LiveIn(new.policy) \subseteq poll'.live
  BY <1>1, <1>2 DEF PollInv, ExchangeTypes, PollRec
<1>4. peerEdits' \in 0..MaxPeerEdits
  <2>1. peerEdits \in 0..MaxPeerEdits BY DEF PollInv, ExchangeTypes
  <2>2. MaxPeerEdits \in Nat BY DEF ExchangeInputsTyped
  <2> QED BY <1>1, <2>1, <2>2, OneMore
<1>5. server' \in Servers BY <1>1 DEF PollInv, ExchangeTypes, Servers
<1>6. ExchangeTypes' BY <1>1, <1>3, <1>4, <1>5 DEF PollInv, ExchangeTypes
<1>7. ResultsGood' BY <1>1, <1>3 DEF PollInv, ResultsGood
<1>8. ASSUME poll.pc = "fetching", poll.at.host \in Hosts PROVE Live(poll.at.host)' \subseteq poll'.live
  <2>1. Live(poll.at.host) \subseteq poll.live BY <1>8 DEF PollInv, AskedInv
  <2>2. CASE poll.at.host = peer
    <3>1. server'[peer] = new BY <1>1 DEF PollInv, ExchangeTypes, Servers
    <3> QED BY <1>3, <2>2, <3>1 DEF Live
  <2>3. CASE poll.at.host # peer
    <3>1. server'[poll.at.host] = server[poll.at.host]
      BY <1>1, <1>8, <2>3 DEF PollInv, ExchangeTypes, Servers
    <3> QED BY <1>3, <1>8, <2>1, <3>1 DEF Live
  <2> QED BY <2>2, <2>3
<1>9. AskedInv' BY <1>3, <1>8 DEF PollInv, AskedInv
<1>10. OneResultPerPeer' BY <1>1, <1>3 DEF PollInv, OneResultPerPeer
<1> QED BY <1>6, <1>7, <1>9, <1>10 DEF PollInv

-----------------------------------------------------------------------------
\* The script that sets an endpoint.

SetText == [want : Endpoints, status : {"pending", "success", "reverted"}]
ScriptRec == [pc : {"idle", "reading", "waiting"}, want : Endpoints, tx : Nat,
              told : {"nothing", "done", "failed"}]

\* Transactions are mined in their order, and the record is what the last of them set
\* if it went through; the script waits for the last.
ScriptInv ==
  /\ script \in ScriptRec /\ mempool \in Seq(SetText) /\ endpoint \in [PeerNames -> Endpoints]
  /\ script.pc # "idle" => script.told = "nothing"
  /\ \A i \in 1..Len(mempool), j \in 1..Len(mempool) :
       j < i /\ mempool[i].status # "pending" => mempool[j].status # "pending"
  /\ Len(mempool) > 0 /\ mempool[Len(mempool)].status = "success" =>
       endpoint[ScriptName] = mempool[Len(mempool)].want
  /\ script.pc = "waiting" =>
       script.tx = Len(mempool) /\ script.tx > 0 /\ mempool[script.tx].want = script.want

SaysDoneWhenSet == script.pc # "idle" /\ script'.told = "done" => endpoint'[ScriptName] = script.want

LEMMA ScriptStarts == ASSUME ExchangeInputsTyped, ExchangeInit PROVE ScriptInv
<1>1. mempool = <<>> /\ script = NoScript BY DEF ExchangeInit
<1>2. script \in ScriptRec BY <1>1 DEF NoScript, ScriptRec, Endpoints
<1>3. mempool \in Seq(SetText) /\ Len(mempool) = 0 BY <1>1, EmptySeq
<1>4. script.pc = "idle" BY <1>1 DEF NoScript
<1>5. endpoint \in [PeerNames -> Endpoints] BY DEF ExchangeInit, ExchangeInputsTyped
<1> QED BY <1>2, <1>3, <1>4, <1>5 DEF ScriptInv

\* The script says it is over, one way or the other.
LEMMA TellKeeps ==
  ASSUME ScriptInv, NEW what \in {"done", "failed"}, Tell(what), UNCHANGED <<endpoint, mempool>>
  PROVE  ScriptInv' /\ script'.told = what
<1>1. script' \in ScriptRec /\ script'.pc = "idle" /\ script'.told = what
  BY DEF Tell, NoScript, ScriptRec, Endpoints
<1> QED BY <1>1 DEF ScriptInv

LEMMA SendKeeps == ASSUME ExchangeInputsTyped, ScriptInv, SendSetText PROVE ScriptInv' /\ SaysDoneWhenSet
<1> DEFINE tx == [want |-> script.want, status |-> "pending"]
           n == Len(mempool)
<1>1. /\ script.pc = "reading" /\ mempool' = Append(mempool, tx) /\ endpoint' = endpoint
      /\ script' = [script EXCEPT !.pc = "waiting", !.tx = n + 1]
  BY DEF SendSetText
<1>2. script \in ScriptRec /\ mempool \in Seq(SetText) /\ script.told = "nothing"
  BY <1>1 DEF ScriptInv
<1>3. tx \in SetText /\ tx.status = "pending" /\ tx.want = script.want
  BY <1>2 DEF SetText, ScriptRec
<1>4. n \in Nat BY <1>2, LenProperties
<1> HIDE DEF tx, n
<1>5. /\ mempool' \in Seq(SetText) /\ Len(mempool') = n + 1
      /\ \A i \in 1..n : mempool'[i] = mempool[i]
      /\ mempool'[n + 1] = tx
  BY <1>1, <1>2, <1>3, AppendProperties DEF n
<1>6. /\ script' \in ScriptRec /\ script'.pc = "waiting" /\ script'.tx = n + 1
      /\ script'.want = script.want /\ script'.told = "nothing"
  <2> DEFINE m == n + 1
  <2>1. m \in Nat BY <1>4
  <2>2. script' = [script EXCEPT !.pc = "waiting", !.tx = m] BY <1>1
  <2> HIDE DEF m
  <2>3. /\ script' \in ScriptRec /\ script'.pc = "waiting" /\ script'.tx = m
        /\ script'.want = script.want /\ script'.told = script.told
    BY <1>2, <2>1, <2>2 DEF ScriptRec
  <2> QED BY <1>2, <2>3 DEF m
<1>7. ASSUME NEW i \in 1..(n + 1), NEW j \in 1..(n + 1), j < i, mempool'[i].status # "pending"
      PROVE  mempool'[j].status # "pending"
  <2>1. i # n + 1 BY <1>3, <1>5, <1>7
  <2>2. i \in 1..n /\ j \in 1..n BY <1>4, <1>7, <2>1
  <2> QED BY <1>5, <1>7, <2>2 DEF ScriptInv, n
<1>8. mempool'[Len(mempool')].status = "pending" BY <1>3, <1>5
<1>9. ScriptInv'
  BY <1>1, <1>3, <1>4, <1>5, <1>6, <1>7, <1>8 DEF ScriptInv
<1> QED BY <1>6, <1>9 DEF SaysDoneWhenSet

LEMMA MineKeeps == ASSUME ExchangeInputsTyped, ScriptInv, Mine PROVE ScriptInv' /\ SaysDoneWhenSet
<1> DEFINE n == Len(mempool)
<1>1. PICK i \in DOMAIN mempool, status \in {"success", "reverted"} :
        /\ mempool[i].status = "pending" /\ \A j \in 1..i - 1 : mempool[j].status # "pending"
        /\ mempool' = [mempool EXCEPT ![i].status = status]
        /\ endpoint' = IF status = "success" THEN [endpoint EXCEPT ![ScriptName] = mempool[i].want] ELSE endpoint
        /\ script' = script
  BY DEF Mine
<1> DEFINE e == [mempool[i] EXCEPT !.status = status]
<1>2. mempool \in Seq(SetText) /\ n \in Nat /\ DOMAIN mempool = 1..n
  BY LenProperties DEF ScriptInv
<1>3. i \in 1..n /\ mempool[i] \in SetText BY <1>1, <1>2, ElementOfSeq
<1>4. e \in SetText /\ e.status = status /\ e.want = mempool[i].want BY <1>3 DEF SetText
<1>5. mempool' = [mempool EXCEPT ![i] = e] BY <1>1
<1> HIDE DEF e, n
<1>6. /\ mempool' \in Seq(SetText) /\ Len(mempool') = n
      /\ \A j \in 1..n : mempool'[j] = IF j = i THEN e ELSE mempool[j]
  BY <1>2, <1>3, <1>4, <1>5, ExceptSeq DEF n
<1>7. ScriptName \in PeerNames /\ mempool[i].want \in Endpoints
  BY <1>3 DEF ExchangeInputsTyped, SetText
<1>8. endpoint' \in [PeerNames -> Endpoints] BY <1>1, <1>7 DEF ScriptInv
<1>9. ASSUME NEW k \in 1..n, NEW j \in 1..n, j < k, mempool'[k].status # "pending"
      PROVE  mempool'[j].status # "pending"
  <2>1. CASE j = i BY <1>1, <1>4, <1>6, <2>1
  <2>2. CASE j # i /\ k = i
    <3>1. j \in 1..i - 1 BY <1>2, <1>3, <1>9, <2>2
    <3> QED BY <1>1, <1>6, <2>2, <3>1
  <2>3. CASE j # i /\ k # i
    <3>1. mempool'[k] = mempool[k] /\ mempool'[j] = mempool[j] BY <1>6, <2>3
    <3> QED BY <1>9, <3>1 DEF ScriptInv, n
  <2> QED BY <2>1, <2>2, <2>3
<1>10. ASSUME n > 0, mempool'[n].status = "success" PROVE endpoint'[ScriptName] = mempool'[n].want
  <2>1. n \in 1..n BY <1>2, <1>10
  <2>2. CASE i = n
    <3>1. mempool'[n] = e BY <1>6, <2>1, <2>2
    <3>2. status = "success" BY <1>4, <1>10, <3>1
    <3> QED BY <1>1, <1>4, <1>7, <2>2, <3>1, <3>2 DEF ScriptInv
  <2>3. CASE i # n
    <3>1. mempool'[n] = mempool[n] BY <1>6, <2>1, <2>3
    <3>2. i < n BY <1>2, <1>3, <2>3
    <3>3. mempool[n].status = "pending" BY <1>1, <1>3, <2>1, <3>2 DEF ScriptInv, n
    <3> QED BY <1>10, <3>1, <3>3
  <2> QED BY <2>2, <2>3
<1>11. ASSUME script.pc = "waiting" PROVE mempool'[script.tx].want = script.want
  <2>1. script.tx = n /\ n > 0 /\ mempool[n].want = script.want BY <1>11 DEF ScriptInv, n
  <2>2. n \in 1..n BY <1>2, <2>1
  <2>3. mempool'[n].want = mempool[n].want BY <1>4, <1>6, <2>2
  <2> QED BY <2>1, <2>3
<1>12. ScriptInv'
  BY <1>1, <1>6, <1>8, <1>9, <1>10, <1>11 DEF ScriptInv, n
<1> QED BY <1>1, <1>12 DEF ScriptInv, SaysDoneWhenSet

LEMMA ScriptSteps ==
  ASSUME ExchangeInputsTyped, ScriptInv, [ExchangeNext]_exchangeVars PROVE ScriptInv' /\ SaysDoneWhenSet
<1>1. ASSUME UNCHANGED <<endpoint, script, mempool>> PROVE ScriptInv' /\ SaysDoneWhenSet
  BY <1>1 DEF ScriptInv, SaysDoneWhenSet
<1>2. CASE StartScript
  <2>1. PICK want \in Settable :
          /\ script.pc = "idle" /\ script' = [NoScript EXCEPT !.pc = "reading", !.want = want]
          /\ UNCHANGED <<endpoint, mempool>>
    BY <1>2 DEF StartScript
  <2>2. want \in Endpoints BY DEF ExchangeInputsTyped
  <2>3. script' \in ScriptRec /\ script'.pc = "reading" /\ script'.told = "nothing"
    BY <2>1, <2>2 DEF NoScript, ScriptRec
  <2> QED BY <2>1, <2>3 DEF ScriptInv, SaysDoneWhenSet
<1>3. CASE ScriptFails \/ ReceiptTimesOut
  <2>1. Tell("failed") /\ UNCHANGED <<endpoint, mempool>> BY <1>3 DEF ScriptFails, ReceiptTimesOut
  <2> QED BY <2>1, TellKeeps DEF SaysDoneWhenSet
<1>4. CASE NothingToDo
  <2>1. Tell("done") /\ UNCHANGED <<endpoint, mempool>> /\ endpoint[ScriptName] = script.want
    BY <1>4 DEF NothingToDo
  <2> QED BY <2>1, TellKeeps DEF SaysDoneWhenSet
<1>5. CASE Receipt
  <2> DEFINE what == IF mempool[script.tx].status = "success" THEN "done" ELSE "failed"
  <2>1. script.pc = "waiting" /\ Tell(what) /\ UNCHANGED <<endpoint, mempool>>
    BY <1>5 DEF Receipt
  <2>2. what \in {"done", "failed"} OBVIOUS
  <2>3. what = "done" => endpoint[ScriptName] = script.want BY <2>1 DEF ScriptInv
  <2> HIDE DEF what
  <2>4. ScriptInv' /\ script'.told = what BY <2>1, <2>2, TellKeeps
  <2> QED BY <2>1, <2>3, <2>4 DEF SaysDoneWhenSet
<1>6. ASSUME UNCHANGED theRest PROVE ScriptInv' /\ SaysDoneWhenSet
  BY <1>1, <1>6 DEF theRest
<1>7. CASE StartPoll \/ PollStep \/ ConnectionFails \/ AbortFires \/ Serve
  <2>1. UNCHANGED theRest
    BY <1>7 DEF StartPoll, PollStep, Resolve, NormalizeThrows, Receive, EndPoll, ConnectionFails,
                AbortFires, Serve, Record
  <2> QED BY <1>6, <2>1
<1>8. CASE Reload \/ PeerReloads \/ PeerStops \/ PeerStarts
  <2>1. UNCHANGED <<endpoint, script, mempool>>
    BY <1>8 DEF Reload, PeerReloads, PeerStops, PeerStarts, EditPeer
  <2> QED BY <1>1, <2>1
<1>9. CASE UNCHANGED exchangeVars BY <1>1, <1>9 DEF exchangeVars
<1> QED BY <1>2, <1>3, <1>4, <1>5, <1>7, <1>8, <1>9, SendKeeps, MineKeeps DEF ExchangeNext

-----------------------------------------------------------------------------
LEMMA PollSteps ==
  ASSUME ExchangeInputsTyped, PollInv, ScriptInv', [ExchangeNext]_exchangeVars PROVE PollInv'
<1>1. ASSUME UNCHANGED <<mine, server, poll, results, peerEdits, polls>>, scripts' \in 0..MaxScripts
      PROVE  PollInv'
  <2>1. ExchangeTypes' BY <1>1 DEF PollInv, ExchangeTypes, ScriptInv
  <2>2. ResultsGood' BY <1>1 DEF PollInv, ResultsGood
  <2>3. AskedInv' BY <1>1 DEF PollInv, AskedInv, Live
  <2>4. OneResultPerPeer' BY <1>1 DEF PollInv, OneResultPerPeer
  <2> QED BY <2>1, <2>2, <2>3, <2>4 DEF PollInv
<1>2. scripts \in 0..MaxScripts BY DEF PollInv, ExchangeTypes
<1>3. CASE StartScript
  <2>1. scripts < MaxScripts /\ scripts' = scripts + 1 /\ Quiet BY <1>3 DEF StartScript
  <2>2. MaxScripts \in Nat BY DEF ExchangeInputsTyped
  <2>3. scripts' \in 0..MaxScripts BY <1>2, <2>1, <2>2, OneMore
  <2> QED BY <1>1, <2>1, <2>3 DEF Quiet
<1>4. CASE ScriptFails \/ NothingToDo \/ SendSetText \/ Mine \/ Receipt \/ ReceiptTimesOut
  <2>1. Quiet /\ scripts' = scripts
    BY <1>4 DEF ScriptFails, NothingToDo, SendSetText, Mine, Receipt, ReceiptTimesOut
  <2> QED BY <1>1, <1>2, <2>1 DEF Quiet
<1>5. CASE Reload
  <2>1. PICK policy \in MyPolicies :
          /\ poll.pc = "idle" /\ peerEdits < MaxPeerEdits /\ peerEdits' = peerEdits + 1 /\ mine' = policy
          /\ UNCHANGED <<poll, results, polls, server, endpoint, script, mempool, scripts>>
    BY <1>5 DEF Reload
  <2>2. peerEdits \in 0..MaxPeerEdits BY DEF PollInv, ExchangeTypes
  <2>3. MaxPeerEdits \in Nat BY DEF ExchangeInputsTyped
  <2>4. peerEdits' \in 0..MaxPeerEdits BY <2>1, <2>2, <2>3, OneMore
  <2>5. ExchangeTypes' BY <2>1, <2>4 DEF PollInv, ExchangeTypes
  <2>6. ResultsGood' BY <2>1 DEF PollInv, ResultsGood
  <2>7. AskedInv' BY <2>1 DEF PollInv, AskedInv, Live
  <2>8. OneResultPerPeer' BY <2>1 DEF OneResultPerPeer
  <2> QED BY <2>5, <2>6, <2>7, <2>8 DEF PollInv
<1>6. CASE NormalizeThrows \/ EndPoll
  <2>1. poll' = Idle /\ results' \in {results, <<>>} /\ UNCHANGED <<mine, polls, theRest>>
    BY <1>6 DEF NormalizeThrows, EndPoll
  <2> QED BY <2>1, IdleKeeps
<1>7. CASE PeerReloads \/ PeerStops \/ PeerStarts
  <2>1. \A h \in Hosts : server[h] \in [up : BOOLEAN, policy : PeerPolicies, boot : PeerPolicies]
    BY DEF PollInv, ExchangeTypes, Servers
  <2>2. PICK peer \in Hosts, new \in [up : BOOLEAN, policy : PeerPolicies, boot : PeerPolicies] :
          EditPeer(peer, new)
    <3>1. CASE PeerReloads BY <2>1, <3>1 DEF PeerReloads
    <3>2. CASE PeerStops BY <2>1, <3>2 DEF PeerStops
    <3>3. CASE PeerStarts BY <3>3 DEF PeerStarts
    <3> QED BY <1>7, <3>1, <3>2, <3>3
  <2> QED BY <2>2, EditPeerKeeps
<1>8. CASE UNCHANGED exchangeVars BY <1>1, <1>2, <1>8 DEF exchangeVars
<1> QED BY <1>3, <1>4, <1>5, <1>6, <1>7, <1>8, StartPollKeeps, ResolveKeeps, WaitEndsKeeps, ServeKeeps
       DEF ExchangeNext, PollStep

ExchangeInv == PollInv /\ ScriptInv

LEMMA ExchangeInvariant ==
  /\ ExchangeInit => ExchangeInv
  /\ ExchangeInv /\ [ExchangeNext]_exchangeVars => ExchangeInv' /\ SaysDoneWhenSet
BY ExchangeStarts, ScriptStarts, ScriptSteps, PollSteps, ExchangeAssumption DEF ExchangeInv

(* A poll and its results keep their types, and nothing is evaluated past   *)
(* the policy's maximum (agent-peer-poll.ts:140-227).                       *)
THEOREM ExchangeTyped == ExchangeSpec => []ExchangeTypeOK
<1>1. ExchangeInit => ExchangeInv BY ExchangeInvariant
<1>2. ExchangeInv /\ [ExchangeNext]_exchangeVars => ExchangeInv' BY ExchangeInvariant
<1>3. ExchangeInv => ExchangeTypeOK BY PollIsSafe, ExchangeAssumption DEF ExchangeInv
<1> QED BY <1>1, <1>2, <1>3, PTL DEF ExchangeSpec

(* Whichever peers fail, stall or move, at any moment of a poll the listed  *)
(* peers are those with a result, in their order, and those still to come   *)
(* (agent-peer-poll.ts:209-227).                                            *)
THEOREM NoPeerIsSkipped == ExchangeSpec => []OneResultPerPeer
<1>1. ExchangeInit => ExchangeInv BY ExchangeInvariant
<1>2. ExchangeInv /\ [ExchangeNext]_exchangeVars => ExchangeInv' BY ExchangeInvariant
<1>3. ExchangeInv => OneResultPerPeer BY DEF ExchangeInv, PollInv
<1> QED BY <1>1, <1>2, <1>3, PTL DEF ExchangeSpec

(* What a poll takes from a peer was enabled there at some moment since it  *)
(* asked, however often the peer edits its policy or restarts meanwhile     *)
(* (agent.ts:285-287, 441-450).                                             *)
THEOREM OffersAreLive == ExchangeSpec => []OffersWereLive
<1>1. ExchangeInit => ExchangeInv BY ExchangeInvariant
<1>2. ExchangeInv /\ [ExchangeNext]_exchangeVars => ExchangeInv' BY ExchangeInvariant
<1>3. ExchangeInv => OffersWereLive BY PollIsSafe, ExchangeAssumption DEF ExchangeInv
<1> QED BY <1>1, <1>2, <1>3, PTL DEF ExchangeSpec

(* When the script says that the record is set, it is, also when an earlier *)
(* run's transaction was given up and mined later                           *)
(* (set-agent-endpoint.ts:191-233).                                         *)
THEOREM SetWhenDone == ExchangeSpec => DoneMeansSet
<1>1. ExchangeInit => ExchangeInv BY ExchangeInvariant
<1>2. ExchangeInv /\ [ExchangeNext]_exchangeVars => ExchangeInv' BY ExchangeInvariant
<1>3. ExchangeInv /\ [ExchangeNext]_exchangeVars => [SaysDoneWhenSet]_exchangeVars
  BY ExchangeInvariant
<1> QED BY <1>1, <1>2, <1>3, PTL DEF ExchangeSpec, DoneMeansSet, SaysDoneWhenSet

-----------------------------------------------------------------------------
(***************************************************************************)
(* The parts together, as module Waiting composes them: a step is one of    *)
(* one part, and leaves the others where they were.                        *)
(***************************************************************************)
WaitingInv == EditorInv /\ WatcherInv /\ PreviewInv /\ PickerInv /\ ExchangeInv

LEMMA WaitingStarts == WaitingInit => WaitingInv
<1> SUFFICES ASSUME WaitingInit PROVE WaitingInv OBVIOUS
<1>1. EditorInit /\ WatcherInit /\ PreviewInit /\ PickerInit /\ ExchangeInit BY DEF WaitingInit
<1>2. EditorInv BY <1>1, EditorStarts, EditorAssumption
<1>3. WatcherInv BY <1>1, WatcherStarts, WatcherAssumption
<1>4. PreviewInv BY <1>1, PreviewStarts, PreviewAssumption
<1>5. PickerInv BY <1>1, PickerStarts
<1>6. ExchangeInv BY <1>1, ExchangeInvariant
<1> QED BY <1>2, <1>3, <1>4, <1>5, <1>6 DEF WaitingInv

\* What a step of the whole is to each part.
LEMMA WaitingStepsApart ==
  ASSUME [WaitingNext]_waitingVars
  PROVE  /\ [EditorNext]_editorVars /\ [WatcherNext]_watcherVars /\ [PreviewNext]_previewVars
         /\ [PickerNext]_pickerVars /\ [ExchangeNext]_exchangeVars
<1>1. CASE UNCHANGED waitingVars BY <1>1 DEF waitingVars
<1>2. CASE WaitingNext BY <1>2 DEF WaitingNext
<1> QED BY <1>1, <1>2

LEMMA WaitingSteps == WaitingInv /\ [WaitingNext]_waitingVars => WaitingInv'
<1> SUFFICES ASSUME WaitingInv, [WaitingNext]_waitingVars PROVE WaitingInv' OBVIOUS
<1>1. EditorInv' BY WaitingStepsApart, EditorStep, EditorAssumption DEF WaitingInv
<1>2. WatcherInv' BY WaitingStepsApart, WatcherStep, WatcherAssumption DEF WaitingInv
<1>3. PreviewInv' BY WaitingStepsApart, PreviewStepsKeep, PreviewAssumption DEF WaitingInv
<1>4. PickerInv' BY WaitingStepsApart, PickerSteps DEF WaitingInv
<1>5. ExchangeInv' BY WaitingStepsApart, ExchangeInvariant DEF WaitingInv
<1> QED BY <1>1, <1>2, <1>3, <1>4, <1>5 DEF WaitingInv

LEMMA WaitingInvariant == WaitingSpec => []WaitingInv
  BY WaitingStarts, WaitingSteps, PTL DEF WaitingSpec

(* Whatever the other parts do, each keeps its state within its types       *)
(* (policy/page.tsx:27, operating-policy.ts:269, swap/page.tsx:22,          *)
(* token-picker.tsx:36, agent-peer-poll.ts:200).                            *)
THEOREM WaitingTyped == WaitingSpec => []WaitingTypeOK
<1>1. WaitingInv => EditorTypeOK /\ WatcherTypeOK BY DEF WaitingInv, EditorInv, WatcherInv
<1>2. WaitingInv => PreviewTypeOK BY PreviewSafe, PreviewAssumption DEF WaitingInv
<1>3. WaitingInv => PickerTypeOK BY PickerIsSafe DEF WaitingInv
<1>4. WaitingInv => ExchangeTypeOK BY PollIsSafe, ExchangeAssumption DEF WaitingInv, ExchangeInv
<1>5. WaitingInv => WaitingTypeOK BY <1>1, <1>2, <1>3, <1>4 DEF WaitingTypeOK
<1> QED BY <1>5, WaitingInvariant, PTL

(* An answer that is acted on is the answer to what was asked last, in each *)
(* of the parts and whatever the others do (policy-draft route.ts:81,       *)
(* swap/page.tsx:38, tokens route.ts:149, agent-peer-poll.ts:209,           *)
(* agent.ts:441).                                                           *)
THEOREM AnswersFit == WaitingSpec => []AnswersFitQuestions
<1>1. WaitingInv => ValidIsRunnable BY DEF WaitingInv, EditorInv
<1>2. WaitingInv => AnswersTheLast BY PreviewSafe, PreviewAssumption DEF WaitingInv
<1>3. WaitingInv => CommonPairsFirst BY PickerIsSafe DEF WaitingInv
<1>4. WaitingInv => OneResultPerPeer BY DEF WaitingInv, ExchangeInv, PollInv
<1>5. WaitingInv => OffersWereLive BY PollIsSafe, ExchangeAssumption DEF WaitingInv, ExchangeInv
<1>6. WaitingInv => AnswersFitQuestions BY <1>1, <1>2, <1>3, <1>4, <1>5 DEF AnswersFitQuestions
<1> QED BY <1>6, WaitingInvariant, PTL

(* What comes late or out of order undoes nothing: not an older draft, a    *)
(* load after close(), or a list after the picker is gone                   *)
(* (policy/page.tsx:46, operating-policy.ts:285, token-picker.tsx:45).      *)
THEOREM LateUndoesNothing == WaitingSpec => LateChangesNothing
<1>1. WaitingInv /\ [WaitingNext]_waitingVars => [shown'.version >= shown.version]_editorVars
  BY WaitingStepsApart, EditorForward DEF WaitingInv
<1>2. WaitingInv /\ [WaitingNext]_waitingVars => [closed => delivered' = delivered]_watcherVars
  BY WaitingStepsApart, WatcherQuiet DEF WaitingInv
<1>3. WaitingInv /\ [WaitingNext]_waitingVars
        => [~mounted => tokens' = tokens /\ selected' = selected]_pickerVars
  BY WaitingStepsApart, PickerGone DEF WaitingInv
<1>4. WaitingSpec => [][WaitingNext]_waitingVars BY PTL DEF WaitingSpec
<1>5. WaitingSpec => NeverBackwards BY <1>1, <1>4, WaitingInvariant, PTL DEF NeverBackwards
<1>6. WaitingSpec => QuietAfterClose BY <1>2, <1>4, WaitingInvariant, PTL DEF QuietAfterClose
<1>7. WaitingSpec => LateListIsIgnored BY <1>3, <1>4, WaitingInvariant, PTL DEF LateListIsIgnored
<1> QED BY <1>5, <1>6, <1>7, PTL DEF LateChangesNothing

(* Taken together the parts behave as each does by itself, but for when     *)
(* they must go on, so that what is proved of one alone holds of it here    *)
(* (policy/page.tsx:46, operating-policy.ts:269, swap/page.tsx:38,          *)
(* token-picker.tsx:44, agent-peer-poll.ts:200).                            *)
THEOREM WaitingIsItsParts ==
  WaitingSpec => /\ EditorInit /\ [][EditorNext]_editorVars
                 /\ WatcherInit /\ [][WatcherNext]_watcherVars
                 /\ PreviewInit /\ [][PreviewNext]_previewVars
                 /\ PickerInit /\ [][PickerNext]_pickerVars
                 /\ ExchangeInit /\ [][ExchangeNext]_exchangeVars
<1>1. WaitingInit => EditorInit /\ WatcherInit /\ PreviewInit /\ PickerInit /\ ExchangeInit
  BY DEF WaitingInit
<1>2. WaitingSpec => WaitingInit /\ [][WaitingNext]_waitingVars BY PTL DEF WaitingSpec
<1>3. WaitingSpec => [][EditorNext]_editorVars BY <1>2, WaitingStepsApart, PTL
<1>4. WaitingSpec => [][WatcherNext]_watcherVars BY <1>2, WaitingStepsApart, PTL
<1>5. WaitingSpec => [][PreviewNext]_previewVars BY <1>2, WaitingStepsApart, PTL
<1>6. WaitingSpec => [][PickerNext]_pickerVars BY <1>2, WaitingStepsApart, PTL
<1>7. WaitingSpec => [][ExchangeNext]_exchangeVars BY <1>2, WaitingStepsApart, PTL
<1> QED BY <1>1, <1>2, <1>3, <1>4, <1>5, <1>6, <1>7, PTL
=============================================================================
