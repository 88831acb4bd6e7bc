---------------------------- MODULE PolicyEditor ----------------------------
(***************************************************************************)
(* Editing a RiskPolicy in the browser and publishing it from the command   *)
(* line: the /policy page, which posts the form some time after each change *)
(* and shows what comes back (packages/site/src/app/policy/page.tsx), the   *)
(* route that checks it (api/policy/draft/route.ts), and `tru policy        *)
(* publish`, run with the command the page offers for copying.              *)
(* A form is told apart by what the two checkers look at.                   *)
(***************************************************************************)
EXTENDS Integers

CONSTANTS DraftForms,      \* [name, size, tokens, bytes]: see DraftFormType
          NoForm, MaxDraftEdits

DraftFormType == [name   : {"", "ab", "alice", "bob"},   \* "ab" has two characters
             size   : {"zero", "positive"},
             tokens : {"none", "known", "unknown"},
             bytes  : Nat]                 \* of the inline JSON
SoftCap == 128

EditorInputsTyped == DraftForms \subseteq DraftFormType /\ NoForm \notin DraftForms /\ MaxDraftEdits \in Nat
ASSUME EditorAssumption == EditorInputsTyped

VARIABLES fields, version,  \* what is in the fields, and how often it was changed
          debounce,          \* is the debounce timer of this version running?
          drafts,       \* requests without an answer: the versions and forms they carry
          shown,          \* what the page shows: nothing, a draft or an error
          clip,           \* the draft whose command was copied
          run             \* what running that command did
editorVars == <<fields, version, debounce, drafts, shown, clip, run>>

NoDraft == [of |-> NoForm, valid |-> FALSE, needsIpfs |-> FALSE]
Nothing == [kind |-> "nothing", version |-> 0, draft |-> NoDraft]
NotRun == [outcome |-> "none", complete |-> FALSE]

EditorInit == /\ fields \in DraftForms /\ version = 1 /\ debounce = TRUE /\ drafts = {}
        /\ shown = Nothing /\ clip = NoDraft /\ run = NotRun

-----------------------------------------------------------------------------
\* The page.

\* Mutant: the effect has no cleanup, so no answer is out of date.
CurrentAlways(request) == TRUE

\* The cleanup of the effect cancels the request of every earlier version.
Current(request) == request.version = version

\* A change of any field: the timer starts anew.
EditField(f) == /\ version <= MaxDraftEdits /\ f # fields
           /\ fields' = f /\ version' = version + 1 /\ debounce' = TRUE
           /\ UNCHANGED <<drafts, shown, clip, run>>

DebounceFires == /\ debounce /\ debounce' = FALSE
              /\ drafts' = drafts \cup {[version |-> version, form |-> fields]}
              /\ UNCHANGED <<fields, version, shown, clip, run>>

Show(request, kind, draft) ==
  /\ drafts' = drafts \ {request}
  /\ shown' = IF Current(request) THEN [kind |-> kind, version |-> request.version, draft |-> draft] ELSE shown
  /\ UNCHANGED <<fields, version, debounce, clip, run>>

-----------------------------------------------------------------------------
\* The route.

\* The schema of the request: answered 400 otherwise.  A name is optional, but not one of
\* two characters.
WellFormed(f) == f.size = "positive" /\ f.name # "ab"

\* Every token known, and at least one.
Valid(f) == f.tokens = "known"

NeedsIpfs(f) == f.bytes > SoftCap

DraftOf(f) == [of |-> f, valid |-> Valid(f), needsIpfs |-> NeedsIpfs(f)]

DraftAnswered == \E request \in drafts :
  IF WellFormed(request.form) THEN Show(request, "draft", DraftOf(request.form))
  ELSE Show(request, "error", NoDraft)

DraftFails == \E request \in drafts : Show(request, "error", NoDraft)

\* The copy button, there with every draft.
Copy == /\ shown.kind = "draft" /\ clip' = shown.draft /\ run' = NotRun
        /\ UNCHANGED <<fields, version, debounce, drafts, shown>>

-----------------------------------------------------------------------------
\* tru policy publish with the flags of the command.

\* Mutant: the threshold is compared with the request's storage flag only.
StorageAsFlagged(f, flag) == flag

\* The flag, or by size.
Storage(f, flag) == IF flag = "ipfs" \/ f.bytes >= SoftCap THEN "ipfs" ELSE "inline"

Outcome(f, flag, env) ==
  IF \/ f.name = "" /\ ~env.primaryName
     \/ ~env.key
     \/ f.tokens # "known"
     \/ Storage(f, flag) = "ipfs" /\ ~env.jwt
  THEN "threw" ELSE Storage(f, flag)

\* The flags of the command: the name only when there is one, --storage only when too long.
CommandOf(draft) == [form |-> draft.of, storage |-> IF draft.needsIpfs THEN "ipfs" ELSE "auto"]

RunCommand == \E env \in [primaryName : BOOLEAN, key : BOOLEAN, jwt : BOOLEAN] :
  /\ clip # NoDraft /\ run = NotRun
  /\ run' = [outcome |-> Outcome(CommandOf(clip).form, CommandOf(clip).storage, env),
             complete |-> env.key /\ (clip.of.name # "" \/ env.primaryName)
                          /\ (env.jwt \/ clip.of.bytes < SoftCap)]
  /\ UNCHANGED <<fields, version, debounce, drafts, shown, clip>>

EditorNext == (\E f \in DraftForms : EditField(f)) \/ DebounceFires \/ DraftAnswered \/ DraftFails \/ Copy \/ RunCommand

\* Timers fire, and a fetch is answered or rejected.
EditorSpec == /\ EditorInit /\ [][EditorNext]_editorVars
              /\ WF_editorVars(DebounceFires) /\ WF_editorVars(DraftAnswered \/ DraftFails)
-----------------------------------------------------------------------------
EditorTypeOK ==
  /\ fields \in DraftForms /\ version \in 1..(MaxDraftEdits + 1) /\ debounce \in BOOLEAN
  /\ drafts \subseteq [version : 1..version, form : DraftForms]
  /\ shown.kind \in {"nothing", "draft", "error"} /\ shown.version <= version
  /\ run.outcome \in {"none", "threw", "inline", "ipfs"}
  /\ clip.needsIpfs => run.outcome # "inline"

(* Answers may come in any order, but the page never goes back to an older  *)
(* version of the form than it has shown (page.tsx:46-84).                  *)
NeverBackwards == [][shown'.version >= shown.version]_editorVars

(* When the typing stops, the page ends up showing the verdict on what is   *)
(* in the fields (page.tsx:46-84).                                          *)
Settles == <>[](shown.version = version)

(* "the editor never reports a 'valid' draft that produces an unrunnable    *)
(* copy-paste command" (route.ts:81-82): with the secrets it needs at hand, *)
(* the copied command of a valid draft publishes.                           *)
ValidIsRunnable == clip.valid /\ run.complete => run.outcome # "threw"
=============================================================================
