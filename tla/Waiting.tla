------------------------------- MODULE Waiting -------------------------------
(***************************************************************************)
(* What waits for timers, files and answers, one at a time: the policy      *)
(* editor, the swap preview and the token picker of the site, the watcher   *)
(* of the operating policy's file, and the daemon's poll of its peers with  *)
(* the script that sets their endpoints.  `part` says which of them a       *)
(* behavior is of; the others stay in an initial state.                     *)
(***************************************************************************)
EXTENDS PolicyEditor, PolicyWatcher, SwapPreview, TokenPicker, PeerExchange

CONSTANT ScriptsMeanwhile   \* bounds the runs of the script beside a poll

VARIABLE part
waitingVars == <<part, editorVars, watcherVars, previewVars, pickerVars, exchangeVars>>

Parts == {"editor", "watcher", "preview", "picker", "peers", "script"}

WaitingInit ==
  /\ part \in Parts
  /\ EditorInit /\ (part # "editor" => fields = CHOOSE f \in DraftForms : TRUE)
  /\ WatcherInit /\ (part # "watcher" => ~setting.slow /\ ~setting.throws)
  /\ PickerInit /\ (part # "picker" => upstream = <<>>)
  /\ ExchangeInit
  /\ part # "peers" =>
       /\ mine = CHOOSE policy \in MyPolicies : TRUE
       /\ server["h"].policy = CHOOSE policy \in PeerPolicies : TRUE
  \* The recipient's tier is compared with the gate's floor only.
  /\ PreviewInit /\ world.recipient.tier = 1
  /\ part # "preview" =>
       /\ form = CHOOSE f \in SwapForms : TRUE
       /\ world.recipient = [addr |-> TRUE, ids |-> TRUE, tier |-> 1, lineage |-> TRUE]
       /\ world.policy = NoPolicy

WaitingNext ==
  \/ /\ part = "editor" /\ EditorNext
     /\ UNCHANGED <<part, watcherVars, previewVars, pickerVars, exchangeVars>>
  \/ /\ part = "watcher" /\ WatcherNext
     /\ UNCHANGED <<part, editorVars, previewVars, pickerVars, exchangeVars>>
  \/ /\ part = "preview" /\ PreviewNext
     /\ UNCHANGED <<part, editorVars, watcherVars, pickerVars, exchangeVars>>
  \/ /\ part = "picker" /\ PickerNext
     /\ UNCHANGED <<part, editorVars, watcherVars, previewVars, exchangeVars>>
  \/ /\ part = "peers" /\ ExchangeNext /\ scripts' <= ScriptsMeanwhile
     /\ UNCHANGED <<part, editorVars, watcherVars, previewVars, pickerVars>>
  \/ /\ part = "script" /\ ExchangeNext /\ peerEdits' = 0 /\ polls' = 0
     /\ UNCHANGED <<part, editorVars, watcherVars, previewVars, pickerVars>>

\* The fairness of each part's specification.
WaitingSpec ==
  /\ WaitingInit /\ [][WaitingNext]_waitingVars
  /\ WF_editorVars(part = "editor" /\ DebounceFires)
  /\ WF_editorVars(part = "editor" /\ (DraftAnswered \/ DraftFails))
  /\ WF_watcherVars(part = "watcher" /\ Event)
  /\ WF_watcherVars(part = "watcher" /\ Fire)
  /\ WF_watcherVars(part = "watcher" /\ Read)
  /\ WF_watcherVars(part = "watcher" /\ Deliver)
  /\ WF_previewVars(part = "preview" /\ Schema)
  /\ WF_previewVars(part = "preview" /\ ResolveRecipient)
  /\ WF_previewVars(part = "preview" /\ ReadPolicy)
  /\ WF_previewVars(part = "preview" /\ ResolveSwapper)
  /\ WF_previewVars(part = "preview" /\ Verdict)
  /\ WF_pickerVars(part = "picker" /\ Load)
  /\ WF_pickerVars(part = "picker" /\ Loaded)
  /\ WF_exchangeVars(part = "peers" /\ PollStep)
  /\ WF_exchangeVars(part = "peers" /\ AbortFires)
-----------------------------------------------------------------------------
\* MirrorsThePipeline and DoneMeansSet are the modules' own; these are conjunctions of
\* theirs, where each is stated and explained.

(* Each part keeps its state within its types (policy/page.tsx:27,          *)
(* operating-policy.ts:269, swap/page.tsx:22, token-picker.tsx:36,          *)
(* agent-peer-poll.ts:200).                                                 *)
WaitingTypeOK == EditorTypeOK /\ WatcherTypeOK /\ PreviewTypeOK /\ PickerTypeOK /\ ExchangeTypeOK

(* An answer that is acted on is the answer to what was asked last: the     *)
(* command copied for a valid draft publishes it (policy-draft              *)
(* route.ts:81), a preview is of the last submission (swap/page.tsx:38), a  *)
(* list of tokens has the curated ones of its chain first (tokens           *)
(* route.ts:149), a poll has one result for each peer                       *)
(* (agent-peer-poll.ts:209), and what it takes was enabled since it asked   *)
(* (agent.ts:441).                                                          *)
AnswersFitQuestions == /\ ValidIsRunnable
                       /\ AnswersTheLast
                       /\ CommonPairsFirst
                       /\ OneResultPerPeer
                       /\ OffersWereLive

(* What comes late or out of order undoes nothing: the editor never goes    *)
(* back to an older draft (policy/page.tsx:46), the callback is not called  *)
(* after close() (operating-policy.ts:285), and a list that comes after the *)
(* picker is gone changes nothing (token-picker.tsx:45).                    *)
LateChangesNothing ==
  NeverBackwards /\ QuietAfterClose /\ LateListIsIgnored

(* Nothing waits for ever: when the typing stops, the verdict is on what is *)
(* in the fields (policy/page.tsx:46), every save is made known             *)
(* (operating-policy.ts:285), the page and the picker stop loading          *)
(* (swap/page.tsx:77, token-picker.tsx:44), and a stalled peer does not     *)
(* hold up a poll (agent-peer-poll.ts:140).                                 *)
NothingWaitsForever == /\ part = "editor" => Settles
                       /\ EventuallyCurrent
                       /\ LoadingEnds
                       /\ part = "picker" => LoadSettles
                       /\ PollEnds
=============================================================================
