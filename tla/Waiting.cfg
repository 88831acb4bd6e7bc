SPECIFICATION WaitingSpec
CONSTANTS
  NoForm = NoForm
  NoPolicy = NoPolicy
  DraftForms <- MCDraftForms
  MaxDraftEdits = 3
  MaxSaves = 3
  SwapForms <- MCSwapForms
  Policies <- MCPolicies
  MaxSubmits = 2
  MaxNameEdits = 1
  Upstreams <- MCUpstreams
  Fallback <- MCFallback
  Curated <- MCCurated
  Collation <- MCCollation
  Chain = "base"
  Default <- MCDefault
  PeerNames = {"p", "q"}
  BadName = "bad"
  Hosts = {"h"}
  Stranger = "stranger"
  Pairs = {"x", "y"}
  MyPolicies <- MCMyPolicies
  PeerPolicies <- MCPeerPolicies
  FirstEndpoints <- MCEndpoints
  Settable <- MCSettable
  ScriptName = "p"
  MaxPeerEdits = 2
  MaxPolls = 1
  MaxScripts = 3
  ScriptsMeanwhile = 1
CHECK_DEADLOCK FALSE
INVARIANTS
  WaitingTypeOK
  AnswersFitQuestions
  MirrorsThePipeline
PROPERTIES
  LateChangesNothing
  NothingWaitsForever
  DoneMeansSet
