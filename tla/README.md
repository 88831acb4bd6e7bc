# Trust-swap: a TLA+ development

Trust-swap lets agents swap tokens under terms graded by the trust tiers of both
sides. An off-chain **oracle** reads the tiers and the risk policies of swapper and
recipient from ENS and signs an *attestation*; a contract on Base, the **router**,
settles a swap only with such an attestation, once, in time, under the cap and at
the fee of the stricter tier; an autonomous **daemon** trades through them from a
policy file its operator edits, and settles the intents its peers advertise.

This directory models the router, the oracle, the daemon and the code around them:
the swap pipeline and its cache, the risk policies, the clients, the command line,
the interactive parts of the site and the operator's resumable scripts. It checks and
proves what they promise. Source paths below are relative to the repository.

## Inventory

| Component | Source | State | Operations | Talks to | Hard behaviours | Correct when |
|---|---|---|---|---|---|---|
| Router | `packages/contracts/src/TrustSwapRouter.sol` | `usedNonce`, `approvalsReady`, balances while a call runs | `gatedSwap`, `setApprovals` | fee recipient, input token, Universal Router, each an external call | re-entry without a lock, nested reverts, expiry, integer fees | each (swapper, nonce) settles once; nothing is kept; stricter terms win; only the attested swapper is charged |
| Daemon | `packages/cli/src/commands/agent.ts`, `agent-peer-poll.ts` | `AgentState`, signer, policy, `lastPeerPollAt`, `shuttingDown` | the tick: reload, rebuild signer, poll and settle peers, own intent, sleep; signals | policy file, peers over HTTP, orchestrate | awaits during which clock, file and signals move; two sources of swaps sharing counters; restart | limits hold over both sources; signer follows policy; shutdown is prompt and final |
| Daemon signer | `agent.ts` `makeKernelSigner` | operations in flight | `execute` | bundler | receipt times out, operation lands late | counters agree with the chain |
| Operating policy | `packages/core/src/operating-policy.ts` | the file | load, parse, watch | operator, skill | edits at any time, overlapping loads | never acts on a malformed policy |
| Oracle | `packages/oracle/src/index.ts` | none between requests | `POST /attest` | ENS, Trading API | several reads at several blocks, valuations failing apart, random nonces | signs only what both policies allow |
| Orchestrate | `packages/core/src/orchestrate.ts` | locals of a pipeline of nine awaits | resolve, gate, preflight, quote, attest, execute | resolver cache, Trading API, oracle, signer | reads used after later awaits, stale entries | sends only what was attested; what a stale entry does is bounded |
| Resolver cache | `packages/core/src/resolver-cache.ts` | name to (profile, expiry) | cached lookup | resolver | overlapping lookups, lagging replicas, layers that fail | staleness is bounded, bad reads pass, a refresh takes effect |
| RiskPolicy | `packages/core/src/risk-policy.ts` | ENS records | resolve, publish | ENS, endpoints | failing reads, fallbacks | the first source that answers decides |
| Tier table | `packages/core/src/policy.ts` | none | caps and fees | - | must equal the contract's | see `TierBucket` |
| Policy watcher | `operating-policy.ts` `watchOperatingPolicy` | debounce timer, loads in progress | event, load, callback, close | file system | overlapping loads, throwing callback | the last save is made known, nothing after close |
| Trading client | `packages/core/src/trading.ts` | none; its callers hold quotes | value, quote, swap, status | Trading API | quotes go stale while held, malformed answers | nothing stale is sent, no valuation is invented |
| `tru swap` | `packages/cli/src/commands/swap.ts`, `utils/signer.ts`, `utils/tokens.ts`, `index.ts` | one process per run | options, signer, router, exit code | orchestrate, bundler | receipt times out, operator retries | a dry run sends nothing, exit code 0 means landed |
| Peer exchange | `agent-peer-poll.ts`, status server of `agent.ts`, `scripts/set-agent-endpoint.ts` | results of a poll, served policy, endpoint record | poll, serve, set endpoint | peers over HTTP, ENS | stalling and failing peers, edits meanwhile | peers fail apart, the poll ends |
| Policy editor | `packages/site/src/app/policy/page.tsx`, `api/policy/draft/route.ts`, `commands/policy.ts` | form, debounce timer, drafts in flight | edit, draft, copy, publish | draft route, `tru policy publish` | answers out of order, 128-byte boundary | a valid draft's command publishes |
| Swap preview | `app/swap/page.tsx`, `api/gate/route.ts` | form, answer | submit, gate | ENS | late answers, a second copy of the pipeline's checks | answers the last submission, as the pipeline would |
| Token list | `api/tokens/route.ts`, `token-picker.tsx` | list, selection | load, search, select | upstream list | late or missing list, colliding entries | curated tokens first and correct |
| Provisioning | `scripts/provision-daemon.ts` | four files, ENS records, funded addresses | five phases | chain, operator | crash at any await, late transactions, retries | funds recoverable, record matches chain |
| MCP, other scripts, infra, vendored resolver | see `PROJECT.json` | none, or that of a one-shot run | printing, set-up | all of the above | - | - |

Interactions: the daemon calls orchestrate for each attempt; orchestrate resolves
both sides (through the cache), asks the oracle for an attestation bound to the hash
of the payload, and has the signer send a user operation whose call is `gatedSwap`.
The router trusts nothing but the oracle's signature. The policy file is shared
between the operator's editor and the daemon.

`PROJECT.json` lists the hazards, each at its line, with the properties that cover
it or why none does yet.

## Modules

| Module | Models |
|---|---|
| `TierBucket` | tier ordinals, join, caps, fees |
| `TrustSwapRouter` | the contract and the calls in progress on it |
| `AttestationLedger` | what the router promises, seen from completed transactions |
| `TrustSwapRouterProofs` | theorems about the router: types, nonces, what it moves, its refinement |
| `DaemonAgent` | the loop, constraints, peer polls, shutdown, restart |
| `DaemonAgentProofs` | theorems about the daemon: types, keys, turns, shutdown, its refinement |
| `SwapLimiter` | what the constraints promise, over the history of attempts |
| `DaemonOnChain` | `DaemonAgent` composed with the user operations it sends |
| `DaemonOnChainProofs` | theorems about the daemon against the chain |
| `Totals`, `TotalsProofs` | the total of a sequence of amounts; lemmas about it |
| `TrustSwapOracle` | `POST /attest`, one action per await |
| `Settlement` | oracle and router composed, while tiers change |
| `SettlementProofs` | theorems about that composition |
| `Orchestrate` | the swap pipeline over cache and oracle, one action per await |
| `ResolverCache` | concurrent lookups of one name |
| `RiskPolicyRecord` | publishing and resolving one name's risk policy |
| `PolicyWatcher` | `watchOperatingPolicy` |
| `PeerExchange` | the poll, the status servers it asks, the endpoint script |
| `TradingClient` | the Trading API client and a quote its caller holds |
| `SwapCommand` | invocations of `tru swap` |
| `PolicyEditor` | the policy page, its draft route, the command it copies |
| `SwapPreview` | the swap page and the gate route |
| `TokenPicker` | the token route and the picker |
| `ProvisionDaemon` | the provisioning script, the chain and the operator |
| `SwapPath` | `ResolverCache`, `RiskPolicyRecord`, `TrustSwapOracle`, `Orchestrate` side by side |
| `Commands` | `TradingClient`, `SwapCommand`, `ProvisionDaemon` side by side |
| `Waiting` | `PolicyEditor`, `PolicyWatcher`, `SwapPreview`, `TokenPicker`, `PeerExchange` side by side |
| `SwapPathProofs`, `CommandsProofs`, `WaitingProofs` | theorems about these three and the modules in them |
| `MCTrustSwapRouter`, `MCDaemonAgent`, `MCDaemonOnChain`, `MCSettlement`, `MCSwapPath`, `MCCommands`, `MCWaiting` | values for TLC of the constants of the module they are named after |

`SwapPath`, `Commands` and `Waiting` put several modules side by side that share no
state. A variable `part`, chosen in the initial state, says which of them a behaviour is
of; the others stay as they are. A run then explores the sum of the modules' state
spaces, not their product, and its properties are theirs or conjunctions of theirs. They
extend their modules (hence names such as `OracleNext`, `ClientNext`, `EditorNext`), and
that a behaviour of the whole is one of each part is proved (`PathIsItsParts`,
`CommandsAreTheirParts`, `WaitingIsItsParts`). The compositions in which modules do
share state are `DaemonOnChain` and `Settlement`.

### Router

`gatedSwap` leaves the contract up to three times: to the fee recipient, to the
input token, to the Universal Router. Each may run any code, and that code may call
`gatedSwap` again. `frames` is the stack of calls that have not returned: a frame is
suspended in `"fee"`, `"pull"` or `"forward"`, or is foreign code (`"caller"`) that
will call the router, perhaps several times. `chain` is all a revert rolls back, and
every frame keeps the `chain` it found (`entry`) for that. One action is the code from
one external call to the next:

* `EnterWithFee`: steps 1 to 8 of the source up to the fee transfer;
  `EnterFeeless`: steps 1 to 9 when the fee is 0;
* `FeeReturns`, `PullReturns`, `SwapReturns`: from the return of a call to the next
  one, or to the event and the end;
* `Reverts`: any frame fails; `chain` goes back to its `entry`;
* `SetApprovals` by anybody, in the middle of a swap too; `NextBlock` moves the clock
  only between transactions.

`Admissible` is the conjunction of the seven checks; a call that fails one reverts
before it has done anything and is a stuttering step. Signatures and hashes are taken
as unforgeable and injective: `OracleSigned` is the set of signed attestations, and a
`calldataHash` is the payload itself. The Universal Router is seen as the router sees
it: how much of `tokenIn` it takes (`spend`), and success or failure.

`AttestationLedger` has no stack and no nonce table: a set of settled swaps, which
grows per transaction by swaps that were signed, in time and within their terms, no
two with the same nonce. `LedgerSpec` states that the committed part of the router's
log implements it; the refinement mapping takes the log of the outermost `entry`.

### Daemon

`DaemonAgent` has one action for the code between two awaits of `runAgentRun`. `pc`
names the await: `"load"` (top of the loop), `"rebuild"`, `"poll"`, `"polling"`,
`"settle"`, `"peerSwap"`, `"regular"`, `"regularSwap"`, `"sleep"`, then `"stopped"`.
`StartTick` with `Reload` or `ReloadFails` is the increment of `tickCount` and the
re-read; a re-read finds any policy, for the operator may edit the file at any time.
`SettleOffer` and `RunIntent` check the constraints in the state of that moment and
begin an attempt; `SwapEnds` applies what the code does when orchestrate returns or
throws. Between them `Tick` moves the clock, `Shutdown` sets the flag, `Crash` loses
everything. `history` is an observer: no action reads it but for the attempt in
flight, whose arguments are locals of the code; of these `place`, where an own intent
stands in its list, is there for the round-robin.

`SwapLimiter` states the promise over `history` alone, with no counter: attempts do
not overlap, keep their distance, none on a day that is known to have spent the cap,
none outside the schedule, none after the run of failures that halts. `LimiterSpec`
says that `AgentState` with its counters implements it, for peers' intents and the
daemon's own together, whatever the operator edits and whenever midnight falls.

`DaemonOnChain` adds the operation in flight, those nobody awaits any more and those
that landed. An attempt succeeds only when its receipt arrives (`ReceiptArrives`);
it fails with its operation unsent, reverted, still floating or landed
(`AttemptFails`); a crash leaves it floating too (`Dies`).

### Oracle, pipeline, cache, records

`TrustSwapOracle` follows one request. What a read finds is chosen when it is made,
twice over: `facts` is the truth, `profile` and `policy` what the worker gets of it,
possibly degraded. The worker never looks at `facts`; the properties compare the
attestation with it. `Orchestrate` gives each of the nine awaits an action; the records
may change between any two, the cache holds an older profile or none, and the oracle
reads afresh. Its state `run` is the function's locals. `ResolverCache` opens the
cache itself: a lookup that misses awaits the resolver and whoever comes back last
writes the entry, with an expiry counted from the writing. `RiskPolicyRecord` has the
publisher (pin, look up, send), the chain (`latest`, `final`, a mempool) and the reader
with its block tag; `sure` remembers whether anything changed during a lookup. Its
`FetchFromIpfs` has no branch that succeeds, as the code has none.

A profile is the answer to several reads, each of which may fail by itself or be answered
by a lagging replica: `TrustSwapOracle` and `Orchestrate` let a read lose any part of a
tier, `ResolverCache` has `Layers`, reads each at most `MaxLag` behind, and a profile that
is whole, lacks something or is a flake.

`Settlement` puts oracle and router together. `Ask` and `Sign` are two moments of a
request, the latency between them with what a replica lags behind; `Submit` is a `gatedSwap` of `TrustSwapRouter` with an attestation that was
handed out, `EditRecords` changes tiers at any time, and `heldAt` observes when each
name last had each tier.

### Clients, pages, scripts

`PeerExchange` is what lies behind `PollReturns` of `DaemonAgent`: peers in turn, each
through the record of its name, with the answer given by the peer's status server from
the policy in its memory. `TradingClient` lets the API answer anything and a quote
expire while its caller holds it. `SwapCommand` takes orchestrate as one step and has
what is around it: options, environment, signer, router address, exit code. Its
operator sees nothing but the exit code and starts it again.

`PolicyEditor`, `SwapPreview` and `TokenPicker` each model a React component and the
route it asks: an action per user input, timer, request, answer and unmount. Drafts in
flight are a set, because the route may answer in any order. The token route's list is
the entries of both lists in the order they are sorted by: each stands behind as many as
come before it. `Collation` is `localeCompare`. `PolicyWatcher` has saves,
events, the debounce timer and a set of loads; on a `setting` that is `slow` a load may
outlast the debounce window, on one that `throws` the callback may throw.

`ProvisionDaemon` has one action per phase step and file write, `Fail` at every await,
the chain on which sent transactions are mined later, and the operator, who funds what
was printed, registers the name, deletes what the script tells them to and runs it
again. A kernel is a function of its owner key, so a key stands for both.

## Runs

| Run | Config | Shows |
|---|---|---|
| `router` | `TrustSwapRouter.cfg` | the invariants of `gatedSwap` under re-entry and reverts, and that it implements the ledger |
| `router_residue` | `RouterResidue.cfg` | *violation*: tokens can stay in the router |
| `daemon` | `DaemonAgent.cfg` | the daemon implements the limiter; signer; shutdown |
| `daemon_shutdown` | `DaemonShutdown.cfg` | a signalled daemon stops |
| `daemon_slots` | `RegularSlot.cfg` | *violation*: peers starve the daemon's own intents |
| `onchain` | `DaemonOnChain.cfg` | the counters against the chain |
| `onchain_cap` | `DailySpend.cfg` | *violation*: a lost receipt lets a day go past its cap |
| `settlement` | `Settlement.cfg` | a swap settles by tiers held at most a time to live and a request ago; attestations survive reverts |
| `swap_path` | `SwapPath.cfg` | from a name to an attested swap: see below |
| `record_pin` | `RecordPin.cfg` | *violation*: a policy published as a pin is never found |
| `commands` | `Commands.cfg` | what an operator starts: see below |
| `waiting` | `Waiting.cfg` | what waits for timers, files and answers: see below |

The properties of `swap_path`, `commands` and `waiting`, each explained where its module states it (besides
`PathTypeOK`, `CommandsTypeOK` and `WaitingTypeOK`, their modules' type invariants):

| Property | Module | Says |
|---|---|---|
| `StalenessBounded` | `ResolverCache` | how old what a lookup serves may be, however lookups overlap and replicas lag |
| `RefreshTakesEffect` | `ResolverCache` | what a lookup past the cache gets, and how far a slower one may undo it |
| `BadReadsPass` | `ResolverCache` | a flake reaches one caller only, a profile that lacks a layer is served no longer than its entry lives |
| `LookupIsExact` | `RiskPolicyRecord` | an undisturbed lookup finds the first policy in force, or throws for one of two causes |
| `PublishedIsSound` | `RiskPolicyRecord` | `FinalizedReaderIsStable`, `RecordIsPinned`, `TextRecordParses` |
| `SignedWithinBothPolicies` | `TrustSwapOracle` | a signature satisfies, in truth, both policies that could be read, and neither side is without a tier, whatever reads and valuations fail |
| `RefusalHasCause` | `TrustSwapOracle` | a refusal is borne out by the truth, unless a side was read short |
| `StaleCacheIsContained` | `Orchestrate` | `StaleCacheNeverSettles`, `SentIsAttested`, `GateDenyIsDeserved`, `RefusalEndsWithEntry` |
| `RunEnds` | `Orchestrate` | every run ends, or waits for the recipient's endpoint |
| `QuotesAreHonored` | `TradingClient` | `NothingStaleIsSent`, `PermitIsSigned`, `ValueWasQuoted` |
| `CommandKeepsItsWord` | `SwapCommand` | `DryRunSendsNothing`, `EphemeralNeverSends`, `SuccessHasLanded` |
| `DiskMatchesChain` | `ProvisionDaemon` | `FundsRecoverable`, `SessionFitsRecord`, `RecordMatchesChain` |
| `EventuallyProvisioned` | `ProvisionDaemon` | through crashes and aborted runs |
| `AnswersFitQuestions` | four of five | `ValidIsRunnable`, `AnswersTheLast`, `CommonPairsFirst`, `OneResultPerPeer`, `OffersWereLive` |
| `MirrorsThePipeline` | `SwapPreview` | the preview halts where `orchestrate` would |
| `LateChangesNothing` | three of five | `NeverBackwards`, `QuietAfterClose`, `LateListIsIgnored` |
| `NothingWaitsForever` | all five | `Settles`, `EventuallyCurrent`, `LoadingEnds`, `LoadSettles`, `PollEnds` |
| `DoneMeansSet` | `PeerExchange` | what the endpoint script reports is on chain |

**Bounds.** `router`: two accounts, one token, six signed attestations and one forged.
They include two of each account with one nonce, one that expires a block before the
others, one for tier none, one that charges another account than its swapper, a pull
that leaves a token behind and one that takes it. `MaxDepth = 3` nests a swap in foreign
code in a swap, the smallest stack on which an inner revert, an outer revert and a
second call of the same code differ. `CapUnit = 200` with values 0, 200 and 201 gives
values exactly at the smallest cap and one above it, and a non-zero fee at each charging
tier that the attestations meet; the real cap is 50 000 000. `MaxTime = 1` is one block that expires
something. `daemon`: a day of three seconds starting mid-day, so that midnight falls
twice in `MaxTime = 6`; three policies (two traders with different keys, caps, pauses
and halts, one idle with fewer intents and a schedule), two offers per poll, four ticks,
one crash. The cap is met by two swaps of two dollars, the halt by two failures, or one.
One policy has two intents enabled and the others one or none, in lists of different
length, so that the cursor has something to alternate between and may be past the end.
`onchain`: three swaps fit a day by the clock and two by the cap. What an attempt is
counted for is 0, when nothing values it, or the value it has (`EstimateAssumption`,
from `estimateSwapUsd`, `agent.ts:1257`); that the price moves between the quote and the
landing is not in the model. `settlement`: time to live and latency of one, three
blocks, two attestations, one change of tiers: a tier given up in block 0 may be read
before, signed in 1 and settled in 2, and not in 3.

`swap_path`. Cache: two lookups, time to live 3, latency and lag 1, one edit, time to 5:
within it an entry written from a lagging read by the slower of two lookups expires, and
one that lives twice as long does not. A profile is one read here, which may be of either
version, lack something or be a flake; that several layers add nothing but the oldest of
their versions is in the proofs, which have any number. Record: a short document, a long
one, an invalid one, and three edits of any kind. Oracle: one request, for requests share
no state; three tiers and policies that differ in every field. Pipeline: one run and one
change of records, from each of three worlds and four caches: an older address, or a lower
tier from before an upgrade, of the recipient, of its parent or of the swapper, and, once
that has expired, nothing. Runs share only the cache, and what an earlier run can leave
there is what the caches at the start hold.
`commands`. Client: four calls, one classic and one auction route. Command: two
invocations in each of the environments of `MCEnvs`, one with a key that lacks its 0x. Provisioning: one daemon, three keys, two
failures, one transfer of the name, two policies and two routers to be asked for.
`waiting`. Editor: eight forms, one with a name too short, of which three are at, below and above 128 bytes, and
three edits. Watcher: three saves, one while an older one loads and one after. Preview:
six forms, two submissions, one edit of the records. Picker: all upstream lists of up to
three of six tokens. Peers: two peers behind one server, or a bad name before a peer, two
edits and one run of the script meanwhile; the script alone, three times.

Each property of a passing run has a mutant in `PROJECT.json`, a plausible slip in the
code under which the same run finds the property violated; the operators commented
"Mutant" are those slips and are used by nothing else. Of a conjunction the mutant
breaks one part. `StaleCacheIsContained` has two mutants, for what is settled and for what
is denied at the gate, and `StricterWins` two, for the tier and for the cap's boundary.

**Fairness.** `daemon_shutdown`: weak fairness of the loop as a whole.
Every await of the loop ends: a file read, an aborted sleep (`shutdownAbort`), a peer
poll (five seconds each), a receipt (the client's time-out) and HTTP calls (the
runtime's). Nothing is assumed of the clock, the operator, the peers or the chain, but for
one thing: that a recipient's policy endpoint, which the code asks without a time limit
(`risk-policy.ts:238`), does not send its answer a byte at a time for ever.
`swap_path`: of the pipeline's awaits all but one (`Timed`): the chain's and the gateways'
clients give up after their time limits, the Trading API and the oracle answer or drop the
connection, and a response that has begun comes to its end, that of a skill's document too
(`vendor/synthesis-resolver/dist/index.js:678-682` stops its clock at the headers). The
exception is `ReadPolicy`: it asks the recipient's own server without a time limit
(`risk-policy.ts:238`), so nothing says that it returns, and `RunEnds` lets a run wait there.
`commands`: the script goes on and what it sent is mined (weak); the operator does the
transfers and the registration that are asked for (weak), and follows a refusal and
starts a plain run again and again (strong, for crashes and dry runs interfere);
failures and transfers of the name are bounded. Without the operator nothing ends, which
is why the script is resumable.
`waiting`: timers fire, file events are delivered, reads end, requests of the pages are
answered or fail; the poll takes its steps and aborts after five seconds. Nothing of the
peers, which may stall for ever. That a load takes less than the debounce window and
that the callback does not throw are hypotheses of `EventuallyCurrent`, about disks and
callers: the code does not guarantee them.

## Findings

Four runs show that a statement of the repository is not true of the code:

* `setApprovals` is documented safe because the router "holds no tokens except
  mid-`gatedSwap`"; a swap that pulls more than the Universal Router takes completes
  and leaves the difference, which a later swap can spend (`NoTokensRetained`).
* "the regular tick gets the next-tick slot via lastSwapAt": a peer that always has a
  match takes that slot as well (`RegularGetsNextSlot`).
* The daily cap is a bound on what receipts told the daemon, not a hard one: an
  operation that lands after its wait timed out is never counted (`DailySpendIsHard`).
* A policy published as a pin is never found: the publisher writes `ipfs://CID`
  (`risk-policy.ts:483`), the reader appends all of that to a gateway's address
  (`:260`, `vendor/synthesis-resolver/dist/index.js:503`), and what it gets, null, does not
  parse, so every lookup throws instead of "fetched + decoded" (`PinnedIsFound`).

While modelling we read the following as well. The modules model what the code does
here; no run states what the documentation says of it.

* **Router.** The cap and the fee are of `msg.value`: a swap paid by a pull of the input
  token meets neither (`TrustSwapRouter.sol:207-212`, `:269-275`), where the specification
  has both apply to the swap's input (`spec/trust-graded-swap.md:165-167`, `:223`).
  `StricterWins` says what the code does of such a swap.
* **Daemon.** A policy that cannot be loaded ends the tick, and each one after it until the
  file is fixed (`agent.ts:1108`); the guide says that the daemon "keeps running on the
  previous valid one" (`infra/openclaw-skill/trust-swap-policy.md:86-88`).
* **Pipeline.** A stale profile of the swapper decides a denial by policy, for there is no
  retry past the cache there (`orchestrate.ts:367-378`, `:449-465`).
* **Risk policies.** An expired live policy is passed over for the text record
  (`risk-policy.ts:208`), not a "stop at the first hit" (`spec/trust-graded-swap.md:82`);
  a loosening policy behind an
  endpoint throws as well (`risk-policy.ts:250`) and is not ignored
  (`spec/trust-graded-swap.md:190`); a publisher does not see its own write before it is
  mined (`risk-policy.ts:548`, `:142`). A document of exactly 128 bytes is pinned
  (`risk-policy.ts:476`, `spec/trust-graded-swap.md:92`), and the page says that it is not
  (draft `route.ts:137`), so without a JWT the command it shows fails.
* **Oracle.** An empty list of accepted tokens accepts any (`index.ts:535`,
  `orchestrate.ts:796`; `spec/trust-graded-swap.md:64` means none by it); a size limit of 0
  is no limit (`index.ts:301`); random nonces may collide
  (`index.ts:408`, `spec/trust-graded-swap.md:270`); a registered subname whose own tier
  could not be read is attested at its parent's (`index.ts:225`).
* **Provisioning.** The policy is published on every run (`provision-daemon.ts:668`, `:25`);
  a receipt's status is not looked at (`:676`); names with the same first two labels share
  one kernel (`:308`, `:274`).
* **Watcher.** An older policy may be delivered last (`operating-policy.ts:287`); a callback
  that throws is told the file is bad (`:288`, `:265`).
* **Site.** "empty = any token" is rejected (`policy/page.tsx:220`, draft `route.ts:84`); the
  banner takes the name from the field and the command from the last draft
  (`policy/page.tsx:350`). ALLOW without a caller ENS has looked at one side (gate
  `route.ts:194`); the gate resolves with `agent-ids`, the pipeline without (`:48`); more
  than tier none is denied (`:169`). Curated entries do not win an address collision
  (tokens `route.ts:153`); without a list no selection is shown (`token-picker.tsx:53`).
* **`tru swap`.** Exit code 1 although the swap lands (`signer.ts:170`); a bare command
  broadcasts (`cli/src/index.ts:115`, `swap.ts:36`); a known token named by its address is
  scaled by 18 decimals (`tokens.ts:32`).
* **Peers.** A name that does not normalize fails the poll of all (`risk-policy.ts:128`);
  the endpoint of the script's own example is asked for `/intents/intents`
  (`agent-peer-poll.ts:138`, `set-agent-endpoint.ts:19`).

## Proofs

The theorems hold for every value of the constants that the named assumptions admit;
TLC evaluates each assumption on the instance of a run. They leave out only fairness: a
safety property of `Spec` is one of `FairSpec` too. Every proof has the same shape, an
inductive invariant, one lemma for each action that can disturb it, and a last step that
takes the property from it.

| Theorem | States | From |
|---|---|---|
| `RouterTyped`, `TypeCorrect` | `TypeOK`, `FramesChecked` of the router | `TypeInv` |
| `SettledOnce`, `BurnedBySettlement` | `SingleUse`, `NonceBurnedIffSettled` | `NonceInv` |
| `EthPassesThrough` | `NoEthRetained` | `FlowInv` |
| `FeesAccounted`, `SwappersCharged` | `FeesMatchSettlements`, `ChargedAsAttested` | `FlowInv` |
| `StricterSideWins` | `StricterWins` | `LogInv` |
| `ImplementsLedger` | `LedgerSpec`: the router implements `AttestationLedger` | `NonceInv`, `LogInv` |
| `TierChangesBind`, `AttestationsStayGood` | `ChangesBind`, `AttestationsSurvive` | `SettlementInv` |
| `SettlementKeepsTheLedger` | `LedgerSpec` of oracle and router together | `RouterSteps` |
| `DaemonTyped`, `SignsAsPolicySays` | `TypeOK`, `SignerFollowsPolicy` of the daemon | `LoopInv` |
| `ShutdownStartsNone` | `NoSwapAfterShutdown` | `LoopInv`, the guards |
| `IntentsTakeTurns` | `EnabledIntentsTakeTurns`: no enabled intent runs twice before the others have run | `TurnsInv` |
| `ImplementsLimiter` | `LimiterSpec`: the daemon implements `SwapLimiter` | `CountersInv` |
| `DaemonOnChainIsDaemon` | the composition's behaviours are the daemon's | its actions |
| `ChainTyped`, `CounterBacked` | `ChainTypeOK`, `CounterIsBacked` | `BackedInv` |
| `OneSwapOver` | `OvershootIsOneSwap` | `CappedInv` |
| `LimitedOnChain` | `LimiterSpec`, `NoSwapAfterShutdown` of the daemon with its operations | the daemon's |
| `StalenessIsBounded`, `RefreshesTakeEffect`, `BadReadsDoPass` | `StalenessBounded`, `RefreshTakesEffect`, `BadReadsPass` | `AgeInv` |
| `RecordTyped`, `LookupExact`, `PublishedSound` | `RecordTypeOK`, `LookupIsExact`, `PublishedIsSound` | `RecordInv` |
| `OracleTyped`, `SignedIsTrue`, `RefusedForCause` | `OracleTypeOK`, `SignedWithinBothPolicies`, `RefusalHasCause` | `HandlerInv` |
| `PipelineTyped`, `StaleCacheContained` | `PipelineTypeOK`, `StaleCacheIsContained` | `PipelineInv` |
| `PathTyped` | `PathTypeOK` | `PathInv` |
| `PathIsItsParts` | the composition's behaviours are those of its parts | its actions |
| `ClientTyped`, `OnlyHonoredQuotes` | `ClientTypeOK`, `QuotesAreHonored` | `ClientInv` |
| `CommandTyped`, `CommandsKeepTheirWord` | `CommandTypeOK`, `CommandKeepsItsWord` | `AmountInv`, `CommandInv` |
| `ProvisionTyped`, `DiskAndChainAgree` | `ProvisionTypeOK`, `DiskMatchesChain` | `ProvisionInv` |
| `CommandsTyped` | `CommandsTypeOK` | `StartedInv` |
| `CommandsAreTheirParts` | the composition's behaviours are those of its parts | its actions |
| `EditorTyped`, `ValidDraftsRun`, `EditorGoesForward` | `EditorTypeOK`, `ValidIsRunnable`, `NeverBackwards` | `EditorInv` |
| `WatcherTyped`, `ClosedIsQuiet` | `WatcherTypeOK`, `QuietAfterClose` | `WatcherInv` |
| `PreviewTyped`, `LastSubmissionAnswered`, `PreviewMirrors` | `PreviewTypeOK`, `AnswersTheLast`, `MirrorsThePipeline` | `PreviewInv` |
| `PickerTyped`, `CommonPairsComeFirst`, `GonePickerIsLeftAlone` | `PickerTypeOK`, `CommonPairsFirst`, `LateListIsIgnored` | `PickerInv` |
| `ExchangeTyped`, `NoPeerIsSkipped`, `OffersAreLive` | `ExchangeTypeOK`, `OneResultPerPeer`, `OffersWereLive` | `PollInv` |
| `SetWhenDone` | `DoneMeansSet` | `ScriptInv` |
| `WaitingTyped`, `AnswersFit`, `LateUndoesNothing` | `WaitingTypeOK`, `AnswersFitQuestions`, `LateChangesNothing` | `WaitingInv` |
| `WaitingIsItsParts` | the composition's behaviours are those of its parts, but for fairness | its actions |

**Router** (`RouterAssumption`, `CapUnitAssumption`): any accounts, tokens, attestations
and values, any depth of the stack and any time. None of its invariants is inductive,
for a revert brings back a state they say nothing of. So the invariants speak of every
state on the stack: `World(k)` is the one that frame k found, and the current one is the
last. `NonceInv`: in each world the used nonces are those of its log and of the swaps
under way below it, which are disjoint. Entering a call adds its nonce to the top world
only, a return moves it to the log, a revert makes the world below the top one, for
which all this was known. `FlowInv` balances accounts likewise: `Net(w, x)`, what x has
in world w against what w's log says it should have, is 0 at the bottom, and from one
world to the next it differs by the `Share` of the call in between, the part that has
changed hands and is in no log yet. At the bottom nothing is left over, which is the
accounting of every committed state. `LogInv` says that each world extends the committed
log by settlements within their terms and in time; with `NonceInv` a commit is a step of
the ledger, and every other step is a stutter.

**Sums.** Fees, charges and a day's spending are totals over sequences (`Totals`). The
induction theorems of the library cannot be used with the provers at hand, so
`TotalsProofs` argues from the least counterexample (`LeastNat`): the sums of a sequence
exist, are unique, and grow by the element appended. `TotalOf` is a recursive function
for that reason.

**Settlement** (in addition `SettlementAssumption`, and `OracleKeyAssumption`: what the
oracle may sign is among what the router takes for signed). `SettlementInv` joins the
router's `TypeInv` and `NonceInv` with `OracleInv`, that requests and attestations carry
tiers held since a time counted back from their signature, and `CallsInv`, that every
call in progress and every log entry goes back to an attestation handed out. A swap that
settles in time then has tiers that were held a TTL and a latency ago or less.

**Daemon** (`DaemonAssumption`). `SwapLimiter` computes from the history of attempts what
the code keeps in counters. `CountersInv` says that they agree: `lastSwapAt` is the last
attempt's time, `consecutiveFailures` reaches back to the last success, `halted` is set
when the history says so, and `spentUsdToday` is the total of the day it is kept for
(`Tracked`), than which no attempt is later. So where a guard of the loop lets an attempt
begin, the limiter lets it begin. Restarts begin a history of their own.
`TurnsInv` is why enabled intents take turns, in lists of any length: the cursor stands
behind the place of the last own swap (`CursorIsBehind`), and each enabled place on the
way round from an earlier own swap to that one has had its turn (`TurnsTaken`), if the
swaps were made under one policy. The next pick skips no enabled place (`PickedNext`), so
the way from the earlier swap goes on to it (`ArcGoesOn`); where it comes back to the
place it began at, it has been all round the list (`ArcComesRound`).

**Daemon and chain** (in addition `EstimateAssumption`). `BackedInv`: an operation that
landed while its attempt waits is among those that landed (`LandedIsKnown`), and the
landings of the counter's day cover the counter and the landed operation that it does
not count yet (`CounterHasRoom`). `CappedInv`, for behaviours without a crash: what
floats is of failed attempts, so if none of these moved anything the landings of a day
are what was counted and the operation in flight; and an attempt begins below the cap of
the policy it runs under.

**Cache** (`CacheAssumption`): any callers, time to live, latency, lag, layers, clock and
edits. What a caller is served depends on the entry, the entry on the lookup that wrote
it, that one on when it began and what its replicas showed. `AgeInv` states it for each: no
layer of a lookup was replaced more than a lag before it began (`LookupInv`), so an entry
expires within a time to live, a latency and a lag of that (`EntryInv`), so whoever is
served from it asked before. Both carry the moment `goodAt` at which a usable profile last
came back: an entry written later was asked for at most a latency earlier.

**Record** (`RecordAssumption`: documents are records and `Absent` is none of them). Of a
text on its way from publisher to final block `RecordInv` says that its document is valid
(`Good`) and pinned from the moment it is sent (`Kept`); of a reader, that the document
it holds came from a finalized record if it asked for those (`ReaderInv`), and, while
nothing has disturbed it, what it knows of the sources it has passed (`KnowledgeInv`:
past the endpoint, nothing in force is behind it; at a gateway, the record is a pin).

**Oracle** (`OracleAssumption`) and **pipeline** (`PipelineAssumption`): the types of
the names, policies, tiers and amounts given, and that the gate's minimum is one. `HandlerInv`
relates, at each await, what the handler has learnt of a side to the truth (`SideInv`): a
read may lose a tier, a signature or a policy and never invents one, and from the
inheritance on no side has more than its standing. `PipelineInv` does the same for the
locals of a run (`StageInv`): one that is about to send, or has sent, holds an attestation
of that very quote, which vouches for both sides. `TruthInv` follows a run by its two
observers: while `clean`, all it has seen is the truth, so what it refuses the truth
refuses; and unless its retry `lost` something, the profile that the gate denies is the
recipient's own, inheritance included.

**Provisioning** (`ProvisionAssumption`): any names, which may share a slug and so a set of
files, any policies and routers, dying at any await, and transactions of earlier runs
still waiting. None of the three parts of `DiskMatchesChain` is inductive.
`ProvisionInv` adds what they rest on. A funded key has a finished pair of files
(`FundedInv`), for an address is shown only once its public record is written and a
public record, once written, is never deleted: the run that tells the operator to delete
has seen a pair without it, and nothing has written one since (`DiskInv`). A waiting
transaction was sent by the owner shown for its name, and if it sets `addr` it sets that
owner (`TxInv`); so an older run's transaction cannot undo `addr`, and unless the name is
taken away none reverts. It can undo the policy: what excludes that is that a run's own
transaction is the last one in the queue (`LastIs`), so that once the queue is empty its
policy stands (`SentInv`).

**Trading client** (`ClientAssumption`) and **swap command** (`CommandAssumption`).
`ClientInv` types what is held and asked; that calldata means a live quote comes from the
answer's own guard, that a request for a value is never about nothing from the request's.
`CommandInv` follows the process (`ProcessInv`): it remembers that it is a dry run, has a
key of its own only then, and while it waits the last transaction sent is its own.

**Pages and watcher** (`EditorAssumption`, `PreviewAssumption`, `WatcherAssumption`): any
forms, policies and lists, and answers in any order. `EditorInv`: what is shown, hence
what is copied, is what the route makes of some form (`EditorShows`), so the flags of the
command fit that form; no request and nothing shown is of a version to come. `PreviewInv`:
the disabled button leaves one request at a time, for the last submission, and nothing is
shown meanwhile (`OneAtATime`); what is shown is the verdict on some request, and that
the route's chain of checks ends where the pipeline's does is a lemma about the two
(`HaltsAgree`).

**Peers** (`ExchangeAssumption`): any peers, servers, policies and edits. `PollInv`: from
the moment it asks, a poll's `live` has what its peer lists now (`AskedInv`), so an answer,
whenever it is made, is within it, and so is what is taken from it (`ResultsGood`); a result
moves the head of the peers to come to the end of those done (`HeadMovesOver`). `ScriptInv`:
transactions are mined in their order and the record is what the last set, if it went
through; a script that waits waits for the last, whatever earlier runs gave up on.

**Token list** (`PickerAssumption`: the hand-kept list has a token for each curated
symbol, in their order, of the chain that is asked for, as `route.ts:35-84` and `token-types.ts:36` have it). That
a list is sorted, for upstream lists of any length, needs no induction: the order of the
entries is strict and total (`BeforeOrders`), as an entry's place in the list breaks ties.
So of two entries the later has more ahead of it (`AheadGrows`), no two have as many
ahead, and n numbers below n are all of them: each place has one entry, and the list
has them all, in order (`SortedIs`). That every curated symbol is among them is what
folding in the hand-kept list is for (`TokenListShows`).

**Compositions.** `PathInv`, `StartedInv` and `WaitingInv` conjoin the invariants of the
parts: a step of the whole is a step of one part and a stutter of the others. The amount
of `SwapCommand` is scaled by `10^d` for any number of decimals d; that this is positive
(`PowerOfTenPositive`) again comes from a least counterexample.

**Only model-checked.** `RunEnds`, `EventuallyProvisioned`, `NothingWaitsForever` and
`ShutdownCompletes`: they are liveness properties, and fairness and ENABLED are out of
reach of these provers. Every invariant and action property of a passing run is stated by
a theorem. The four violations are TLC's.

## Not modelled, and the plan

What the modules abstract, beyond what they say of themselves: lookups are one step in
`SwapPreview` and their tiers are chosen, not computed; a pipeline is one step in
`SwapCommand` and one attempt in `DaemonAgent`; documents, tokens and amounts are members
of small sets; what a transaction, a pin or a peer does is in the model as the code relies
on it.

Left out:

* the vendored resolver, which is third-party build output: what it returns is an input;
* `attestation.ts`, types and an encoding, taken as injective; the MCP stub;
* `issue-session-key.ts`, `kernel-withdraw.ts`, `bootstrap-daemon-kernel.ts` and the
  test and demo scripts: straight-line, run once by hand, nothing to resume;
* the daemon's owner-key path (`agent.ts:489-509`): with such a key on disk it signs for the
  kernel whatever session the policy names, and `SignerFollowsPolicy` is of the other path;
* an auction's answer without outputs, at which `estimateSwapUsd` throws after a peer's swap
  was made (`agent.ts:962`, `trading.ts:510`), so that the state is not brought up to date;
* paymaster, gas estimation, key parsing, the schema's messages, `parsePolicyOverrides`;
* two daemons provisioned on one machine: `Slug` of `MCCommands` maps the one name there is;
* the ring of events, transcripts and printing; the components that only present;
* deployment (`infra/`, the Foundry script) and the tests.
