---------------------------- MODULE DaemonAgent ----------------------------
(***************************************************************************)
(* The trading daemon, `tru agent run` (packages/cli/src/commands/agent.ts *)
(* and agent-peer-poll.ts).                                                *)
(*                                                                         *)
(* One loop: re-read the policy file, rebuild the signer if its key was    *)
(* rotated, poll the peers and settle what matches, then run one intent of *)
(* the daemon's own, then sleep.  The loop is one asynchronous function;   *)
(* each action below is its code between two awaits.  While it is          *)
(* suspended the clock runs, SIGTERM arrives, and the user operation it    *)
(* has sent lands on the chain.  The operator edits the policy file at any *)
(* time: each read of it finds whatever it holds by then.  A crash loses   *)
(* all the daemon knows, and systemd restarts it (Restart=always).         *)
(***************************************************************************)
EXTENDS Integers, Sequences, SequencesExt

CONSTANTS
  Key,            \* signing identities (kernel address and session key)
  Pair,           \* token pairs
  Policies,       \* well-formed operating policies
  Invalid,        \* a policy file that does not parse, or cannot be read
  PeerIntent,     \* intents a peer may advertise
  DayLength,      \* seconds in a UTC day, 86_400 in the code
  StartTime,      \* epoch second at which the daemon is first started
  MaxIterations,  \* --max-iterations
  MaxOffers,      \* bound: matching intents one poll of all peers brings
  MaxTime,        \* bound: last epoch second
  MaxCrashes      \* bound: crashes

(* An intent moves `usd` dollars of a token pair; `est` is what            *)
(* estimateSwapUsd makes of a successful swap of it: the same for a pair   *)
(* with a stable coin on one side, and 0 otherwise.                        *)
OfferType == [pair: Pair, usd: Nat, est: Nat]
IntentType == [pair: Pair, usd: Nat, est: Nat, enabled: BOOLEAN]
PolicyType ==
  [key: Key,
   interval: Nat, startAt: Nat, endAt: Nat,     \* schedule
   intents: Seq(IntentType),
   cap: Nat, gap: Nat, halt: Nat \ {0},         \* constraints
   listen: BOOLEAN, pollEvery: Nat]             \* listen

ASSUME DaemonAssumption ==
  /\ Policies \subseteq PolicyType /\ Policies # {}
  /\ Invalid \notin Policies \cup Key
  /\ PeerIntent \subseteq OfferType
  /\ DayLength \in Nat \ {0}
  /\ StartTime \in Nat /\ MaxTime \in Nat /\ StartTime <= MaxTime
  /\ \A p \in Policies : p.pollEvery <= StartTime
  /\ MaxIterations \in Nat /\ MaxOffers \in Nat /\ MaxCrashes \in Nat

VARIABLES
  now,            \* epoch seconds
  crashes,
  pc,             \* where the loop is suspended
  policy,         \* the policy in memory
  key,            \* the key the signer was built for
  state,          \* AgentState
  lastPeerPollAt,
  queue,          \* matching peer intents of this poll still to be settled
  ticks,          \* tickCount
  wakeAt,         \* end of the inter-tick sleep
  shuttingDown,
  history         \* the attempts since the daemon was started; no action of
                  \* the daemon reads it but for the attempt in flight

world == <<now, crashes>>
memory == <<policy, key, state, lastPeerPollAt, queue, ticks, wakeAt, shuttingDown>>
vars == <<world, pc, memory, history>>

AgentState ==
  [dayStart: Nat, spentUsdToday: Nat, lastSwapAt: Nat \cup {-1},
   consecutiveFailures: Nat, halted: BOOLEAN, intentCursor: Nat]

Locations == {"down", "load", "rebuild", "poll", "polling", "settle",
              "peerSwap", "regular", "regularSwap", "sleep", "stopped"}
Swapping == pc \in {"peerSwap", "regularSwap"}

AttemptType ==
  [at: Nat, tick: 1 .. MaxIterations, source: {"peerSwap", "regularSwap"},
   place: Nat,                       \* of the intent in its policy; 0, a peer's
   usd: Nat, est: Nat, policy: Policies, key: Key,
   outcome: {"running", "ok", "failed"}]

TypeOK ==
  /\ now \in StartTime .. MaxTime
  /\ pc \in Locations
  /\ policy \in Policies \cup {Invalid} /\ key \in Key \cup {Invalid}
  /\ pc # "down" => policy # Invalid /\ key # Invalid
  /\ state \in AgentState
  /\ lastPeerPollAt \in 0 .. MaxTime
  /\ queue \in Seq(PeerIntent) /\ Len(queue) <= MaxOffers
  /\ ticks \in 0 .. MaxIterations
  /\ wakeAt \in Nat
  /\ shuttingDown \in BOOLEAN
  /\ crashes \in 0 .. MaxCrashes
  /\ history \in Seq(AttemptType)

----------------------------------------------------------------------------
(* Pure logic. *)

UtcDayStart(t) == (t \div DayLength) * DayLength

InitialAgentState(t) ==
  [dayStart |-> UtcDayStart(t), spentUsdToday |-> 0, lastSwapAt |-> -1,
   consecutiveFailures |-> 0, halted |-> FALSE, intentCursor |-> 0]

(* Mutant: reset on the same day. *)
ResetsOnSameDay(s, t) == UtcDayStart(t) = s.dayStart

(* applyConstraints: the reason it gives, in the order it looks for one.   *)
ResetsDailySpend(s, t) == UtcDayStart(t) # s.dayStart
SpentForToday(s, t) == IF ResetsDailySpend(s, t) THEN 0 ELSE s.spentUsdToday
BlockReason(p, s, t) ==
  IF s.halted THEN "halted"
  ELSE IF t < p.startAt \/ t > p.endAt THEN "schedule"
  ELSE IF s.lastSwapAt # -1 /\ t - s.lastSwapAt < p.gap THEN "min-seconds"
  ELSE IF SpentForToday(s, t) >= p.cap THEN "max-daily-spend"
  ELSE "none"
Allowed(p, s, t) == BlockReason(p, s, t) = "none"

(* Mutant: the day being tracked is not moved on. *)
RollSpendOnly(s, t) ==
  IF ResetsDailySpend(s, t) THEN [s EXCEPT !.spentUsdToday = 0] ELSE s

(* The counter is zeroed when the check that passed found a new UTC day.   *)
RollDay(s, t) ==
  IF ResetsDailySpend(s, t)
  THEN [s EXCEPT !.dayStart = UtcDayStart(t), !.spentUsdToday = 0] ELSE s

(* Mutant: the first enabled intent, wherever the cursor is. *)
PickFirstEnabled(p, s) ==
  CHOOSE i \in DOMAIN p.intents :
    p.intents[i].enabled /\ \A j \in 1 .. i - 1 : ~p.intents[j].enabled

(* pickNextIntent: offset of the first enabled intent from the cursor on.  *)
At(p, s, offset) == ((s.intentCursor + offset) % Len(p.intents)) + 1
EnabledOffsets(p, s) ==
  {o \in 0 .. Len(p.intents) - 1 : p.intents[At(p, s, o)].enabled}
PickNextIntent(p, s) ==
  LET first == CHOOSE o \in EnabledOffsets(p, s) :
                 \A other \in EnabledOffsets(p, s) : o <= other
  IN  At(p, s, first)

(* evaluatePeerIntent. *)
Matches(p, offer) ==
  \E i \in DOMAIN p.intents :
    p.intents[i].enabled /\ p.intents[i].pair = offer.pair

(* Mutant: a failed swap is charged to the day as well. *)
AfterSwapChargingAll(p, s, at, est, ok) ==
  LET failures == IF ok THEN 0 ELSE s.consecutiveFailures + 1
  IN  [s EXCEPT !.lastSwapAt = at,
                !.consecutiveFailures = failures,
                !.spentUsdToday = @ + est,
                !.halted = @ \/ failures >= p.halt]

(* What an attempt made at `at` does to the state when it ends.            *)
AfterSwap(p, s, at, est, ok) ==
  LET failures == IF ok THEN 0 ELSE s.consecutiveFailures + 1
  IN  [s EXCEPT !.lastSwapAt = at,
                !.consecutiveFailures = failures,
                !.spentUsdToday = IF ok THEN @ + est ELSE @,
                !.halted = @ \/ failures >= p.halt]

----------------------------------------------------------------------------
Init ==
  /\ now = StartTime /\ crashes = 0
  /\ pc = "down"
  /\ policy = Invalid /\ key = Invalid
  /\ state = InitialAgentState(now)
  /\ lastPeerPollAt = 0
  /\ queue = <<>> /\ ticks = 0 /\ wakeAt = 0
  /\ shuttingDown = FALSE
  /\ history = <<>>

(* runAgentRun up to its loop; with a malformed policy, or no signer, the  *)
(* process exits instead.                                                  *)
Boot(file) ==
  /\ pc = "down"
  /\ policy' = file /\ key' = file.key
  /\ state' = InitialAgentState(now)
  /\ pc' = "load"
  /\ UNCHANGED <<world, lastPeerPollAt, queue, ticks, wakeAt, shuttingDown, history>>

(* The end of an iteration: sleepUntilNext. *)
EndTick(p) ==
  IF shuttingDown \/ ticks' >= MaxIterations
  THEN pc' = "load" /\ UNCHANGED wakeAt
  ELSE pc' = "sleep" /\ wakeAt' = now + p.interval

(* Mutant: the sleep is not aborted. *)
WakeUpInTime ==
  /\ pc = "sleep"
  /\ now >= wakeAt
  /\ wakeAt' = 0
  /\ pc' = "load"
  /\ UNCHANGED <<world, policy, key, state, lastPeerPollAt, queue, ticks,
                 shuttingDown, history>>
WakeUp ==
  /\ pc = "sleep"
  /\ now >= wakeAt \/ shuttingDown
  /\ wakeAt' = 0
  /\ pc' = "load"
  /\ UNCHANGED <<world, policy, key, state, lastPeerPollAt, queue, ticks,
                 shuttingDown, history>>

(* The loop condition fails: the process shuts down. *)
LeaveLoop ==
  /\ pc = "load"
  /\ shuttingDown \/ ticks = MaxIterations
  /\ shuttingDown' = TRUE
  /\ pc' = "stopped"
  /\ UNCHANGED <<world, policy, key, state, lastPeerPollAt, queue, ticks, wakeAt, history>>

(* Mutant: --max-iterations is not looked at. *)
StartTickUnbounded ==
  /\ pc = "load"
  /\ ~shuttingDown
  /\ ticks' = ticks + 1
StartTick ==
  /\ pc = "load"
  /\ ~shuttingDown /\ ticks < MaxIterations
  /\ ticks' = ticks + 1

(* The policy is re-read; it may name another key than the signer's.       *)
Reload(file) ==
  /\ StartTick
  /\ policy' = file
  /\ pc' = IF file.key # key THEN "rebuild" ELSE "poll"
  /\ UNCHANGED <<world, key, state, lastPeerPollAt, queue, wakeAt, shuttingDown, history>>
(* It cannot be read, is not JSON, or breaks the schema. *)
ReloadFails ==
  /\ StartTick
  /\ EndTick(policy)
  /\ UNCHANGED <<world, policy, key, state, lastPeerPollAt, queue, shuttingDown, history>>

Rebuild ==
  /\ pc = "rebuild"
  /\ key' = policy.key
  /\ pc' = "poll"
  /\ UNCHANGED <<world, policy, state, lastPeerPollAt, queue, ticks, wakeAt,
                 shuttingDown, history>>
(* Mutant: the tick goes on with the signer it has. *)
RebuildIgnored ==
  /\ pc = "rebuild"
  /\ pc' = "poll"
  /\ UNCHANGED <<world, policy, key, state, lastPeerPollAt, queue, ticks, wakeAt,
                 shuttingDown, history>>
RebuildFails ==
  /\ pc = "rebuild"
  /\ ticks' = ticks
  /\ EndTick(policy)
  /\ UNCHANGED <<world, policy, key, state, lastPeerPollAt, queue, shuttingDown, history>>

(* executePeerPoll, up to the await of pollPeers. *)
PollDue ==
  policy.listen /\ ~shuttingDown /\ now >= lastPeerPollAt + policy.pollEvery
SkipPoll ==
  /\ pc = "poll" /\ ~PollDue
  /\ pc' = "regular"
  /\ UNCHANGED <<world, memory, history>>
StartPoll ==
  /\ pc = "poll" /\ PollDue
  /\ lastPeerPollAt' = now
  /\ pc' = "polling"
  /\ UNCHANGED <<world, policy, key, state, queue, ticks, wakeAt, shuttingDown, history>>

(* The peers answered, or did not: what does not match is declined.        *)
PollReturns(matched) ==
  /\ pc = "polling"
  /\ \A i \in DOMAIN matched : Matches(policy, matched[i])
  /\ queue' = matched
  /\ pc' = "settle"
  /\ UNCHANGED <<world, policy, key, state, lastPeerPollAt, ticks, wakeAt,
                 shuttingDown, history>>

(* orchestrate is called: the attempt is on record before it is answered.  *)
StartSwap(intent, place, kind, s) ==
  /\ state' = s
  /\ pc' = kind
  /\ history' = Append(history,
       [at |-> now, tick |-> ticks, source |-> kind, place |-> place,
        usd |-> intent.usd, est |-> intent.est,
        policy |-> policy, key |-> key, outcome |-> "running"])

SkipOffer ==
  /\ pc = "settle" /\ queue # <<>> /\ ~shuttingDown
  /\ ~Allowed(policy, state, now)
  /\ queue' = Tail(queue)
  /\ UNCHANGED <<world, pc, policy, key, state, lastPeerPollAt, ticks, wakeAt,
                 shuttingDown, history>>
(* Mutant: a signal does not cut the settlements short. *)
SettleOfferRegardless ==
  /\ pc = "settle" /\ queue # <<>>
  /\ Allowed(policy, state, now)
  /\ StartSwap(Head(queue), 0, "peerSwap", RollDay(state, now))
  /\ queue' = Tail(queue)
  /\ UNCHANGED <<world, policy, key, lastPeerPollAt, ticks, wakeAt, shuttingDown>>
SettleOffer ==
  /\ pc = "settle" /\ queue # <<>> /\ ~shuttingDown
  /\ Allowed(policy, state, now)
  /\ StartSwap(Head(queue), 0, "peerSwap", RollDay(state, now))
  /\ queue' = Tail(queue)
  /\ UNCHANGED <<world, policy, key, lastPeerPollAt, ticks, wakeAt, shuttingDown>>
EndPoll ==
  /\ pc = "settle" /\ (queue = <<>> \/ shuttingDown)
  /\ queue' = <<>>
  /\ pc' = "regular"
  /\ UNCHANGED <<world, policy, key, state, lastPeerPollAt, ticks, wakeAt,
                 shuttingDown, history>>

(* executeRegularTick, which runAgentRun calls unless it is shutting down. *)
RegularBlocked ==
  /\ pc = "regular"
  /\ shuttingDown \/ ~Allowed(policy, state, now)
  /\ ticks' = ticks
  /\ EndTick(policy)
  /\ UNCHANGED <<world, policy, key, state, lastPeerPollAt, queue, shuttingDown, history>>
NoEnabledIntent ==
  /\ pc = "regular"
  /\ ~shuttingDown /\ Allowed(policy, state, now)
  /\ EnabledOffsets(policy, state) = {}
  /\ state' = RollDay(state, now)
  /\ ticks' = ticks
  /\ EndTick(policy)
  /\ UNCHANGED <<world, policy, key, lastPeerPollAt, queue, shuttingDown, history>>
RunIntent ==
  /\ pc = "regular"
  /\ ~shuttingDown /\ Allowed(policy, state, now)
  /\ EnabledOffsets(policy, state) # {}
  /\ LET i == PickNextIntent(policy, state)
     IN  StartSwap(policy.intents[i], i, "regularSwap",
                   [RollDay(state, now) EXCEPT !.intentCursor = i % Len(policy.intents)])
  /\ UNCHANGED <<world, policy, key, lastPeerPollAt, queue, ticks, wakeAt,
                 shuttingDown>>

----------------------------------------------------------------------------
(* The attempt in flight: orchestrate returns a transaction hash, a denial *)
(* or no quote, or throws, after having sent an operation or before.       *)
Current == Last(history)

SwapEnds(ok) ==
  /\ Swapping
  /\ state' = AfterSwap(policy, state, Current.at, Current.est, ok)
  /\ history' = [history EXCEPT ![Len(history)].outcome = IF ok THEN "ok" ELSE "failed"]
  /\ ticks' = ticks
  /\ IF pc = "peerSwap" THEN pc' = "settle" /\ UNCHANGED wakeAt
                        ELSE EndTick(policy)
  /\ UNCHANGED <<world, policy, key, lastPeerPollAt, queue, shuttingDown>>

----------------------------------------------------------------------------
(* The rest of the world. *)

Shutdown ==   \* SIGTERM, SIGINT
  /\ pc \notin {"down", "stopped"} /\ ~shuttingDown
  /\ shuttingDown' = TRUE
  /\ UNCHANGED <<world, pc, policy, key, state, lastPeerPollAt, queue, ticks,
                 wakeAt, history>>

(* All is forgotten; also the exit of a process that has stopped.          *)
Crash ==
  /\ pc # "down" /\ crashes < MaxCrashes
  /\ crashes' = crashes + 1
  /\ pc' = "down"
  /\ policy' = Invalid /\ key' = Invalid
  /\ state' = InitialAgentState(now)
  /\ lastPeerPollAt' = 0
  /\ queue' = <<>> /\ ticks' = 0 /\ wakeAt' = 0
  /\ shuttingDown' = FALSE
  /\ history' = <<>>
  /\ UNCHANGED now

Tick ==
  /\ now < MaxTime
  /\ now' = now + 1
  /\ UNCHANGED <<crashes, pc, memory, history>>

Exited == pc = "stopped" /\ UNCHANGED vars

(* The steps of the loop but for the end of an attempt. *)
LoopStep ==
  \/ WakeUp \/ LeaveLoop \/ ReloadFails \/ Rebuild \/ RebuildFails
  \/ \E file \in Policies : Reload(file)
  \/ SkipPoll \/ StartPoll
  \/ \E n \in 0 .. MaxOffers : \E matched \in [1 .. n -> PeerIntent] : PollReturns(matched)
  \/ SkipOffer \/ SettleOffer \/ EndPoll
  \/ RegularBlocked \/ NoEnabledIntent \/ RunIntent

Loop == LoopStep \/ SwapEnds(TRUE) \/ SwapEnds(FALSE)

Next ==
  \/ \E file \in Policies : Boot(file)
  \/ Loop
  \/ Shutdown \/ Crash \/ Tick \/ Exited

(* Every await of the loop is answered: reading a file and an aborted      *)
(* sleep at once, HTTP and RPC calls at the latest by a client's time-out. *)
Spec == Init /\ [][Next]_vars
FairSpec == Spec /\ WF_vars(Loop)

----------------------------------------------------------------------------
(* The counters of AgentState keep what the constraints promise: the       *)
(* daemon implements the limiter defined over the history of its attempts, *)
(* peer intents and its own together, across policy edits and midnights.   *)
Limiter == INSTANCE SwapLimiter
LimiterSpec == Limiter!Spec

(* A swap is signed with the key the policy it runs under names: "so swaps *)
(* don't keep executing under the stale account" (agent.ts, P1).           *)
SignerFollowsPolicy ==
  \A i \in DOMAIN history : history[i].key = history[i].policy.key

(* SIGTERM "cuts settlement short": once it has arrived, in whatever part  *)
(* of a tick, no further swap is started.                                  *)
NoSwapAfterShutdown ==
  [][shuttingDown => Len(history') <= Len(history)]_vars

(* "Round-robins over enabled intents" (agent.ts, pickNextIntent): of the  *)
(* swaps of the daemon's own under one policy, none is of an intent that    *)
(* had its turn before each of the enabled ones has had one, though peers   *)
(* settle, days pass, swaps fail and the list is shortened and restored in  *)
(* between.                                                                 *)
IsOwn(i) == history[i].source = "regularSwap"
OwnUnderOnePolicy(i, j) ==
  \A k \in i .. j : IsOwn(k) => history[k].policy = history[i].policy
EnabledIntentsTakeTurns ==
  \A i, j \in DOMAIN history :
    /\ i < j /\ IsOwn(i) /\ IsOwn(j) /\ OwnUnderOnePolicy(i, j)
    /\ history[i].place = history[j].place
    => \A m \in DOMAIN history[i].policy.intents :
         history[i].policy.intents[m].enabled =>
           \E k \in i .. j - 1 : IsOwn(k) /\ history[k].place = m

(* "peer matches settle first and the regular tick gets the next-tick slot *)
(* via lastSwapAt" (agent.ts, above the call of executePeerPoll): between  *)
(* the peers' swaps of two ticks there is one of the daemon's own.         *)
RegularGetsNextSlot ==
  \A i \in 1 .. Len(history) - 1 :
    /\ history[i].source = "peerSwap"
    /\ history[i + 1].tick > history[i].tick
    => history[i + 1].source = "regularSwap"

(* A daemon told to stop stops, whatever it was waiting for.               *)
ShutdownCompletes == shuttingDown ~> pc \in {"stopped", "down"}

============================================================================
