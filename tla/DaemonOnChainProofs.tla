------------------------ MODULE DaemonOnChainProofs ------------------------
(***************************************************************************)
(* What the daemon's counters say of the dollars that moved on chain, for  *)
(* every policy, every swap, every time at which an operation lands and    *)
(* any number of crashes.                                                  *)
(***************************************************************************)
EXTENDS DaemonOnChain, DaemonAgentProofs

----------------------------------------------------------------------------
(***************************************************************************)
(* Sums over what has landed.                                              *)
(***************************************************************************)
MovedAt(l, d) == [i \in DOMAIN l |-> IF DayOf(l[i].attemptAt) = d THEN l[i].usd ELSE 0]
Moved(l, d) == TotalOf(MovedAt(l, d))

LEMMA MovedTyped ==
  ASSUME NEW l \in Seq(Landing), NEW d
  PROVE  /\ MovedAt(l, d) \in Seq(Nat) /\ Len(MovedAt(l, d)) = Len(l)
         /\ Moved(l, d) \in Nat
<1> DEFINE n == Len(l)
           w == MovedAt(l, d)
<1>1. n \in Nat /\ DOMAIN l = 1 .. n BY LenProperties
<1>2. ASSUME NEW i \in 1 .. n PROVE l[i].usd \in Nat
  <2>1. l[i] \in Landing BY ElementOfSeq
  <2> QED BY <2>1 DEF Landing
<1>3. w \in [1 .. n -> Nat] BY <1>1, <1>2 DEF MovedAt
<1> HIDE DEF w
<1>4. w \in Seq(Nat) /\ Len(w) = n BY <1>1, <1>3
<1>5. TotalOf(w) \in Nat BY <1>4, TotalOfNats
<1> QED BY <1>4, <1>5 DEF w, Moved

LEMMA MovedLonger ==
  ASSUME NEW l \in Seq(Landing), NEW e \in Landing, NEW d
  PROVE  /\ Append(l, e) \in Seq(Landing)
         /\ Moved(Append(l, e), d) =
              Moved(l, d) + IF DayOf(e.attemptAt) = d THEN e.usd ELSE 0
<1> DEFINE g == Append(l, e)
           n == Len(l)
           v == MovedAt(l, d)
           w == MovedAt(g, d)
<1>1. /\ g \in Seq(Landing) /\ Len(g) = n + 1 /\ n \in Nat /\ g[n + 1] = e
      /\ DOMAIN g = 1 .. n + 1 /\ DOMAIN l = 1 .. n
      /\ \A i \in 1 .. n : g[i] = l[i]
  OBVIOUS
<1> HIDE DEF g
<1>2. /\ v \in Seq(Nat) /\ Len(v) = n /\ w \in Seq(Nat) /\ Len(w) = n + 1
      /\ Moved(l, d) = TotalOf(v) /\ Moved(g, d) = TotalOf(w)
  BY <1>1, MovedTyped DEF Moved
<1>3. ASSUME NEW i \in 1 .. n PROVE w[i] = v[i]
  <2>1. i \in 1 .. n + 1 BY <1>1
  <2> QED BY <1>1, <2>1 DEF MovedAt
<1>4. w[n + 1] = IF DayOf(e.attemptAt) = d THEN e.usd ELSE 0
  <2>1. n + 1 \in 1 .. n + 1 BY <1>1
  <2> QED BY <1>1, <2>1 DEF MovedAt
<1> HIDE DEF v, w, n
<1>5. v \in Seq(Int) /\ w \in Seq(Int) BY <1>2
<1>6. TotalOf(w) = TotalOf(v) + w[Len(w)] BY <1>2, <1>3, <1>5, TotalOfLonger
<1> QED BY <1>1, <1>2, <1>4, <1>6 DEF g

----------------------------------------------------------------------------
(***************************************************************************)
(* The invariants.  An operation that landed is not counted before its     *)
(* receipt: until then its attempt stands for it, and the counter has room *)
(* for it.                                                                 *)
(***************************************************************************)
EstimatesFit == \A i \in DOMAIN history : history[i].est \in {0, history[i].usd}
LandedIsKnown == op = "landed" => \E i \in DOMAIN landed : landed[i].attemptAt = Current.at
Unreceived(d) == IF op = "landed" /\ DayOf(Current.at) = d THEN Current.usd ELSE 0
CounterHasRoom ==
  state.spentUsdToday + (IF op = "landed" THEN Current.est ELSE 0) <= Moved(landed, Tracked)

BackedInv == ChainTypeOK /\ EstimatesFit /\ LandedIsKnown /\ CounterHasRoom

(* Until the first crash the operations nobody waits for are those of      *)
(* failed attempts, and when every attempt was counted for what it moved   *)
(* nothing else has moved.  An attempt begins below the cap.               *)
FloatsAreFailures ==
  \A o \in floating :
    \E i \in DOMAIN history : history[i].at = o.attemptAt /\ history[i].outcome = "failed"
AllCounted == \A i \in DOMAIN history : ~Uncounted(history[i])
ChainIsCounted ==
  \A d \in Nat : Moved(landed, d) <= Limiter!DaySpend(history, d) + Unreceived(d)
BegunBelowCap ==
  history # <<>> =>
    Limiter!DaySpend(history, DayOf(Current.at)) <
      Current.policy.cap + (IF Current.outcome = "ok" THEN Current.est ELSE 0)

CappedInv ==
  /\ crashes = 0 => FloatsAreFailures
  /\ crashes = 0 /\ AllCounted => ChainIsCounted
  /\ BegunBelowCap

----------------------------------------------------------------------------
(***************************************************************************)
(* What a step does to the attempts and to the counter.                    *)
(***************************************************************************)
\* The counter stays as it is or starts a day at 0.
SpendStaysOrRestarts ==
  \/ state'.spentUsdToday = state.spentUsdToday /\ state'.dayStart = state.dayStart
  \/ state'.spentUsdToday = 0 /\ ~Swapping

LEMMA RollStaysOrRestarts ==
  ASSUME NEW s \in AgentState, NEW t \in Nat
  PROVE  \/ /\ RollDay(s, t).spentUsdToday = s.spentUsdToday
            /\ RollDay(s, t).dayStart = s.dayStart
         \/ RollDay(s, t).spentUsdToday = 0
  BY DEF RollDay, AgentState

\* An attempt begins: its estimate is what it moves, or nothing.
LEMMA AttemptBegins ==
  ASSUME TypeOK, LoopInv, SettleOffer \/ RunIntent
  PROVE  /\ Allowed(policy, state, now) /\ policy \in Policies
         /\ ~Swapping /\ Swapping' /\ now' = now /\ crashes' = crashes
         /\ SpendStaysOrRestarts
         /\ \E a \in AttemptType :
              /\ history' = Append(history, a) /\ a.at = now /\ a.outcome = "running"
              /\ a.policy = policy /\ a.est \in {0, a.usd}
<1>1. PICK a \in AttemptType :
        /\ history' = Append(history, a) /\ a.at = now /\ a.outcome = "running"
        /\ a.policy = policy
        /\ ~Swapping /\ Swapping' /\ now' = now
        /\ state'.dayStart = UtcDayStart(now)
        /\ state'.spentUsdToday = SpentForToday(state, now)
  BY SwapBegins
<1>2. Allowed(policy, state, now) /\ policy \in Policies BY SwapBegins
<1>3. SpendStaysOrRestarts
  BY <1>1 DEF SpendStaysOrRestarts, SpentForToday, ResetsDailySpend
<1>4. crashes' = crashes BY DEF SettleOffer, RunIntent, world
<1>5. PICK intent, place, kind, s : StartSwap(intent, place, kind, s) /\ intent.est \in {0, intent.usd}
  <2>1. CASE SettleOffer
    <3>1. Head(queue) \in PeerIntent BY <2>1, HeadTailProperties DEF SettleOffer, TypeOK
    <3>2. Head(queue).est \in {0, Head(queue).usd} BY <3>1, EstimateAssumption
    <3> QED BY <2>1, <3>2 DEF SettleOffer
  <2>2. CASE RunIntent
    <3> DEFINE i == PickNextIntent(policy, state)
    <3>1. i \in 1 .. Len(policy.intents) /\ policy.intents \in Seq(IntentType)
      BY <1>2, <2>2, Picked, OfPolicies DEF RunIntent, TypeOK
    <3>2. i \in DOMAIN policy.intents BY <3>1, LenProperties
    <3>3. policy.intents[i].est \in {0, policy.intents[i].usd}
      BY <1>2, <3>2, EstimateAssumption
    <3> QED BY <2>2, <3>3 DEF RunIntent
  <2> QED BY <2>1, <2>2
<1>6. a.est \in {0, a.usd}
  <2> DEFINE b == [at |-> now, tick |-> ticks, source |-> kind, place |-> place,
                   usd |-> intent.usd, est |-> intent.est,
                   policy |-> policy, key |-> key, outcome |-> "running"]
  <2>1. Append(history, b) = Append(history, a) BY <1>1, <1>5 DEF StartSwap
  <2>2. b.est \in {0, b.usd} BY <1>5
  <2> HIDE DEF b
  <2>3. a = b BY <2>1 DEF TypeOK
  <2> QED BY <2>2, <2>3
<1> QED BY <1>1, <1>2, <1>3, <1>4, <1>6

\* The loop takes a step that neither ends an attempt nor kills the process.
LEMMA OthersShape ==
  ASSUME TypeOK, LoopInv, Others
  PROVE  /\ UNCHANGED onChain
         /\ crashes' = crashes
         /\ SpendStaysOrRestarts
         /\ \/ history' = history /\ (Swapping' <=> Swapping)
            \/ SettleOffer \/ RunIntent
<1>0. now \in Nat /\ state \in AgentState /\ UNCHANGED onChain
  BY DaemonAssumption DEF TypeOK, Others
<1> DEFINE Quiet == /\ crashes' = crashes /\ SpendStaysOrRestarts
                    /\ history' = history /\ (Swapping' <=> Swapping)
<1> USE DEF world, memory, Swapping, SpendStaysOrRestarts
<1>1. ASSUME NEW file \in Policies, Boot(file) PROVE Quiet
  BY <1>1 DEF Boot, InitialAgentState
<1>2. ASSUME WakeUp PROVE Quiet BY <1>2 DEF WakeUp
<1>3. ASSUME LeaveLoop PROVE Quiet BY <1>3 DEF LeaveLoop
<1>4. ASSUME ReloadFails PROVE Quiet BY <1>4 DEF ReloadFails, StartTick, EndTick
<1>5. ASSUME Rebuild PROVE Quiet BY <1>5 DEF Rebuild
<1>6. ASSUME RebuildFails PROVE Quiet BY <1>6 DEF RebuildFails, EndTick
<1>7. ASSUME SkipPoll PROVE Quiet BY <1>7 DEF SkipPoll
<1>8. ASSUME StartPoll PROVE Quiet BY <1>8 DEF StartPoll
<1>9. ASSUME SkipOffer PROVE Quiet BY <1>9 DEF SkipOffer
<1>10. ASSUME EndPoll PROVE Quiet BY <1>10 DEF EndPoll
<1>11. ASSUME RegularBlocked PROVE Quiet BY <1>11 DEF RegularBlocked, EndTick
<1>12. ASSUME Shutdown PROVE Quiet BY <1>12 DEF Shutdown
<1>13. ASSUME Tick PROVE Quiet BY <1>13 DEF Tick
<1>14. ASSUME NoEnabledIntent PROVE Quiet
  BY <1>0, <1>14, RollStaysOrRestarts DEF NoEnabledIntent, EndTick
<1>15. ASSUME NEW file \in Policies, Reload(file) PROVE Quiet
  BY <1>15 DEF Reload, StartTick
<1>16. ASSUME NEW matched, PollReturns(matched) PROVE Quiet BY <1>16 DEF PollReturns
<1>17. ASSUME Exited PROVE Quiet BY <1>17 DEF Exited, vars
<1>18. CASE SettleOffer \/ RunIntent BY <1>0, <1>18, AttemptBegins
<1> QED
  BY <1>0, <1>1, <1>2, <1>3, <1>4, <1>5, <1>6, <1>7, <1>8, <1>9, <1>10, <1>11, <1>12, <1>13, <1>14, <1>15, <1>16, <1>17, <1>18
     DEF Others, LoopStep

----------------------------------------------------------------------------
(***************************************************************************)
(* The counter is backed by the chain.                                     *)
(***************************************************************************)
LEMMA TrackedTyped == ASSUME TypeOK PROVE Tracked \in Nat /\ state.spentUsdToday \in Nat
<1>1. state \in AgentState BY DEF TypeOK
<1> QED BY <1>1, OfState, DayTyped DEF Tracked

LEMMA CurrentTyped ==
  ASSUME TypeOK, history # <<>>
  PROVE  /\ Current \in AttemptType /\ Current = history[Len(history)]
         /\ Len(history) \in DOMAIN history /\ Len(history) \in Nat \ {0}
         /\ DOMAIN history = 1 .. Len(history) /\ history \in Seq(AttemptType)
<1>1. history \in Seq(AttemptType) BY DEF TypeOK
<1>2. /\ Len(history) \in Nat \ {0} /\ DOMAIN history = 1 .. Len(history)
      /\ Len(history) \in 1 .. Len(history)
  BY <1>1, EmptySeq, LenProperties
<1>3. Current = history[Len(history)] BY DEF Current, Last
<1> QED BY <1>1, <1>2, <1>3, ElementOfSeq

LEMMA InFlightTyped ==
  ASSUME TypeOK, LoopInv, Swapping
  PROVE  /\ Current \in AttemptType /\ history # <<>> /\ InFlight \in Operation
         /\ InFlight.attemptAt = Current.at /\ InFlight.usd = Current.usd
<1>1. history # <<>> BY DEF LoopInv
<1>2. Current \in AttemptType BY <1>1, CurrentTyped
<1>3. Current.at \in Nat /\ Current.usd \in Nat BY <1>2, OfAttempts
<1> QED BY <1>1, <1>2, <1>3 DEF InFlight, Operation

\* The loop takes a step; an operation that is out keeps its attempt.
LEMMA BackedOthers ==
  ASSUME TypeOK, LoopInv, TypeOK', BackedInv, Others
  PROVE  BackedInv'
<1>1. /\ op' = op /\ floating' = floating /\ landed' = landed
      /\ SpendStaysOrRestarts
      /\ \/ history' = history /\ (Swapping' <=> Swapping)
         \/ SettleOffer \/ RunIntent
  BY OthersShape DEF onChain
<1>2. /\ op \in {"none", "sent", "landed"} /\ (op # "none" => Swapping)
      /\ floating \subseteq Operation /\ landed \in Seq(Landing)
  BY DEF BackedInv, ChainTypeOK
<1>3. Swapping => history' = history /\ Swapping'
  BY <1>1, AttemptBegins
<1>4. ChainTypeOK' BY <1>1, <1>2, <1>3 DEF ChainTypeOK
<1>5. EstimatesFit'
  <2>1. CASE history' = history BY <2>1 DEF BackedInv, EstimatesFit
  <2>2. CASE SettleOffer \/ RunIntent
    <3>1. PICK a \in AttemptType : history' = Append(history, a) /\ a.est \in {0, a.usd}
      BY <2>2, AttemptBegins
    <3>2. history \in Seq(AttemptType) BY DEF TypeOK
    <3>3. PICK g : g = Append(history, a) OBVIOUS
    <3>4. /\ DOMAIN g = 1 .. Len(history) + 1 /\ DOMAIN history = 1 .. Len(history)
          /\ \A i \in 1 .. Len(history) : g[i] = history[i]
          /\ g[Len(history) + 1] = a /\ Len(history) \in Nat
      BY <3>2, <3>3, Appended
    <3>5. ASSUME NEW i \in DOMAIN g PROVE g[i].est \in {0, g[i].usd}
      <4>1. i \in 1 .. Len(history) \/ i = Len(history) + 1 BY <3>4
      <4> QED BY <3>1, <3>4, <4>1 DEF BackedInv, EstimatesFit
    <3>6. history' = g BY <3>1, <3>3
    <3> QED BY <3>5, <3>6 DEF EstimatesFit
  <2> QED BY <1>1, <2>1, <2>2
<1>6. LandedIsKnown'
  BY <1>1, <1>2, <1>3 DEF BackedInv, LandedIsKnown, Current
<1>7. CounterHasRoom'
  <2>1. Tracked' \in Nat /\ Moved(landed, Tracked') \in Nat
    <3>1. Tracked' \in Nat BY TrackedTyped, DayTyped, OfState DEF TypeOK, Tracked, DayOf
    <3> QED BY <1>2, <3>1, MovedTyped
  <2>2. CASE state'.spentUsdToday = state.spentUsdToday /\ state'.dayStart = state.dayStart
    <3>1. Tracked' = Tracked BY <2>2 DEF Tracked, DayOf
    <3> QED BY <1>1, <1>2, <1>3, <2>2, <3>1 DEF BackedInv, CounterHasRoom, Current
  <2>3. CASE state'.spentUsdToday = 0 /\ ~Swapping
    <3>1. op' = "none" BY <1>1, <1>2, <2>3
    <3> QED BY <1>1, <2>1, <2>3, <3>1 DEF CounterHasRoom
  <2> QED BY <1>1, <2>2, <2>3 DEF SpendStaysOrRestarts
<1> QED BY <1>4, <1>5, <1>6, <1>7 DEF BackedInv

\* The attempt is over; it succeeds only with the receipt of what landed.
LEMMA BackedEnds ==
  ASSUME TypeOK, LoopInv, CountersInv, BackedInv, NEW ok \in BOOLEAN, SwapEnds(ok),
         ok => op = "landed", op' = "none", landed' = landed, floating' \subseteq Operation
  PROVE  BackedInv'
<1>1. PICK o \in {"ok", "failed"} : history' = [history EXCEPT ![Len(history)].outcome = o]
  BY SwapOver
<1>2. /\ Swapping /\ history # <<>> /\ history \in Seq(AttemptType) /\ Current \in AttemptType
      /\ state' = AfterSwap(policy, state, Current.at, Current.est, ok)
      /\ policy \in Policies /\ state \in AgentState
      /\ Current.at \in Nat /\ Current.est \in Nat
  BY SwapOver, OfAttempts DEF TypeOK
<1>3. ChainTypeOK' BY DEF BackedInv, ChainTypeOK
<1>4. EstimatesFit'
  <2> DEFINE n == Len(history)
             g == history'
  <2>0. g = [history EXCEPT ![n].outcome = o] BY <1>1
  <2> HIDE DEF g
  <2>1. DOMAIN g = 1 .. n /\ DOMAIN history = 1 .. n BY <1>2, <2>0, OutcomePut
  <2>2. n \in Nat \ {0} BY <1>2, <2>0, OutcomePut
  <2>3. \A i \in 1 .. n : g[i].est = history[i].est BY <1>2, <2>0, OutcomePut
  <2>4. \A i \in 1 .. n - 1 : g[i] = history[i] BY <1>2, <2>0, OutcomePut
  <2>5. g[n] = [history[n] EXCEPT !.outcome = o] BY <1>2, <2>0, OutcomePut
  <2>6. history[n] \in AttemptType BY <1>2, <2>2, ElementOfSeq
  <2>7. g[n].usd = history[n].usd BY <2>5, <2>6 DEF AttemptType
  <2> HIDE DEF n
  <2>8. ASSUME NEW i \in 1 .. n PROVE g[i].est \in {0, g[i].usd}
    <3>1. g[i].usd = history[i].usd
      <4>1. CASE i = n BY <2>7, <4>1
      <4>2. CASE i # n
        <5>1. i \in 1 .. n - 1 BY <2>2, <4>2
        <5> QED BY <2>4, <5>1
      <4> QED BY <4>1, <4>2
    <3>2. history[i].est \in {0, history[i].usd} BY <2>1 DEF BackedInv, EstimatesFit
    <3> QED BY <2>3, <3>1, <3>2
  <2>9. \A i \in DOMAIN g : g[i].est \in {0, g[i].usd} BY <2>1, <2>8
  <2> QED BY <2>9 DEF g, EstimatesFit
<1>5. LandedIsKnown' BY DEF LandedIsKnown
<1>6. CounterHasRoom'
  <2>1. /\ state'.dayStart = state.dayStart
        /\ state'.spentUsdToday =
             IF ok THEN state.spentUsdToday + Current.est ELSE state.spentUsdToday
    BY <1>2, Settled
  <2>2. Tracked' = Tracked BY <2>1 DEF Tracked, DayOf
  <2>3. /\ Moved(landed, Tracked) \in Nat /\ state.spentUsdToday \in Nat
        /\ state.spentUsdToday + (IF op = "landed" THEN Current.est ELSE 0)
             <= Moved(landed, Tracked)
    BY MovedTyped, TrackedTyped DEF BackedInv, ChainTypeOK, CounterHasRoom
  <2>4. state'.spentUsdToday <= Moved(landed, Tracked) BY <1>2, <2>1, <2>3
  <2>5. state'.spentUsdToday + 0 = state'.spentUsdToday BY <1>2, <2>1, <2>3
  <2> QED BY <2>2, <2>4, <2>5 DEF CounterHasRoom
<1> QED BY <1>3, <1>4, <1>5, <1>6 DEF BackedInv

\* The process dies, and with it the counter.
LEMMA BackedDies ==
  ASSUME TypeOK, BackedInv, Crash, op' = "none", landed' = landed, floating' \subseteq Operation
  PROVE  BackedInv'
<1>1. ChainTypeOK' BY DEF BackedInv, ChainTypeOK
<1>2. EstimatesFit' /\ LandedIsKnown' BY DEF Crash, EstimatesFit, LandedIsKnown
<1>3. CounterHasRoom'
  <2>1. now \in Nat BY DaemonAssumption DEF TypeOK
  <2>2. state'.spentUsdToday = 0 /\ state'.dayStart \in Nat
    BY <2>1, DayTyped DEF Crash, InitialAgentState
  <2>3. Tracked' \in Nat BY <2>2, DayTyped DEF Tracked, DayOf
  <2>4. Moved(landed, Tracked') \in Nat BY <2>3, MovedTyped DEF BackedInv, ChainTypeOK
  <2> QED BY <2>2, <2>4 DEF CounterHasRoom
<1> QED BY <1>1, <1>2, <1>3 DEF BackedInv

\* An operation lands, with or without somebody waiting for it.
LEMMA BackedLands ==
  ASSUME TypeOK, LoopInv, CountersInv, BackedInv, UNCHANGED vars, NEW e \in Landing,
         landed' = Append(landed, e), floating' \subseteq Operation,
         \/ op' = op
         \/ /\ op = "sent" /\ op' = "landed"
            /\ e.attemptAt = Current.at /\ e.usd = Current.usd
  PROVE  BackedInv'
<1>1. history' = history /\ state' = state /\ (Swapping' <=> Swapping) /\ Current' = Current
  BY DEF vars, memory, Swapping, Current
<1>2. /\ landed \in Seq(Landing) /\ op \in {"none", "sent", "landed"} /\ (op # "none" => Swapping)
      /\ DOMAIN landed = 1 .. Len(landed) /\ Len(landed) \in Nat
  BY LenProperties DEF BackedInv, ChainTypeOK
<1>3. /\ landed' \in Seq(Landing) /\ DOMAIN landed' = 1 .. Len(landed) + 1
      /\ landed'[Len(landed) + 1] = e
      /\ \A i \in 1 .. Len(landed) : landed'[i] = landed[i]
  BY <1>2
<1>4. ChainTypeOK' BY <1>1, <1>2, <1>3 DEF ChainTypeOK
<1>5. EstimatesFit' BY <1>1 DEF BackedInv, EstimatesFit
<1>6. LandedIsKnown'
  <2>1. CASE op' = op
    <3>1. ASSUME op = "landed" PROVE \E i \in DOMAIN landed' : landed'[i].attemptAt = Current.at
      <4>1. PICK i \in 1 .. Len(landed) : landed[i].attemptAt = Current.at
        BY <1>2, <3>1 DEF BackedInv, LandedIsKnown
      <4>2. i \in DOMAIN landed' /\ landed'[i] = landed[i] BY <1>2, <1>3
      <4> QED BY <4>1, <4>2
    <3> QED BY <1>1, <2>1, <3>1 DEF LandedIsKnown
  <2>2. CASE op' # op
    <3>1. Len(landed) + 1 \in DOMAIN landed' BY <1>2, <1>3
    <3> QED BY <1>1, <1>3, <2>2, <3>1 DEF LandedIsKnown
  <2> QED BY <2>1, <2>2
<1>7. CounterHasRoom'
  <2>1. Tracked' = Tracked /\ Tracked \in Nat /\ state.spentUsdToday \in Nat
    BY <1>1, TrackedTyped DEF Tracked, DayOf
  <2>2. /\ Moved(landed, Tracked) \in Nat
        /\ Moved(landed', Tracked) =
             Moved(landed, Tracked) + IF DayOf(e.attemptAt) = Tracked THEN e.usd ELSE 0
        /\ e.usd \in Nat
    BY <1>2, <2>1, MovedTyped, MovedLonger DEF Landing
  <2>3. state.spentUsdToday + (IF op = "landed" THEN Current.est ELSE 0) <= Moved(landed, Tracked)
    BY DEF BackedInv, CounterHasRoom
  <2>4. op # "none" => Current.est \in Nat /\ Current.usd \in Nat
                       /\ Current.est \in {0, Current.usd} /\ DayOf(Current.at) = Tracked
    <3> SUFFICES ASSUME Swapping
                 PROVE  Current.est \in Nat /\ Current.usd \in Nat
                        /\ Current.est \in {0, Current.usd} /\ DayOf(Current.at) = Tracked
      BY <1>2
    <3>1. history # <<>> BY DEF LoopInv
    <3>2. /\ Current \in AttemptType /\ Current = history[Len(history)]
          /\ Len(history) \in DOMAIN history
      BY <3>1, CurrentTyped
    <3>3. Current.est \in {0, Current.usd} BY <3>2 DEF BackedInv, EstimatesFit
    <3>4. DayOf(Current.at) = Tracked BY DEF CountersInv, SpendIsTracked
    <3> QED BY <3>2, <3>3, <3>4, OfAttempts
  <2>5. state.spentUsdToday + (IF op' = "landed" THEN Current.est ELSE 0) <= Moved(landed', Tracked)
    <3>1. CASE op' = op
      <4>1. CASE op = "landed" BY <2>1, <2>2, <2>3, <2>4, <3>1, <4>1
      <4>2. CASE op # "landed" BY <2>1, <2>2, <2>3, <3>1, <4>2
      <4> QED BY <4>1, <4>2
    <3>2. CASE op' # op
      <4>1. /\ op = "sent" /\ op' = "landed" /\ DayOf(e.attemptAt) = Tracked
            /\ e.usd = Current.usd
        BY <2>4, <3>2
      <4> QED BY <2>1, <2>2, <2>3, <2>4, <4>1
    <3> QED BY <3>1, <3>2
  <2> QED BY <1>1, <2>1, <2>5 DEF CounterHasRoom
<1> QED BY <1>4, <1>5, <1>6, <1>7 DEF BackedInv

\* Nothing changes but that an operation is sent.
LEMMA BackedSends ==
  ASSUME BackedInv, UNCHANGED <<vars, floating, landed>>,
         op' = op \/ (Swapping /\ op = "none" /\ op' = "sent")
  PROVE  BackedInv'
<1>1. /\ history' = history /\ state' = state /\ (Swapping' <=> Swapping) /\ Current' = Current
      /\ Tracked' = Tracked
  BY DEF vars, memory, Swapping, Current, Tracked, DayOf
<1>2. ChainTypeOK' /\ EstimatesFit' /\ LandedIsKnown'
  BY <1>1 DEF BackedInv, ChainTypeOK, EstimatesFit, LandedIsKnown
<1>3. CounterHasRoom' BY <1>1 DEF BackedInv, CounterHasRoom
<1> QED BY <1>2, <1>3 DEF BackedInv

----------------------------------------------------------------------------
(***************************************************************************)
(* A day moves one swap more than the cap.                                 *)
(***************************************************************************)
\* No attempt and no operation is touched.
LEMMA CappedKeeps ==
  ASSUME CappedInv, history' = history, crashes' = crashes, floating' = floating,
         landed' = landed, op' = op \/ (op # "landed" /\ op' # "landed")
  PROVE  CappedInv'
<1>1. Current' = Current BY DEF Current
<1>2. AllCounted' <=> AllCounted BY DEF AllCounted, Uncounted
<1>3. FloatsAreFailures' <=> FloatsAreFailures BY DEF FloatsAreFailures
<1>4. \A d \in Nat : Unreceived(d)' = Unreceived(d) BY <1>1 DEF Unreceived, DayOf
<1>5. ChainIsCounted' <=> ChainIsCounted
  BY <1>4 DEF ChainIsCounted, Limiter!DaySpend, Moved
<1>6. BegunBelowCap' <=> BegunBelowCap
  BY <1>1 DEF BegunBelowCap, Limiter!DaySpend, DayOf
<1> QED BY <1>2, <1>3, <1>5, <1>6 DEF CappedInv

\* An attempt begins, below the cap.
LEMMA CappedBegins ==
  ASSUME TypeOK, LoopInv, CountersInv, BackedInv, CappedInv, SettleOffer \/ RunIntent,
         UNCHANGED onChain
  PROVE  CappedInv'
<1>1. PICK a \in AttemptType :
        /\ history' = Append(history, a) /\ a.at = now /\ a.outcome = "running"
        /\ a.policy = policy
  BY AttemptBegins
<1>2. /\ Allowed(policy, state, now) /\ policy \in Policies /\ ~Swapping
      /\ crashes' = crashes /\ history \in Seq(AttemptType)
      /\ op' = op /\ floating' = floating /\ landed' = landed
  BY AttemptBegins DEF TypeOK, onChain
<1>3. op = "none" BY <1>2 DEF BackedInv, ChainTypeOK
<1> DEFINE n == Len(history)
<1>4. PICK g : g = Append(history, a) OBVIOUS
<1>5. /\ DOMAIN g = 1 .. n + 1 /\ DOMAIN history = 1 .. n /\ n \in Nat
      /\ \A i \in 1 .. n : g[i] = history[i]
      /\ g[n + 1] = a /\ Last(g) = a
  BY <1>2, <1>4, Appended
<1>6. history' = g /\ Current' = a BY <1>1, <1>4, <1>5 DEF Current
<1>7. \A i \in 1 .. n : i \in DOMAIN g BY <1>5
<1> HIDE DEF n
<1>8. FloatsAreFailures => FloatsAreFailures'
  <2> SUFFICES ASSUME FloatsAreFailures, NEW o \in floating
               PROVE  \E i \in DOMAIN g : g[i].at = o.attemptAt /\ g[i].outcome = "failed"
    BY <1>2, <1>6 DEF FloatsAreFailures
  <2>1. PICK i \in 1 .. n : history[i].at = o.attemptAt /\ history[i].outcome = "failed"
    BY <1>5 DEF FloatsAreFailures
  <2> QED BY <1>5, <1>7, <2>1
<1>9. AllCounted' => AllCounted
  <2>1. AllCounted' => \A i \in DOMAIN g : ~Uncounted(g[i])
    BY <1>2, <1>6 DEF AllCounted, Uncounted
  <2> QED BY <1>5, <1>7, <2>1 DEF AllCounted
<1>10. ChainIsCounted => ChainIsCounted'
  <2> SUFFICES ASSUME ChainIsCounted, NEW d \in Nat
               PROVE  Moved(landed, d) <= Limiter!DaySpend(g, d) + 0
    BY <1>2, <1>3, <1>6 DEF ChainIsCounted, Unreceived, Moved, Limiter!DaySpend
  <2>1. Limiter!DaySpend(g, d) = Limiter!DaySpend(history, d)
    BY <1>1, <1>2, <1>4, SpendAppended
  <2>2. Moved(landed, d) <= Limiter!DaySpend(history, d) + 0
    BY <1>3 DEF ChainIsCounted, Unreceived
  <2> QED BY <2>1, <2>2
<1>11. BegunBelowCap'
  <2>1. /\ SpentForToday(state, now) = Limiter!DaySpend(history, DayOf(now))
        /\ DayOf(now) \in Nat
    BY SpentIsDaySpend DEF CountersInv
  <2>2. SpentForToday(state, now) < policy.cap
    <3>1. state \in AgentState BY DEF TypeOK
    <3>2. SpentForToday(state, now) \in Nat /\ policy.cap \in Nat
      BY <1>2, <3>1, OfState, OfPolicies DEF SpentForToday
    <3>3. ~(SpentForToday(state, now) >= policy.cap) BY <1>2 DEF Allowed, BlockReason
    <3> QED BY <3>2, <3>3
  <2>3. Limiter!DaySpend(g, DayOf(now)) = Limiter!DaySpend(history, DayOf(now))
    BY <1>1, <1>2, <1>4, <2>1, SpendAppended
  <2>4. policy.cap \in Nat BY <1>2, OfPolicies
  <2>5. Limiter!DaySpend(g, DayOf(a.at)) < a.policy.cap + (IF a.outcome = "ok" THEN a.est ELSE 0)
    BY <1>1, <2>1, <2>2, <2>3, <2>4
  <2> QED BY <1>6, <2>5 DEF BegunBelowCap, Limiter!DaySpend, DayOf
<1> QED BY <1>2, <1>8, <1>9, <1>10, <1>11 DEF CappedInv

\* The attempt is over.  What it sent and nobody received now floats, and it failed;
\* what landed is counted, or the attempt is one that was not.
LEMMA CappedEnds ==
  ASSUME TypeOK, LoopInv, CountersInv, BackedInv, CappedInv, NEW ok \in BOOLEAN, SwapEnds(ok),
         ok => op = "landed", op' = "none", landed' = landed,
         \A o \in floating' : o \in floating \/ (op = "sent" /\ o = InFlight)
  PROVE  CappedInv'
<1> DEFINE n == Len(history)
           a == history[n]
<1>1. PICK o \in {"ok", "failed"} :
        /\ o = IF ok THEN "ok" ELSE "failed"
        /\ history' = [history EXCEPT ![Len(history)].outcome = o]
  BY SwapOver
<1>2. /\ Swapping /\ history # <<>> /\ history \in Seq(AttemptType) /\ crashes' = crashes
      /\ Current = a /\ a \in AttemptType /\ DOMAIN history = 1 .. n /\ n \in Nat \ {0}
      /\ n \in 1 .. n /\ InFlight.attemptAt = a.at
  BY SwapOver, CurrentTyped, InFlightTyped DEF SwapEnds, world
<1>3. a.outcome = "running" /\ a.est \in {0, a.usd} /\ a.est \in Nat /\ a.usd \in Nat /\ a.at \in Nat
  BY <1>2, OfAttempts DEF LoopInv, BackedInv, EstimatesFit
<1>4. PICK g : g = [history EXCEPT ![Len(history)].outcome = o] OBVIOUS
<1>5. /\ DOMAIN g = 1 .. n /\ \A i \in 1 .. n - 1 : g[i] = history[i]
      /\ Len(g) = n /\ g # <<>> /\ g[n] = [a EXCEPT !.outcome = o]
  <2>1. Len(g) = Len(history) BY <1>2, <1>4, OutcomePut
  <2>2. DOMAIN g = 1 .. Len(history) BY <1>2, <1>4, OutcomePut
  <2>3. \A i \in 1 .. Len(history) - 1 : g[i] = history[i] BY <1>2, <1>4, OutcomePut
  <2>4. g[Len(history)] = [history[Len(history)] EXCEPT !.outcome = o] BY <1>2, <1>4, OutcomePut
  <2>5. g # <<>> BY <1>2, <1>4, OutcomePut
  <2> QED BY <2>1, <2>2, <2>3, <2>4, <2>5
<1>6. /\ g[n].outcome = o /\ g[n].at = a.at /\ g[n].est = a.est /\ g[n].usd = a.usd
      /\ g[n].policy = a.policy
  BY <1>2, <1>5 DEF AttemptType
<1>7. history' = g /\ Last(g) = g[n] /\ Current' = g[n]
  BY <1>1, <1>4, <1>5 DEF Current, Last
<1>8. /\ \A i \in 1 .. n : i \in 1 .. n - 1 \/ i = n
      /\ \A i \in 1 .. n - 1 : i \in 1 .. n
  <2>1. n \in Nat \ {0} BY <1>2
  <2> HIDE DEF n
  <2> QED BY <2>1
<1>10. \A d \in Nat : Limiter!DaySpend(g, d) =
         Limiter!DaySpend(history, d) + IF o = "ok" /\ DayOf(a.at) = d THEN a.est ELSE 0
  BY <1>2, <1>3, <1>4, SpendEnded
<1>11. \A d \in Nat : Limiter!DaySpend(history, d) \in Int BY <1>2, SpendIsTotal
<1> HIDE DEF n, a
<1>12. FloatsAreFailures => FloatsAreFailures'
  <2> SUFFICES ASSUME FloatsAreFailures, NEW f \in floating'
               PROVE  \E i \in DOMAIN g : g[i].at = f.attemptAt /\ g[i].outcome = "failed"
    BY <1>7 DEF FloatsAreFailures
  <2>1. CASE f \in floating
    <3>1. PICK i \in 1 .. n : history[i].at = f.attemptAt /\ history[i].outcome = "failed"
      BY <1>2, <2>1 DEF FloatsAreFailures
    <3>2. i \in 1 .. n - 1 BY <1>3, <1>8, <3>1 DEF a
    <3> QED BY <1>5, <3>1, <3>2
  <2>2. CASE op = "sent" /\ f = InFlight
    <3>1. o = "failed" BY <1>1, <2>2
    <3> QED BY <1>2, <1>5, <1>6, <2>2, <3>1
  <2> QED BY <2>1, <2>2
<1>13. AllCounted' => AllCounted /\ ~Uncounted(g[n])
  <2> SUFFICES ASSUME AllCounted' PROVE AllCounted /\ ~Uncounted(g[n]) OBVIOUS
  <2>1. \A i \in 1 .. n : ~Uncounted(g[i])
    BY <1>5, <1>7 DEF AllCounted, Uncounted
  <2>2. ASSUME NEW i \in 1 .. n PROVE ~Uncounted(history[i])
    <3>1. CASE i \in 1 .. n - 1 BY <1>5, <2>1, <3>1
    <3>2. CASE i = n
      <4>1. ~(g[n].est < g[n].usd) BY <1>2, <2>1 DEF Uncounted
      <4>2. ~(a.est < a.usd) /\ a.outcome # "failed" BY <1>3, <1>6, <4>1
      <4> QED BY <3>2, <4>2 DEF Uncounted, a
    <3> QED BY <1>8, <3>1, <3>2
  <2> QED BY <1>2, <2>1, <2>2 DEF AllCounted
<1>14. ChainIsCounted /\ ~Uncounted(g[n]) => ChainIsCounted'
  <2> SUFFICES ASSUME ChainIsCounted, ~Uncounted(g[n]), NEW d \in Nat
               PROVE  Moved(landed, d) <= Limiter!DaySpend(g, d) + 0
    BY <1>7 DEF ChainIsCounted, Unreceived, Moved, Limiter!DaySpend
  <2>1. Moved(landed, d) <= Limiter!DaySpend(history, d) + Unreceived(d) BY DEF ChainIsCounted
  <2>2. Limiter!DaySpend(history, d) \in Int BY <1>11
  <2>3. Limiter!DaySpend(g, d) =
          Limiter!DaySpend(history, d) + IF o = "ok" /\ DayOf(a.at) = d THEN a.est ELSE 0
    BY <1>10
  <2>4. Moved(landed, d) \in Nat BY MovedTyped DEF BackedInv, ChainTypeOK
  <2>5. CASE ok
    <3>1. o = "ok" /\ op = "landed" BY <1>1, <2>5
    <3>2. a.est = a.usd BY <1>3, <1>6 DEF Uncounted
    <3>3. Unreceived(d) = IF DayOf(a.at) = d THEN a.usd ELSE 0 BY <1>2, <3>1 DEF Unreceived
    <3> QED BY <1>3, <2>1, <2>2, <2>3, <2>4, <3>1, <3>2, <3>3
  <2>6. CASE ~ok
    <3>1. o = "failed" BY <1>1, <2>6
    <3>2. op # "landed" BY <1>2, <1>6, <3>1 DEF Uncounted, BackedInv, LandedIsKnown
    <3>3. Unreceived(d) = 0 BY <3>2 DEF Unreceived
    <3> QED BY <2>1, <2>2, <2>3, <2>4, <3>1, <3>3
  <2> QED BY <2>5, <2>6
<1>15. BegunBelowCap'
  <2> DEFINE day == DayOf(a.at)
  <2>1. day \in Nat /\ a.policy.cap \in Nat BY <1>2, <1>3, DayTyped, OfAttempts, OfPolicies
  <2>2. Limiter!DaySpend(history, day) < a.policy.cap + 0
    BY <1>2, <1>3 DEF CappedInv, BegunBelowCap
  <2>3. Limiter!DaySpend(g, day) = Limiter!DaySpend(history, day) + IF o = "ok" THEN a.est ELSE 0
    BY <1>10, <2>1
  <2>4. Limiter!DaySpend(history, day) \in Int BY <1>11, <2>1
  <2>5. Limiter!DaySpend(g, day) < a.policy.cap + (IF o = "ok" THEN a.est ELSE 0)
    BY <1>3, <2>1, <2>2, <2>3, <2>4
  <2> QED BY <1>6, <1>7, <2>5 DEF BegunBelowCap, Limiter!DaySpend, DayOf
<1> QED BY <1>2, <1>12, <1>13, <1>14, <1>15 DEF CappedInv

LEMMA CappedDies ==
  ASSUME TypeOK, Crash PROVE CappedInv'
<1>1. crashes' # 0 /\ history' = <<>> BY DEF Crash, TypeOK
<1> QED BY <1>1 DEF CappedInv, BegunBelowCap

\* An operation lands: that of the attempt in flight, or one that makes a failed
\* attempt an uncounted one.
LEMMA CappedLands ==
  ASSUME TypeOK, LoopInv, BackedInv, CappedInv, UNCHANGED vars, NEW e \in Landing,
         landed' = Append(landed, e),
         \/ /\ op = "sent" /\ op' = "landed" /\ floating' = floating
            /\ e.attemptAt = Current.at /\ e.usd = Current.usd
         \/ /\ op' = op /\ floating' \subseteq floating
            /\ \E o \in floating : e.attemptAt = o.attemptAt
  PROVE  CappedInv'
<1>1. history' = history /\ crashes' = crashes /\ Current' = Current
  BY DEF vars, world, Current
<1>2. landed \in Seq(Landing) BY DEF BackedInv, ChainTypeOK
<1>3. /\ DOMAIN landed = 1 .. Len(landed) /\ DOMAIN landed' = 1 .. Len(landed) + 1
      /\ Len(landed) \in Nat /\ landed'[Len(landed) + 1] = e
      /\ \A i \in 1 .. Len(landed) : landed'[i] = landed[i]
  BY <1>2
<1>4. /\ \A i \in DOMAIN landed : i \in DOMAIN landed' /\ landed'[i] = landed[i]
      /\ Len(landed) + 1 \in DOMAIN landed'
  BY <1>3
<1>5. FloatsAreFailures => FloatsAreFailures' BY <1>1 DEF FloatsAreFailures
<1>6. AllCounted' => AllCounted
  BY <1>1, <1>4 DEF AllCounted, Uncounted
<1>7. FloatsAreFailures /\ AllCounted' => op = "sent" /\ op' = "landed"
                                          /\ e.attemptAt = Current.at /\ e.usd = Current.usd
  <2> SUFFICES ASSUME FloatsAreFailures, AllCounted',
                      NEW o \in floating, e.attemptAt = o.attemptAt
               PROVE  FALSE
    OBVIOUS
  <2>1. PICK i \in DOMAIN history : history[i].at = o.attemptAt /\ history[i].outcome = "failed"
    BY DEF FloatsAreFailures
  <2>2. landed'[Len(landed) + 1].attemptAt = history[i].at BY <1>3, <2>1
  <2> QED BY <1>1, <1>4, <2>1, <2>2 DEF AllCounted, Uncounted
<1>8. FloatsAreFailures /\ AllCounted' /\ ChainIsCounted => ChainIsCounted'
  <2> SUFFICES ASSUME ChainIsCounted, op = "sent", op' = "landed",
                      e.attemptAt = Current.at, e.usd = Current.usd, NEW d \in Nat
               PROVE  Moved(landed', d) <=
                        Limiter!DaySpend(history, d)
                          + IF DayOf(Current.at) = d THEN Current.usd ELSE 0
    BY <1>1, <1>7 DEF ChainIsCounted, Unreceived, Moved, DayOf, Limiter!DaySpend
  <2>1. Moved(landed, d) <= Limiter!DaySpend(history, d) + 0
    BY DEF ChainIsCounted, Unreceived
  <2>2. /\ Moved(landed', d) = Moved(landed, d) + IF DayOf(Current.at) = d THEN Current.usd ELSE 0
        /\ Moved(landed, d) \in Nat /\ Current.usd \in Nat
    BY <1>2, MovedTyped, MovedLonger DEF Landing
  <2>3. Limiter!DaySpend(history, d) \in Int BY SpendIsTotal DEF TypeOK
  <2> QED BY <2>1, <2>2, <2>3
<1>9. BegunBelowCap' BY <1>1 DEF CappedInv, BegunBelowCap, Limiter!DaySpend, DayOf
<1> QED BY <1>1, <1>5, <1>6, <1>8, <1>9 DEF CappedInv

----------------------------------------------------------------------------
(***************************************************************************)
(* The theorems.                                                           *)
(***************************************************************************)
ChainInv == DaemonInv /\ BackedInv /\ CappedInv

LEMMA ChainStarts == ChainInit => ChainInv
<1> SUFFICES ASSUME ChainInit PROVE ChainInv OBVIOUS
<1>1. Init /\ op = "none" /\ floating = {} /\ landed = <<>> BY DEF ChainInit
<1>2. DaemonInv
  <2>1. TypeOK /\ LoopInv BY <1>1, TypeInit
  <2> QED BY <1>1, <2>1, CountersInit DEF DaemonInv
<1>3. history = <<>> /\ DOMAIN history = {} /\ state.spentUsdToday = 0
  BY <1>1 DEF Init, InitialAgentState
<1>4. landed \in Seq(Landing) BY <1>1
<1>5. Moved(landed, Tracked) \in Nat BY <1>4, MovedTyped
<1>6. BackedInv
  BY <1>1, <1>3, <1>4, <1>5
     DEF BackedInv, ChainTypeOK, EstimatesFit, LandedIsKnown, CounterHasRoom
<1>7. \A d \in Nat : Moved(landed, d) = 0
  <2> SUFFICES ASSUME NEW d \in Nat PROVE Moved(landed, d) = 0 OBVIOUS
  <2>1. MovedAt(landed, d) \in Seq(Nat) /\ Len(MovedAt(landed, d)) = 0
    BY <1>1, <1>4, MovedTyped
  <2>2. MovedAt(landed, d) = <<>> BY <2>1, EmptySeq
  <2> QED BY <2>2, TotalOfEmpty DEF Moved
<1>8. \A d \in Nat : Limiter!DaySpend(history, d) = 0
  <2>1. history \in Seq(AttemptType) /\ \A i \in 1 .. Len(history) : FALSE BY <1>3
  <2> QED BY <2>1, SpendOfNone
<1>9. CappedInv
  BY <1>1, <1>3, <1>7, <1>8
     DEF CappedInv, FloatsAreFailures, ChainIsCounted, Unreceived, BegunBelowCap
<1> QED BY <1>2, <1>6, <1>9 DEF ChainInv

\* With its operations or without, the daemon takes the steps of DaemonAgent.
LEMMA StepsAreDaemons == [ChainNext]_allVars => [Next]_vars
  BY DEF ChainNext, Others, Dies, AttemptFails, SendUserOperation, OpLands, ReceiptArrives,
         FloatingLands, allVars, Next, Loop

LEMMA ChainSteps == ChainInv /\ [ChainNext]_allVars => ChainInv'
<1> SUFFICES ASSUME ChainInv, [ChainNext]_allVars PROVE ChainInv' OBVIOUS
<1>1. TypeOK /\ LoopInv /\ CountersInv /\ BackedInv /\ CappedInv BY DEF ChainInv, DaemonInv
<1>2. DaemonInv' /\ TypeOK'
  BY <1>1, StepsAreDaemons, TypeStep, LoopStepInv, CountersStep DEF DaemonInv
<1>3. op \in {"none", "sent", "landed"} /\ floating \subseteq Operation /\ (op # "none" => Swapping)
  BY <1>1 DEF BackedInv, ChainTypeOK
<1>4. CASE Others
  <2>1. /\ UNCHANGED onChain /\ crashes' = crashes
        /\ history' = history \/ SettleOffer \/ RunIntent
    BY <1>1, <1>4, OthersShape
  <2>2. BackedInv' BY <1>1, <1>2, <1>4, BackedOthers
  <2>3. CappedInv'
    <3>1. CASE history' = history BY <1>1, <2>1, <3>1, CappedKeeps DEF onChain
    <3>2. CASE SettleOffer \/ RunIntent BY <1>1, <2>1, <3>2, CappedBegins
    <3> QED BY <2>1, <3>1, <3>2
  <2> QED BY <1>2, <2>2, <2>3 DEF ChainInv
<1>5. CASE Dies
  <2>1. /\ Crash /\ op' = "none" /\ landed' = landed
        /\ \A o \in floating' : o \in floating \/ (op = "sent" /\ o = InFlight)
    BY <1>5 DEF Dies, Abandon
  <2>2. floating' \subseteq Operation BY <1>1, <1>3, <2>1, InFlightTyped
  <2>3. BackedInv' BY <1>1, <2>1, <2>2, BackedDies
  <2>4. CappedInv' BY <1>1, <2>1, CappedDies
  <2> QED BY <1>2, <2>3, <2>4 DEF ChainInv
<1>6. CASE AttemptFails
  <2>1. /\ SwapEnds(FALSE) /\ op' = "none" /\ landed' = landed
        /\ \A o \in floating' : o \in floating \/ (op = "sent" /\ o = InFlight)
    BY <1>6 DEF AttemptFails, Abandon
  <2>2. floating' \subseteq Operation BY <1>1, <1>3, <2>1, InFlightTyped
  <2>3. BackedInv' BY <1>1, <2>1, <2>2, BackedEnds
  <2>4. CappedInv' BY <1>1, <2>1, CappedEnds
  <2> QED BY <1>2, <2>3, <2>4 DEF ChainInv
<1>7. CASE ReceiptArrives
  <2>1. SwapEnds(TRUE) /\ op = "landed" /\ op' = "none" /\ landed' = landed /\ floating' = floating
    BY <1>7 DEF ReceiptArrives
  <2>2. BackedInv' BY <1>1, <1>3, <2>1, BackedEnds
  <2>3. CappedInv' BY <1>1, <2>1, CappedEnds
  <2> QED BY <1>2, <2>2, <2>3 DEF ChainInv
<1>8. CASE SendUserOperation \/ UNCHANGED allVars
  <2>1. /\ UNCHANGED <<vars, floating, landed>>
        /\ op' = op \/ (Swapping /\ op = "none" /\ op' = "sent")
    BY <1>8 DEF SendUserOperation, allVars, onChain
  <2>2. BackedInv' BY <1>1, <2>1, BackedSends
  <2>3. CappedInv' BY <1>1, <2>1, CappedKeeps DEF vars, world
  <2> QED BY <1>2, <2>2, <2>3 DEF ChainInv
<1>9. CASE OpLands \/ FloatingLands
  <2>1. PICK o \in Operation :
          /\ UNCHANGED vars /\ Land(o) /\ floating' \subseteq floating
          /\ \/ /\ op = "sent" /\ op' = "landed" /\ floating' = floating
                /\ o.attemptAt = Current.at /\ o.usd = Current.usd
             \/ op' = op /\ o \in floating
    <3>1. CASE OpLands BY <1>1, <1>3, <3>1, InFlightTyped DEF OpLands
    <3>2. CASE FloatingLands BY <1>3, <3>2 DEF FloatingLands
    <3> QED BY <1>9, <3>1, <3>2
  <2> DEFINE e == [attemptAt |-> o.attemptAt, usd |-> o.usd, at |-> now]
  <2>2. now \in Nat BY <1>1, DaemonAssumption DEF TypeOK
  <2>3. e \in Landing /\ e.attemptAt = o.attemptAt /\ e.usd = o.usd
    BY <2>2 DEF Operation, Landing
  <2>4. landed' = Append(landed, e) BY <2>1 DEF Land
  <2> HIDE DEF e
  <2>5. BackedInv' BY <1>1, <1>3, <2>1, <2>3, <2>4, BackedLands
  <2>6. CappedInv' BY <1>1, <2>1, <2>3, <2>4, CappedLands
  <2> QED BY <1>2, <2>5, <2>6 DEF ChainInv
<1> QED BY <1>4, <1>5, <1>6, <1>7, <1>8, <1>9 DEF ChainNext

LEMMA ChainInvariant == ChainSpec => []ChainInv
  BY ChainStarts, ChainSteps, PTL DEF ChainSpec

(* What the daemon promises it promises on chain too: with its operations  *)
(* in flight it takes no step that DaemonAgent does not.                   *)
THEOREM DaemonOnChainIsDaemon == ChainSpec => Spec
<1>1. ChainInit => Init BY DEF ChainInit
<1> QED BY <1>1, StepsAreDaemons, PTL DEF ChainSpec, Spec

(* An operation is in flight during a swap only, and what lands has the    *)
(* time and the value of an attempt.                                       *)
THEOREM ChainTyped == ChainSpec => []ChainTypeOK
<1>1. ChainInv => ChainTypeOK BY DEF ChainInv, BackedInv
<1> QED BY <1>1, ChainInvariant, PTL

(* The daily counter holds no dollar that an attempt of its day did not    *)
(* move, however receipts, time-outs, midnights and crashes interleave.    *)
THEOREM CounterBacked == ChainSpec => []CounterIsBacked
<1>1. ChainInv => CounterIsBacked
  <2> SUFFICES ASSUME ChainInv PROVE CounterIsBacked OBVIOUS
  <2>1. /\ TypeOK /\ LoopInv /\ op \in {"none", "sent", "landed"} /\ (op # "none" => Swapping)
        /\ state.spentUsdToday + (IF op = "landed" THEN Current.est ELSE 0)
             <= Moved(landed, Tracked)
    BY DEF ChainInv, DaemonInv, BackedInv, ChainTypeOK, CounterHasRoom
  <2>2. state.spentUsdToday \in Nat /\ Moved(landed, Tracked) \in Nat
    BY <2>1, TrackedTyped, MovedTyped DEF ChainInv, BackedInv, ChainTypeOK
  <2>3. Swapping => Current.est \in Nat BY <2>1, InFlightTyped, OfAttempts
  <2>4. state.spentUsdToday <= Moved(landed, Tracked) BY <2>1, <2>2, <2>3
  <2> QED BY <2>4 DEF CounterIsBacked, MovedByAttemptsOf, Moved, MovedAt, Tracked, DayOf
<1> QED BY <1>1, ChainInvariant, PTL

(* Without a crash or an uncounted attempt, a day's attempts have moved    *)
(* less than the cap and one swap more, whatever is still in flight.       *)
THEOREM OneSwapOver == ChainSpec => []OvershootIsOneSwap
<1>1. ChainInv => OvershootIsOneSwap
  <2> SUFFICES ASSUME ChainInv, history # <<>>, crashes = 0, AllCounted
               PROVE  Moved(landed, DayOf(Current.at)) < Current.policy.cap + Current.usd
    BY DEF OvershootIsOneSwap, AllCounted, MovedByAttemptsOf, Moved, MovedAt, DayOf
  <2> DEFINE d == DayOf(Current.at)
             spend == Limiter!DaySpend(history, d)
  <2>1. TypeOK /\ LoopInv /\ BackedInv /\ CappedInv BY DEF ChainInv, DaemonInv
  <2>2. /\ Current \in AttemptType /\ Current = history[Len(history)]
        /\ Len(history) \in DOMAIN history /\ history \in Seq(AttemptType)
    BY <2>1, CurrentTyped
  <2>3. /\ Current.est \in {0, Current.usd} /\ Current.usd \in Nat /\ Current.est \in Nat
        /\ Current.policy.cap \in Nat /\ d \in Nat
    BY <2>1, <2>2, OfAttempts, OfPolicies, DayTyped DEF BackedInv, EstimatesFit
  <2>4. Current.outcome = "running" <=> Swapping BY <2>1, <2>2 DEF LoopInv
  <2>5. /\ Moved(landed, d) <= spend + Unreceived(d)
        /\ spend < Current.policy.cap + (IF Current.outcome = "ok" THEN Current.est ELSE 0)
    BY <2>1, <2>3 DEF CappedInv, ChainIsCounted, BegunBelowCap
  <2>6. Unreceived(d) = IF op = "landed" THEN Current.usd ELSE 0 BY DEF Unreceived
  <2>7. op = "landed" => Current.outcome # "ok" BY <2>1, <2>4 DEF BackedInv, ChainTypeOK
  <2>8. spend \in Int /\ Moved(landed, d) \in Nat
    BY <2>1, <2>2, <2>3, SpendIsTotal, MovedTyped DEF BackedInv, ChainTypeOK
  <2> HIDE DEF d, spend
  <2>9. Moved(landed, d) < Current.policy.cap + Current.usd
    <3>1. CASE op = "landed" BY <2>3, <2>5, <2>6, <2>7, <2>8, <3>1
    <3>2. CASE op # "landed" BY <2>3, <2>5, <2>6, <2>8, <3>2
    <3> QED BY <3>1, <3>2
  <2> QED BY <2>9 DEF d
<1> QED BY <1>1, ChainInvariant, PTL

(* Receipts that are lost and operations that land late do not loosen the   *)
(* constraints: the history of the attempts is still one that the limiter   *)
(* permits, and no swap begins after SIGTERM (agent.ts:136, 629-645, 872).  *)
THEOREM LimitedOnChain == ChainSpec => LimiterSpec /\ NoSwapAfterShutdown
BY DaemonOnChainIsDaemon, ImplementsLimiter, ShutdownStartsNone
============================================================================
