------------------------- MODULE DaemonAgentProofs -------------------------
(***************************************************************************)
(* What DaemonAgent keeps, for every policy, every peer and every number   *)
(* of ticks: its types, the key it signs with, the attempts it never       *)
(* starts, the turns it gives its own intents, and the constraints of the  *)
(* operator, which its counters enforce because they agree with the        *)
(* history of its attempts.                                                *)
(***************************************************************************)
EXTENDS DaemonAgent, TotalsProofs, SequenceTheorems

----------------------------------------------------------------------------
(***************************************************************************)
(* The invariants.  TypeOK is inductive with LoopInv only: a swap is on    *)
(* record with a tick from 1 on because the loop counts before it acts.    *)
(***************************************************************************)
LoopInv ==
  /\ pc \in {"rebuild", "poll", "polling", "settle", "peerSwap", "regular", "regularSwap"}
       => ticks >= 1
  /\ pc \in {"poll", "polling", "settle", "peerSwap", "regular", "regularSwap"}
       => key = policy.key
  /\ pc = "down" => history = <<>>
  /\ \A i \in DOMAIN history :
       history[i].outcome = "running" <=> Swapping /\ i = Len(history)
  /\ Swapping => history # <<>> /\ Current.policy = policy
  /\ SignerFollowsPolicy


(* The counters of AgentState, told from the history of the attempts: when *)
(* the last one was made; that the failures counted since the last success *)
(* are all there were; that a run of failures long enough has halted the   *)
(* daemon; what the day being tracked has spent, no attempt being later.   *)
Ended == IF Swapping THEN Len(history) - 1 ELSE Len(history)

LastSwapIsLast ==
  state.lastSwapAt = IF Ended = 0 THEN -1 ELSE history[Ended].at
FailuresAreRun ==
  LET f == state.consecutiveFailures
  IN  f <= Ended /\ (f < Ended => history[Ended - f].outcome = "ok")
HaltIsKnown == Limiter!Halted(history) => state.halted

DayOf(t) == t \div DayLength
Tracked == DayOf(state.dayStart)
SpendIsTracked ==
  /\ state.dayStart = Tracked * DayLength
  /\ Tracked <= DayOf(now)
  /\ \A i \in DOMAIN history : DayOf(history[i].at) <= Tracked
  /\ Swapping => DayOf(Current.at) = Tracked
  /\ state.spentUsdToday = Limiter!DaySpend(history, Tracked)

CountersInv == LastSwapIsLast /\ FailuresAreRun /\ HaltIsKnown /\ SpendIsTracked

----------------------------------------------------------------------------
(***************************************************************************)
(* Sequences and records.                                                  *)
(***************************************************************************)
LEMMA Appended ==
  ASSUME NEW h \in Seq(AttemptType), NEW a \in AttemptType
  PROVE  LET g == Append(h, a) IN
         /\ g \in Seq(AttemptType) /\ Len(g) = Len(h) + 1 /\ Len(h) \in Nat
         /\ DOMAIN g = 1 .. Len(h) + 1 /\ DOMAIN h = 1 .. Len(h)
         /\ \A i \in 1 .. Len(h) : g[i] = h[i]
         /\ g[Len(h) + 1] = a /\ Last(g) = a /\ Front(g) = h /\ g # <<>>
<1> DEFINE g == Append(h, a)
<1>1. /\ g \in Seq(AttemptType) /\ Len(g) = Len(h) + 1 /\ Len(h) \in Nat
      /\ DOMAIN g = 1 .. Len(h) + 1 /\ DOMAIN h = 1 .. Len(h)
      /\ \A i \in 1 .. Len(h) : g[i] = h[i]
      /\ g[Len(h) + 1] = a /\ g # <<>>
  OBVIOUS
<1>2. Last(g) = a BY <1>1 DEF Last
<1>3. Front(g) = h
  <2>1. Front(g) = SubSeq(g, 1, Len(h)) BY <1>1 DEF Front
  <2>2. /\ SubSeq(g, 1, Len(h)) \in Seq(AttemptType) /\ Len(SubSeq(g, 1, Len(h))) = Len(h)
        /\ \A i \in 1 .. Len(h) : SubSeq(g, 1, Len(h))[i] = g[i]
    BY <1>1
  <2> QED BY <1>1, <2>1, <2>2, SeqEqual
<1> QED BY <1>1, <1>2, <1>3

\* Putting an outcome on the last attempt.
LEMMA OutcomePut ==
  ASSUME NEW h \in Seq(AttemptType), h # <<>>, NEW o \in {"ok", "failed"}, NEW g,
         g = [h EXCEPT ![Len(h)].outcome = o]
  PROVE  /\ g \in Seq(AttemptType) /\ Len(g) = Len(h) /\ Len(h) \in Nat \ {0}
         /\ DOMAIN g = 1 .. Len(h) /\ DOMAIN h = 1 .. Len(h) /\ g # <<>>
         /\ \A i \in 1 .. Len(h) - 1 : g[i] = h[i]
         /\ g[Len(h)] = [h[Len(h)] EXCEPT !.outcome = o]
         /\ \A i \in 1 .. Len(h) :
              /\ g[i].at = h[i].at /\ g[i].tick = h[i].tick /\ g[i].source = h[i].source
              /\ g[i].est = h[i].est /\ g[i].policy = h[i].policy /\ g[i].key = h[i].key
              /\ g[i].place = h[i].place
         /\ g[Len(h)].outcome = o
<1> DEFINE n == Len(h)
           e == [h[n] EXCEPT !.outcome = o]
<1>1. n \in Nat \ {0} /\ DOMAIN h = 1 .. n /\ n \in 1 .. n BY EmptySeq, LenProperties
<1>2. h[n] \in AttemptType BY <1>1, ElementOfSeq
<1>3. e \in AttemptType /\ e.outcome = o /\ e.at = h[n].at /\ e.tick = h[n].tick
      /\ e.source = h[n].source /\ e.est = h[n].est /\ e.policy = h[n].policy
      /\ e.key = h[n].key /\ e.place = h[n].place
  BY <1>2 DEF AttemptType
<1>4. g = [h EXCEPT ![n] = e] OBVIOUS
<1> HIDE DEF e
<1>5. g \in Seq(AttemptType) /\ Len(g) = n BY <1>1, <1>3, <1>4, ExceptSeq
<1>6. \A i \in 1 .. n : g[i] = IF i = n THEN e ELSE h[i] BY <1>1, <1>4
<1>7. \A i \in 1 .. n - 1 : i \in 1 .. n /\ i # n BY <1>1
<1> HIDE DEF n
<1> QED BY <1>1, <1>3, <1>5, <1>6, <1>7, LenProperties, EmptySeq DEF n, e

LEMMA OfPolicies ==
  ASSUME NEW p \in Policies
  PROVE  /\ p.key \in Key /\ p.key # Invalid /\ p # Invalid /\ p.interval \in Nat
         /\ p.startAt \in Nat /\ p.endAt \in Nat /\ p.cap \in Nat /\ p.gap \in Nat
         /\ p.halt \in Nat \ {0} /\ p.pollEvery \in Nat /\ p.intents \in Seq(IntentType)
  BY DaemonAssumption DEF PolicyType

LEMMA OfState ==
  ASSUME NEW s \in AgentState
  PROVE  /\ s.dayStart \in Nat /\ s.spentUsdToday \in Nat /\ s.lastSwapAt \in Nat \cup {-1}
         /\ s.consecutiveFailures \in Nat /\ s.halted \in BOOLEAN /\ s.intentCursor \in Nat
  BY DEF AgentState

LEMMA OfAttempts ==
  ASSUME NEW a \in AttemptType
  PROVE  /\ a.at \in Nat /\ a.est \in Nat /\ a.usd \in Nat /\ a.policy \in Policies
         /\ a.outcome \in {"running", "ok", "failed"}
  BY DEF AttemptType

----------------------------------------------------------------------------
(***************************************************************************)
(* Days.                                                                   *)
(***************************************************************************)
LEMMA DayTyped ==
  ASSUME NEW t \in Nat
  PROVE  /\ DayOf(t) \in Nat /\ UtcDayStart(t) = DayOf(t) * DayLength
         /\ UtcDayStart(t) \in Nat
  BY DaemonAssumption DEF DayOf, UtcDayStart

LEMMA DayOfStart ==
  ASSUME NEW d \in Nat
  PROVE  DayOf(d * DayLength) = d
  BY DaemonAssumption DEF DayOf

LEMMA DaysPass ==
  ASSUME NEW t \in Nat, NEW u \in Nat, t <= u
  PROVE  DayOf(t) <= DayOf(u)
  BY DaemonAssumption DEF DayOf

LEMMA StartsTellDays ==
  ASSUME NEW d \in Nat, NEW e \in Nat, d * DayLength = e * DayLength
  PROVE  d = e
  BY DaemonAssumption

----------------------------------------------------------------------------
(***************************************************************************)
(* What the operators of the model return.                                 *)
(***************************************************************************)
LEMMA Rolled ==
  ASSUME NEW s \in AgentState, NEW t \in Nat
  PROVE  LET r == RollDay(s, t) IN
         /\ r \in AgentState
         /\ r.dayStart = UtcDayStart(t)
         /\ r.spentUsdToday = SpentForToday(s, t)
         /\ r.lastSwapAt = s.lastSwapAt /\ r.halted = s.halted
         /\ r.consecutiveFailures = s.consecutiveFailures
         /\ r.intentCursor = s.intentCursor
<1>1. UtcDayStart(t) \in Nat BY DayTyped
<1> QED BY <1>1 DEF RollDay, ResetsDailySpend, SpentForToday, AgentState

LEMMA Settled ==
  ASSUME NEW s \in AgentState, NEW p \in Policies, NEW at \in Nat, NEW est \in Nat,
         NEW ok \in BOOLEAN
  PROVE  LET r == AfterSwap(p, s, at, est, ok) IN
         /\ r \in AgentState
         /\ r.dayStart = s.dayStart /\ r.lastSwapAt = at
         /\ r.consecutiveFailures = IF ok THEN 0 ELSE s.consecutiveFailures + 1
         /\ r.spentUsdToday = IF ok THEN s.spentUsdToday + est ELSE s.spentUsdToday
<1> DEFINE failures == IF ok THEN 0 ELSE s.consecutiveFailures + 1
           spent == IF ok THEN s.spentUsdToday + est ELSE s.spentUsdToday
           stops == s.halted \/ failures >= p.halt
<1>1. failures \in Nat /\ spent \in Nat /\ stops \in BOOLEAN BY OfState
<1>2. AfterSwap(p, s, at, est, ok) =
        [s EXCEPT !.lastSwapAt = at, !.consecutiveFailures = failures,
                  !.spentUsdToday = spent, !.halted = stops]
  BY DEF AfterSwap
<1> HIDE DEF failures, spent, stops
<1>3. LET r == AfterSwap(p, s, at, est, ok) IN
      /\ r \in AgentState
      /\ r.dayStart = s.dayStart /\ r.lastSwapAt = at
      /\ r.consecutiveFailures = failures /\ r.spentUsdToday = spent /\ r.halted = stops
  BY <1>1, <1>2 DEF AgentState
<1> QED BY <1>3 DEF failures, spent, stops

LEMMA SettledHalts ==
  ASSUME NEW s \in AgentState, NEW p \in Policies, NEW at \in Nat, NEW est \in Nat,
         NEW ok \in BOOLEAN,
         s.halted \/ (~ok /\ s.consecutiveFailures + 1 >= p.halt)
  PROVE  AfterSwap(p, s, at, est, ok).halted
<1>1. CASE s.halted BY <1>1 DEF AfterSwap, AgentState
<1>2. CASE ~ok /\ s.consecutiveFailures + 1 >= p.halt BY <1>2 DEF AfterSwap, AgentState
<1> QED BY <1>1, <1>2

\* A remainder is below its divisor.
LEMMA Remainder ==
  ASSUME NEW a \in Nat, NEW n \in Nat \ {0}
  PROVE  a % n \in 0 .. n - 1
  OBVIOUS

\* The cursor finds an intent of the list.
LEMMA Picked ==
  ASSUME NEW p \in Policies, NEW s \in AgentState, EnabledOffsets(p, s) # {}
  PROVE  /\ PickNextIntent(p, s) \in 1 .. Len(p.intents)
         /\ Len(p.intents) \in Nat \ {0}
         /\ p.intents[PickNextIntent(p, s)] \in IntentType
<1> DEFINE n == Len(p.intents)
           O == EnabledOffsets(p, s)
           first == CHOOSE o \in O : \A other \in O : o <= other
<1>1. n \in Nat /\ n # 0 /\ O \subseteq Nat
  BY OfPolicies DEF EnabledOffsets
<1>2. \E o \in O : \A other \in O : o <= other BY <1>1, LeastNat
<1>3. first \in O BY <1>2
<1>4. PickNextIntent(p, s) = ((s.intentCursor + first) % n) + 1
  BY DEF PickNextIntent, At
<1> HIDE DEF O, first
<1> HIDE DEF n
<1>5. (s.intentCursor + first) % n \in 0 .. n - 1
  <2>1. s.intentCursor + first \in Nat BY <1>1, <1>3, OfState
  <2>2. n \in Nat \ {0} BY <1>1
  <2> QED BY <2>1, <2>2, Remainder
<1>6. PickNextIntent(p, s) \in 1 .. n BY <1>1, <1>4, <1>5
<1> QED BY <1>1, <1>6, OfPolicies, ElementOfSeq DEF n

----------------------------------------------------------------------------
(***************************************************************************)
(* The loop: types, ticks, keys and the attempt in flight.                 *)
(***************************************************************************)
LEMMA InitialTyped ==
  ASSUME NEW t \in Nat
  PROVE  InitialAgentState(t) \in AgentState
  BY DayTyped DEF InitialAgentState, AgentState

LEMMA SleepTyped ==
  ASSUME TypeOK, pc # "down", EndTick(policy)
  PROVE  pc' \in {"load", "sleep"} /\ wakeAt' \in Nat
<1>1. policy \in Policies /\ now \in Nat /\ wakeAt \in Nat
  BY DaemonAssumption DEF TypeOK
<1> QED BY <1>1, OfPolicies DEF EndTick

\* An attempt goes on record.
LEMMA SwapRecorded ==
  ASSUME TypeOK, LoopInv, pc \in {"settle", "regular"}, NEW intent, NEW place \in Nat,
         NEW kind, NEW s,
         intent.usd \in Nat, intent.est \in Nat, kind \in {"peerSwap", "regularSwap"},
         StartSwap(intent, place, kind, s)
  PROVE  LET a == [at |-> now, tick |-> ticks, source |-> kind, place |-> place,
                   usd |-> intent.usd, est |-> intent.est,
                   policy |-> policy, key |-> key, outcome |-> "running"]
         IN  history' = Append(history, a) /\ a \in AttemptType /\ pc' = kind /\ state' = s
<1>1. /\ now \in Nat /\ ticks \in 1 .. MaxIterations /\ policy \in Policies
      /\ key = policy.key
  BY DaemonAssumption DEF TypeOK, LoopInv
<1>2. key \in Key BY <1>1, OfPolicies
<1> QED BY <1>1, <1>2 DEF StartSwap, AttemptType

LEMMA OfferTyped ==
  ASSUME TypeOK, queue # <<>>
  PROVE  Head(queue).usd \in Nat /\ Head(queue).est \in Nat
<1>1. Head(queue) \in PeerIntent BY HeadTailProperties DEF TypeOK
<1> QED BY <1>1, DaemonAssumption DEF OfferType

LEMMA IntentTyped ==
  ASSUME TypeOK, RunIntent
  PROVE  \E intent, s : /\ \E place \in Nat : StartSwap(intent, place, "regularSwap", s)
                        /\ intent.usd \in Nat /\ intent.est \in Nat
                        /\ \E c \in Nat : s = [RollDay(state, now) EXCEPT !.intentCursor = c]
<1> DEFINE i == PickNextIntent(policy, state)
           c == i % Len(policy.intents)
<1>1. state \in AgentState /\ policy \in Policies BY DEF RunIntent, TypeOK
<1>2. /\ i \in 1 .. Len(policy.intents) /\ Len(policy.intents) \in Nat \ {0}
      /\ policy.intents[i] \in IntentType
  BY <1>1, Picked DEF RunIntent
<1>3. policy.intents[i].usd \in Nat /\ policy.intents[i].est \in Nat
  BY <1>2 DEF IntentType
<1>4. c \in Nat /\ i \in Nat BY <1>2
<1>5. StartSwap(policy.intents[i], i, "regularSwap", [RollDay(state, now) EXCEPT !.intentCursor = c])
  BY DEF RunIntent
<1> QED BY <1>3, <1>4, <1>5

LEMMA TypeInit == Init => TypeOK /\ LoopInv
<1> SUFFICES ASSUME Init PROVE TypeOK /\ LoopInv OBVIOUS
<1>1. now \in Nat BY DaemonAssumption DEF Init
<1>2. InitialAgentState(now) \in AgentState BY <1>1, InitialTyped
<1>3. /\ history \in Seq(AttemptType) /\ queue \in Seq(PeerIntent) /\ Len(queue) = 0
      /\ DOMAIN history = {}
  BY DEF Init
<1>4. TypeOK
  <2>1. history \in Seq(AttemptType) /\ queue \in Seq(PeerIntent) /\ Len(queue) <= MaxOffers
    BY <1>3, DaemonAssumption
  <2>2. /\ now \in StartTime .. MaxTime /\ lastPeerPollAt \in 0 .. MaxTime /\ wakeAt \in Nat
        /\ ticks \in 0 .. MaxIterations /\ crashes \in 0 .. MaxCrashes
    BY DaemonAssumption DEF Init
  <2>3. /\ policy \in Policies \cup {Invalid} /\ key \in Key \cup {Invalid} /\ pc = "down"
        /\ shuttingDown \in BOOLEAN /\ state \in AgentState
    BY <1>2 DEF Init
  <2> QED BY <2>1, <2>2, <2>3 DEF TypeOK, Locations
<1>5. LoopInv BY <1>3 DEF Init, LoopInv, Swapping, SignerFollowsPolicy
<1> QED BY <1>4, <1>5

LEMMA TypeStep ==
  ASSUME TypeOK, LoopInv, [Next]_vars
  PROVE  TypeOK'
<1>0. /\ now \in Nat
      /\ StartTime \in Nat /\ MaxTime \in Nat /\ MaxIterations \in Nat /\ MaxCrashes \in Nat
      /\ MaxOffers \in Nat
  BY DaemonAssumption DEF TypeOK
<1> USE <1>0 DEF Locations, world, memory
<1>1. ASSUME NEW file \in Policies, Boot(file) PROVE TypeOK'
  <2>1. InitialAgentState(now) \in AgentState BY InitialTyped
  <2> QED BY <1>1, <2>1, OfPolicies DEF Boot, TypeOK
<1>2. CASE WakeUp BY <1>2 DEF WakeUp, TypeOK
<1>3. CASE LeaveLoop BY <1>3 DEF LeaveLoop, TypeOK
<1>4. CASE SkipPoll BY <1>4 DEF SkipPoll, PollDue, TypeOK
<1>5. CASE StartPoll BY <1>5 DEF StartPoll, PollDue, TypeOK
<1>6. CASE EndPoll BY <1>6 DEF EndPoll, TypeOK
<1>7. CASE Shutdown BY <1>7 DEF Shutdown, TypeOK
<1>8. CASE Tick BY <1>8 DEF Tick, TypeOK
<1>9. CASE ReloadFails
  <2>1. pc' \in {"load", "sleep"} /\ wakeAt' \in Nat
    BY <1>9, SleepTyped DEF ReloadFails, StartTick
  <2> QED BY <1>9, <2>1 DEF ReloadFails, StartTick, TypeOK
<1>10. CASE Rebuild BY <1>10, OfPolicies DEF Rebuild, TypeOK
<1>11. CASE RebuildFails
  <2>1. pc' \in {"load", "sleep"} /\ wakeAt' \in Nat
    BY <1>11, SleepTyped DEF RebuildFails
  <2> QED BY <1>11, <2>1 DEF RebuildFails, TypeOK
<1>12. CASE RegularBlocked
  <2>1. pc' \in {"load", "sleep"} /\ wakeAt' \in Nat
    BY <1>12, SleepTyped DEF RegularBlocked
  <2> QED BY <1>12, <2>1 DEF RegularBlocked, TypeOK
<1>13. ASSUME NEW file \in Policies, Reload(file) PROVE TypeOK'
  BY <1>13, OfPolicies DEF Reload, StartTick, TypeOK
<1>14. ASSUME NEW n \in 0 .. MaxOffers, NEW matched \in [1 .. n -> PeerIntent],
             PollReturns(matched)
      PROVE  TypeOK'
  <2>1. matched \in Seq(PeerIntent) /\ Len(matched) = n OBVIOUS
  <2> QED BY <1>14, <2>1 DEF PollReturns, TypeOK
<1>15. CASE SkipOffer
  <2>1. queue \in Seq(PeerIntent) /\ queue # <<>> /\ Len(queue) <= MaxOffers
    BY <1>15 DEF SkipOffer, TypeOK
  <2>2. Tail(queue) \in Seq(PeerIntent) /\ Len(Tail(queue)) <= MaxOffers
    BY <2>1, HeadTailProperties
  <2> QED BY <1>15, <2>2 DEF SkipOffer, TypeOK
<1>16. CASE SettleOffer
  <2>1. /\ queue \in Seq(PeerIntent) /\ queue # <<>> /\ Len(queue) <= MaxOffers
        /\ state \in AgentState /\ policy # Invalid /\ key # Invalid
    BY <1>16 DEF SettleOffer, TypeOK
  <2>2. /\ Tail(queue) \in Seq(PeerIntent) /\ Len(Tail(queue)) <= MaxOffers
        /\ Head(queue) \in PeerIntent
    BY <2>1, HeadTailProperties
  <2>3. Head(queue).usd \in Nat /\ Head(queue).est \in Nat
    BY <2>2, DaemonAssumption DEF OfferType
  <2>4. StartSwap(Head(queue), 0, "peerSwap", RollDay(state, now)) BY <1>16 DEF SettleOffer
  <2>5. /\ pc' = "peerSwap" /\ state' = RollDay(state, now)
        /\ \E a \in AttemptType : history' = Append(history, a)
    BY <1>16, <2>3, <2>4, SwapRecorded DEF SettleOffer
  <2>6. state' \in AgentState BY <2>1, <2>5, Rolled
  <2>7. history' \in Seq(AttemptType) BY <2>5, Appended DEF TypeOK
  <2> QED BY <1>16, <2>1, <2>2, <2>5, <2>6, <2>7 DEF SettleOffer, TypeOK
<1>17. CASE NoEnabledIntent
  <2>1. pc' \in {"load", "sleep"} /\ wakeAt' \in Nat
    BY <1>17, SleepTyped DEF NoEnabledIntent
  <2>2. state' \in AgentState BY <1>17, Rolled DEF NoEnabledIntent, TypeOK
  <2> QED BY <1>17, <2>1, <2>2 DEF NoEnabledIntent, TypeOK
<1>18. CASE RunIntent
  <2> DEFINE i == PickNextIntent(policy, state)
             c == i % Len(policy.intents)
             r == RollDay(state, now)
  <2>1. state \in AgentState /\ policy \in Policies /\ policy # Invalid /\ key # Invalid
    BY <1>18 DEF RunIntent, TypeOK
  <2>2. /\ i \in 1 .. Len(policy.intents) /\ Len(policy.intents) \in Nat \ {0}
        /\ policy.intents[i] \in IntentType
    BY <1>18, <2>1, Picked DEF RunIntent
  <2>3. policy.intents[i].usd \in Nat /\ policy.intents[i].est \in Nat
    BY <2>2 DEF IntentType
  <2>4. c \in Nat /\ i \in Nat BY <2>2
  <2>5. StartSwap(policy.intents[i], i, "regularSwap", [r EXCEPT !.intentCursor = c])
    BY <1>18 DEF RunIntent
  <2>6. r \in AgentState BY <2>1, Rolled
  <2> HIDE DEF i, c, r
  <2>7. /\ pc' = "regularSwap" /\ state' = [r EXCEPT !.intentCursor = c]
        /\ \E a \in AttemptType : history' = Append(history, a)
    BY <1>18, <2>3, <2>4, <2>5, SwapRecorded DEF RunIntent
  <2>8. state' \in AgentState BY <2>4, <2>6, <2>7 DEF AgentState
  <2>9. history' \in Seq(AttemptType) BY <2>7, Appended DEF TypeOK
  <2> QED BY <1>18, <2>1, <2>7, <2>8, <2>9 DEF RunIntent, TypeOK
<1>19. ASSUME NEW ok \in BOOLEAN, SwapEnds(ok) PROVE TypeOK'
  <2>1. /\ Swapping /\ history # <<>> /\ history \in Seq(AttemptType)
        /\ state \in AgentState /\ policy \in Policies /\ policy # Invalid /\ key # Invalid
    BY <1>19 DEF SwapEnds, Swapping, LoopInv, TypeOK
  <2>2. Current \in AttemptType
    <3>1. Len(history) \in 1 .. Len(history) BY <2>1, EmptySeq, LenProperties
    <3> QED BY <2>1, <3>1, ElementOfSeq DEF Current, Last
  <2>3. state' \in AgentState BY <1>19, <2>1, <2>2, Settled, OfAttempts DEF SwapEnds
  <2>4. history' \in Seq(AttemptType)
    <3>1. PICK o \in {"ok", "failed"} : history' = [history EXCEPT ![Len(history)].outcome = o]
      BY <1>19 DEF SwapEnds
    <3> QED BY <2>1, <3>1, OutcomePut
  <2>5. pc' \in {"settle", "load", "sleep"} /\ wakeAt' \in Nat
    BY <1>19, <2>1, SleepTyped DEF SwapEnds, Swapping, TypeOK
  <2> QED BY <1>19, <2>1, <2>3, <2>4, <2>5 DEF SwapEnds, TypeOK
<1>20. CASE Crash
  <2>1. InitialAgentState(now) \in AgentState BY InitialTyped
  <2>2. /\ <<>> \in Seq(AttemptType) /\ <<>> \in Seq(PeerIntent) /\ Len(<<>>) = 0
        /\ crashes' \in 0 .. MaxCrashes
    BY <1>20 DEF Crash, TypeOK
  <2>3. /\ history' \in Seq(AttemptType) /\ queue' \in Seq(PeerIntent)
        /\ Len(queue') <= MaxOffers /\ state' \in AgentState
    BY <1>20, <2>1, <2>2 DEF Crash
  <2>4. /\ now' \in StartTime .. MaxTime /\ lastPeerPollAt' \in 0 .. MaxTime /\ wakeAt' \in Nat
        /\ ticks' \in 0 .. MaxIterations
    BY <1>20 DEF Crash, TypeOK
  <2> QED BY <1>20, <2>2, <2>3, <2>4 DEF Crash, TypeOK
<1>21. CASE UNCHANGED vars BY <1>21 DEF vars, TypeOK
<1> QED
  BY <1>1, <1>2, <1>3, <1>4, <1>5, <1>6, <1>7, <1>8, <1>9, <1>10, <1>11, <1>12, <1>13, <1>14, <1>15, <1>16, <1>17, <1>18, <1>19, <1>20, <1>21
     DEF Next, Loop, LoopStep, Exited

\* A step that starts no attempt and ends none.
LEMMA LoopKeeps ==
  ASSUME LoopInv, history' = history, Swapping' <=> Swapping, Swapping => policy' = policy,
         pc' = "down" => pc = "down",
         pc' \in {"rebuild", "poll", "polling", "settle", "peerSwap", "regular", "regularSwap"}
           => ticks' >= 1,
         pc' \in {"poll", "polling", "settle", "peerSwap", "regular", "regularSwap"}
           => key' = policy'.key
  PROVE  LoopInv'
  BY DEF LoopInv, SignerFollowsPolicy, Current

\* Starting an attempt.
LEMMA LoopStarts ==
  ASSUME TypeOK, LoopInv, pc \in {"settle", "regular"}, pc' \in {"peerSwap", "regularSwap"},
         ticks' = ticks, policy' = policy, key' = key, NEW a \in AttemptType,
         history' = Append(history, a), a.outcome = "running", a.policy = policy, a.key = key
  PROVE  LoopInv'
<1>1. /\ history \in Seq(AttemptType) /\ ticks' >= 1 /\ key' = policy'.key /\ ~Swapping
  BY DEF TypeOK, LoopInv, Swapping
<1>2. /\ DOMAIN history' = 1 .. Len(history) + 1 /\ DOMAIN history = 1 .. Len(history)
      /\ \A i \in 1 .. Len(history) : history'[i] = history[i]
      /\ Len(history') = Len(history) + 1 /\ Len(history) \in Nat
      /\ history'[Len(history) + 1] = a /\ Last(history') = a /\ history' # <<>>
  <2>1. PICK g : g = Append(history, a) OBVIOUS
  <2>2. /\ DOMAIN g = 1 .. Len(history) + 1 /\ DOMAIN history = 1 .. Len(history)
        /\ \A i \in 1 .. Len(history) : g[i] = history[i]
        /\ Len(g) = Len(history) + 1 /\ Len(history) \in Nat
        /\ g[Len(history) + 1] = a /\ Last(g) = a /\ g # <<>>
    BY <1>1, <2>1, Appended
  <2>3. history' = g BY <2>1
  <2> QED BY <2>2, <2>3
<1>3. \A i \in 1 .. Len(history) + 1 : i \in 1 .. Len(history) \/ i = Len(history) + 1
  BY <1>2
<1>4. \A i \in 1 .. Len(history) : i # Len(history) + 1 BY <1>2
<1>5. \A i \in 1 .. Len(history) :
        history'[i].outcome # "running" /\ history'[i].key = history'[i].policy.key
  BY <1>1, <1>2 DEF LoopInv, SignerFollowsPolicy
<1>6. SignerFollowsPolicy' BY <1>1, <1>2, <1>3, <1>5 DEF SignerFollowsPolicy
<1>7. \A i \in DOMAIN history' : history'[i].outcome = "running" <=> i = Len(history')
  BY <1>2, <1>3, <1>4, <1>5
<1>8. Swapping' /\ Current' = a BY <1>2 DEF Swapping, Current
<1> QED BY <1>1, <1>2, <1>6, <1>7, <1>8 DEF LoopInv

\* What SwapEnds does to the history.
LEMMA SwapOver ==
  ASSUME TypeOK, LoopInv, NEW ok \in BOOLEAN, SwapEnds(ok)
  PROVE  /\ Swapping /\ history # <<>> /\ history \in Seq(AttemptType)
         /\ \E o \in {"ok", "failed"} :
              /\ o = IF ok THEN "ok" ELSE "failed"
              /\ history' = [history EXCEPT ![Len(history)].outcome = o]
         /\ Current = history[Len(history)] /\ Current \in AttemptType
         /\ pc' \in {"settle", "load", "sleep"} /\ (pc' = "settle" => pc = "peerSwap")
         /\ state' = AfterSwap(policy, state, Current.at, Current.est, ok)
         /\ policy \in Policies /\ policy' = policy /\ key' = key /\ ticks' = ticks
<1>1. Swapping /\ history # <<>> /\ history \in Seq(AttemptType) /\ policy \in Policies
  BY DEF SwapEnds, Swapping, LoopInv, TypeOK
<1>2. Current \in AttemptType /\ Current = history[Len(history)]
  <2>1. Len(history) \in 1 .. Len(history) BY <1>1, EmptySeq, LenProperties
  <2> QED BY <1>1, <2>1, ElementOfSeq DEF Current, Last
<1>3. pc' \in {"settle", "load", "sleep"} /\ (pc' = "settle" => pc = "peerSwap")
  BY <1>1 DEF SwapEnds, EndTick, Swapping
<1>4. \E o \in {"ok", "failed"} :
        /\ o = IF ok THEN "ok" ELSE "failed"
        /\ history' = [history EXCEPT ![Len(history)].outcome = o]
  BY DEF SwapEnds
<1> QED BY <1>1, <1>2, <1>3, <1>4 DEF SwapEnds

LEMMA LoopEnds ==
  ASSUME TypeOK, LoopInv, NEW ok \in BOOLEAN, SwapEnds(ok)
  PROVE  LoopInv'
<1>1. PICK o \in {"ok", "failed"} : history' = [history EXCEPT ![Len(history)].outcome = o]
  BY SwapOver
<1>2. /\ Swapping /\ history # <<>> /\ history \in Seq(AttemptType)
      /\ pc' \in {"settle", "load", "sleep"} /\ (pc' = "settle" => pc = "peerSwap")
      /\ policy' = policy /\ key' = key /\ ticks' = ticks
  BY SwapOver
<1>3. /\ DOMAIN history' = 1 .. Len(history) /\ DOMAIN history = 1 .. Len(history)
      /\ Len(history') = Len(history) /\ history'[Len(history)].outcome = o
      /\ \A i \in 1 .. Len(history) - 1 : history'[i] = history[i]
      /\ \A i \in 1 .. Len(history) :
           history'[i].key = history[i].key /\ history'[i].policy = history[i].policy
      /\ Len(history) \in Nat
  BY <1>1, <1>2, OutcomePut
<1>4. SignerFollowsPolicy' BY <1>3 DEF SignerFollowsPolicy, LoopInv
<1>5. ~Swapping' BY <1>2 DEF Swapping
<1>6. /\ \A i \in 1 .. Len(history) : i \in 1 .. Len(history) - 1 \/ i = Len(history)
      /\ \A i \in 1 .. Len(history) - 1 : i \in 1 .. Len(history) /\ i # Len(history)
  <2>1. Len(history) \in Nat BY <1>3
  <2> QED BY <2>1
<1>8. \A i \in DOMAIN history' : history'[i].outcome # "running"
  BY <1>3, <1>6 DEF LoopInv
<1> QED BY <1>2, <1>4, <1>5, <1>8 DEF LoopInv

LEMMA LoopStepInv ==
  ASSUME TypeOK, LoopInv, [Next]_vars
  PROVE  LoopInv'
<1>0. ticks \in Nat BY DEF TypeOK
<1> USE <1>0 DEF world, memory, Swapping
<1>1. ASSUME NEW file \in Policies, Boot(file) PROVE LoopInv'
  BY <1>1, LoopKeeps DEF Boot
<1>2. CASE WakeUp
  BY <1>2, LoopKeeps DEF WakeUp, LoopInv
<1>3. CASE LeaveLoop
  BY <1>3, LoopKeeps DEF LeaveLoop, LoopInv
<1>4. CASE ReloadFails
  BY <1>4, LoopKeeps DEF ReloadFails, StartTick, EndTick, LoopInv
<1>5. CASE Rebuild
  BY <1>5, LoopKeeps DEF Rebuild, LoopInv
<1>6. CASE RebuildFails
  BY <1>6, LoopKeeps DEF RebuildFails, EndTick, LoopInv
<1>7. CASE SkipPoll
  BY <1>7, LoopKeeps DEF SkipPoll, LoopInv
<1>8. CASE StartPoll
  BY <1>8, LoopKeeps DEF StartPoll, LoopInv
<1>9. CASE SkipOffer
  BY <1>9, LoopKeeps DEF SkipOffer, LoopInv
<1>10. CASE EndPoll
  BY <1>10, LoopKeeps DEF EndPoll, LoopInv
<1>11. CASE RegularBlocked
  BY <1>11, LoopKeeps DEF RegularBlocked, EndTick, LoopInv
<1>12. CASE NoEnabledIntent
  BY <1>12, LoopKeeps DEF NoEnabledIntent, EndTick, LoopInv
<1>13. CASE Shutdown
  BY <1>13, LoopKeeps DEF Shutdown, LoopInv
<1>14. CASE Tick
  BY <1>14, LoopKeeps DEF Tick, LoopInv
<1>15. ASSUME NEW file \in Policies, Reload(file) PROVE LoopInv'
  BY <1>15, LoopKeeps DEF Reload, StartTick, LoopInv
<1>16. ASSUME NEW matched, PollReturns(matched) PROVE LoopInv'
  BY <1>16, LoopKeeps DEF PollReturns, LoopInv
<1>17. CASE SettleOffer
  <2>1. StartSwap(Head(queue), 0, "peerSwap", RollDay(state, now)) /\ pc = "settle"
        /\ ticks' = ticks /\ policy' = policy /\ key' = key
    BY <1>17 DEF SettleOffer
  <2>2. Head(queue).usd \in Nat /\ Head(queue).est \in Nat
    BY <1>17, OfferTyped DEF SettleOffer
  <2>3. PICK a \in AttemptType :
          /\ history' = Append(history, a) /\ a.outcome = "running" /\ a.policy = policy
          /\ a.key = key /\ pc' = "peerSwap"
    BY <2>1, <2>2, SwapRecorded
  <2> QED BY <2>1, <2>3, LoopStarts
<1>18. CASE RunIntent
  <2>1. PICK intent, s : /\ \E place \in Nat : StartSwap(intent, place, "regularSwap", s)
                         /\ intent.usd \in Nat /\ intent.est \in Nat
    BY <1>18, IntentTyped DEF RunIntent
  <2>2. /\ pc = "regular" /\ ticks' = ticks /\ policy' = policy /\ key' = key
    BY <1>18 DEF RunIntent
  <2>3. PICK a \in AttemptType :
          /\ history' = Append(history, a) /\ a.outcome = "running" /\ a.policy = policy
          /\ a.key = key /\ pc' = "regularSwap"
    BY <2>1, <2>2, SwapRecorded
  <2> QED BY <2>2, <2>3, LoopStarts
<1>19. ASSUME NEW ok \in BOOLEAN, SwapEnds(ok) PROVE LoopInv' BY <1>19, LoopEnds
<1>20. CASE Crash BY <1>20 DEF Crash, LoopInv, SignerFollowsPolicy
<1>21. CASE UNCHANGED vars BY <1>21, LoopKeeps DEF vars, LoopInv
<1> QED
  BY <1>1, <1>2, <1>3, <1>4, <1>5, <1>6, <1>7, <1>8, <1>9, <1>10, <1>11, <1>12, <1>13, <1>14, <1>15, <1>16, <1>17, <1>18, <1>19, <1>20, <1>21
     DEF Next, Loop, LoopStep, Exited

(* In every reachable state the daemon's memory has its types.             *)
THEOREM DaemonTyped == Spec => []TypeOK
<1>1. Init => TypeOK /\ LoopInv BY TypeInit
<1>2. (TypeOK /\ LoopInv) /\ [Next]_vars => (TypeOK /\ LoopInv)' BY TypeStep, LoopStepInv
<1> QED BY <1>1, <1>2, PTL DEF Spec

----------------------------------------------------------------------------
(***************************************************************************)
(* What the limiter reads in the history, when an attempt is put on record *)
(* and when it is over.                                                    *)
(***************************************************************************)
Weights(h, d) == [i \in DOMAIN h |-> Limiter!SpentOn(h[i], d)]

LEMMA SpendIsTotal ==
  ASSUME NEW h \in Seq(AttemptType), NEW d \in Nat
  PROVE  /\ Limiter!DaySpend(h, d) = TotalOf(Weights(h, d))
         /\ Weights(h, d) \in Seq(Int) /\ Len(Weights(h, d)) = Len(h)
         /\ \A i \in 1 .. Len(h) :
              Weights(h, d)[i] = IF h[i].outcome = "ok" /\ DayOf(h[i].at) = d
                                 THEN h[i].est ELSE 0
         /\ Limiter!DaySpend(h, d) \in Int
<1>1. Limiter!DaySpend(h, d) = TotalOf(Weights(h, d))
  BY DEF Limiter!DaySpend, Limiter!TotalOf, TotalOf, Weights
<1>2. Len(h) \in Nat /\ DOMAIN h = 1 .. Len(h) BY LenProperties
<1>3. ASSUME NEW i \in 1 .. Len(h)
      PROVE  /\ Weights(h, d)[i] = IF h[i].outcome = "ok" /\ DayOf(h[i].at) = d
                                   THEN h[i].est ELSE 0
             /\ Weights(h, d)[i] \in Int
  <2>1. h[i] \in AttemptType BY ElementOfSeq
  <2>2. h[i].est \in Nat BY <2>1, OfAttempts
  <2> QED BY <1>2, <2>2 DEF Weights, Limiter!SpentOn, Limiter!Day, DayOf
<1>4. DOMAIN Weights(h, d) = 1 .. Len(h) BY <1>2 DEF Weights
<1>5. Weights(h, d) = [i \in 1 .. Len(h) |-> Weights(h, d)[i]] BY <1>4 DEF Weights
<1> DEFINE w == Weights(h, d)
<1> HIDE DEF w
<1>6. w \in Seq(Int) /\ Len(w) = Len(h)
  <2>1. w = [i \in 1 .. Len(h) |-> w[i]] /\ \A i \in 1 .. Len(h) : w[i] \in Int
    BY <1>3, <1>5 DEF w
  <2>2. w \in [1 .. Len(h) -> Int] BY <2>1
  <2> QED BY <1>2, <2>2
<1>7. TotalOf(w) \in Int BY <1>6, TotalTyped
<1> QED BY <1>1, <1>3, <1>6, <1>7 DEF w

LEMMA SpendOfNone ==
  ASSUME NEW h \in Seq(AttemptType), NEW d \in Nat,
         \A i \in 1 .. Len(h) : DayOf(h[i].at) # d
  PROVE  Limiter!DaySpend(h, d) = 0
<1> DEFINE w == Weights(h, d)
<1>1. /\ w \in Seq(Int) /\ Len(w) = Len(h) /\ Limiter!DaySpend(h, d) = TotalOf(w)
      /\ \A i \in 1 .. Len(h) : w[i] = 0
  BY SpendIsTotal
<1> HIDE DEF w
<1> QED BY <1>1, TotalOfZeros

LEMMA SpendAppended ==
  ASSUME NEW h \in Seq(AttemptType), NEW a \in AttemptType, a.outcome = "running",
         NEW d \in Nat
  PROVE  Limiter!DaySpend(Append(h, a), d) = Limiter!DaySpend(h, d)
<1> DEFINE g == Append(h, a)
           n == Len(h)
           v == Weights(h, d)
           w == Weights(g, d)
<1>1. /\ g \in Seq(AttemptType) /\ Len(g) = n + 1 /\ n \in Nat /\ g[n + 1] = a
      /\ \A i \in 1 .. n : g[i] = h[i]
  BY Appended
<1> HIDE DEF g
<1>2. /\ v \in Seq(Int) /\ Len(v) = n /\ Limiter!DaySpend(h, d) = TotalOf(v)
      /\ \A i \in 1 .. n : v[i] = IF h[i].outcome = "ok" /\ DayOf(h[i].at) = d
                                  THEN h[i].est ELSE 0
  BY SpendIsTotal
<1>3. /\ w \in Seq(Int) /\ Len(w) = n + 1 /\ Limiter!DaySpend(g, d) = TotalOf(w)
      /\ \A i \in 1 .. n + 1 : w[i] = IF g[i].outcome = "ok" /\ DayOf(g[i].at) = d
                                      THEN g[i].est ELSE 0
  BY <1>1, SpendIsTotal
<1> HIDE DEF v, w, n
<1>4. \A i \in 1 .. n : i \in 1 .. n + 1 BY <1>1
<1>5. n + 1 \in 1 .. n + 1 BY <1>1
<1>6. \A i \in 1 .. n : w[i] = v[i] BY <1>1, <1>2, <1>3, <1>4
<1>7. w[n + 1] = 0 BY <1>1, <1>3, <1>5
<1>8. TotalOf(w) = TotalOf(v) + w[Len(w)]
  BY <1>2, <1>3, <1>6, TotalOfLonger
<1>9. TotalOf(v) \in Int BY <1>2, TotalTyped
<1> QED BY <1>2, <1>3, <1>7, <1>8, <1>9 DEF g

LEMMA SpendEnded ==
  ASSUME NEW h \in Seq(AttemptType), h # <<>>, h[Len(h)].outcome = "running",
         NEW o \in {"ok", "failed"}, NEW g, g = [h EXCEPT ![Len(h)].outcome = o],
         NEW d \in Nat
  PROVE  Limiter!DaySpend(g, d) =
           Limiter!DaySpend(h, d)
             + IF o = "ok" /\ DayOf(h[Len(h)].at) = d THEN h[Len(h)].est ELSE 0
<1>0. /\ g \in Seq(AttemptType) /\ Len(g) = Len(h) /\ Len(h) \in Nat \ {0}
      /\ \A i \in 1 .. Len(h) - 1 : g[i] = h[i]
      /\ g[Len(h)].outcome = o
  <2>1. /\ h \in Seq(AttemptType) /\ h # <<>> /\ o \in {"ok", "failed"}
        /\ g = [h EXCEPT ![Len(h)].outcome = o]
    OBVIOUS
  <2>2. Len(g) = Len(h) BY <2>1, OutcomePut
  <2>6. g \in Seq(AttemptType) BY <2>1, OutcomePut
  <2>3. Len(h) \in Nat \ {0} BY <2>1, OutcomePut
  <2>4. \A i \in 1 .. Len(h) - 1 : g[i] = h[i] BY <2>1, OutcomePut
  <2>5. g[Len(h)].outcome = o BY <2>1, OutcomePut
  <2> QED BY <2>2, <2>3, <2>4, <2>5, <2>6
<1> DEFINE n == Len(h)
           v == Weights(h, d)
           w == Weights(g, d)
<1>1. /\ g \in Seq(AttemptType) /\ Len(g) = n /\ n \in Nat \ {0}
      /\ \A i \in 1 .. n - 1 : g[i] = h[i]
      /\ g[n].outcome = o
  BY <1>0
<1>2. g[n].at = h[n].at /\ g[n].est = h[n].est
  <2>1. n \in 1 .. n BY <1>1
  <2> QED BY <2>1, OutcomePut
<1>3. /\ v \in Seq(Int) /\ Len(v) = n /\ Limiter!DaySpend(h, d) = TotalOf(v)
      /\ \A i \in 1 .. n : v[i] = IF h[i].outcome = "ok" /\ DayOf(h[i].at) = d
                                  THEN h[i].est ELSE 0
  BY SpendIsTotal
<1>4. /\ w \in Seq(Int) /\ Len(w) = n /\ Limiter!DaySpend(g, d) = TotalOf(w)
      /\ \A i \in 1 .. n : w[i] = IF g[i].outcome = "ok" /\ DayOf(g[i].at) = d
                                  THEN g[i].est ELSE 0
  <2>1. /\ w \in Seq(Int) /\ Len(w) = Len(g) /\ Limiter!DaySpend(g, d) = TotalOf(w)
        /\ \A i \in 1 .. Len(g) : w[i] = IF g[i].outcome = "ok" /\ DayOf(g[i].at) = d
                                         THEN g[i].est ELSE 0
    BY <1>1, SpendIsTotal
  <2> QED BY <1>1, <2>1
<1>5. h[n].outcome = "running" OBVIOUS
<1> HIDE DEF v, w, n
<1>6. \A i \in 1 .. n - 1 : i \in 1 .. n BY <1>1
<1>7. n \in 1 .. n BY <1>1
<1>8. ASSUME NEW i \in 1 .. n - 1 PROVE w[i] = v[i]
  <2>1. i \in 1 .. n /\ g[i] = h[i] BY <1>1, <1>6
  <2> QED BY <1>3, <1>4, <2>1
<1>9. v[n] = 0 BY <1>3, <1>5, <1>7
<1>10. w[n] = IF o = "ok" /\ DayOf(h[n].at) = d THEN h[n].est ELSE 0
  BY <1>1, <1>2, <1>4, <1>7
<1>11. TotalOf(w) = TotalOf(v) - v[n] + w[n]
  BY <1>1, <1>3, <1>4, <1>8, TotalOfChangedLast
<1>12. TotalOf(v) \in Int /\ w[n] \in Int BY <1>3, <1>4, <1>7, TotalTyped, ElementOfSeq
<1>13. TotalOf(w) = TotalOf(v) + w[n] BY <1>9, <1>11, <1>12
<1> QED BY <1>3, <1>4, <1>10, <1>13 DEF n

\* An attempt that has just begun halts nothing, and hides no run of failures.
LEMMA HaltAppended ==
  ASSUME NEW h \in Seq(AttemptType), NEW a \in AttemptType, a.outcome = "running",
         Limiter!Halted(Append(h, a))
  PROVE  Limiter!Halted(h)
<1> DEFINE g == Append(h, a)
           n == Len(h)
<1>1. /\ n \in Nat /\ DOMAIN g = 1 .. n + 1 /\ DOMAIN h = 1 .. n /\ g[n + 1] = a
      /\ \A i \in 1 .. n : g[i] = h[i]
  BY Appended
<1>2. PICK last \in DOMAIN g :
        /\ last >= g[last].policy.halt
        /\ \A i \in last - g[last].policy.halt + 1 .. last : g[i].outcome = "failed"
  BY DEF Limiter!Halted
<1> HIDE DEF g, n
<1>3. g[last].policy.halt \in Nat \ {0}
  <2>1. last \in 1 .. n => h[last] \in AttemptType BY ElementOfSeq DEF n
  <2>2. g[last] \in AttemptType BY <1>1, <1>2, <2>1
  <2> QED BY <2>2, OfAttempts, OfPolicies
<1> DEFINE k == g[last].policy.halt
<1>4. k \in Nat \ {0} /\ last >= k /\ last \in 1 .. n + 1 BY <1>1, <1>2, <1>3
<1>5. \A i \in last - k + 1 .. last : g[i].outcome = "failed" BY <1>2
<1> HIDE DEF k
<1>6. last \in last - k + 1 .. last BY <1>1, <1>4
<1>7. last # n + 1 BY <1>1, <1>5, <1>6
<1>8. last \in 1 .. n BY <1>1, <1>4, <1>7
<1>9. \A i \in last - k + 1 .. last : h[i].outcome = "failed"
  <2> SUFFICES ASSUME NEW i \in last - k + 1 .. last PROVE h[i].outcome = "failed" OBVIOUS
  <2>1. i \in 1 .. n BY <1>1, <1>4, <1>8
  <2> QED BY <1>1, <1>5, <2>1
<1>10. h[last].policy.halt = k BY <1>1, <1>8 DEF k
<1> QED BY <1>1, <1>4, <1>8, <1>9, <1>10 DEF Limiter!Halted

\* A run of failures that the last attempt makes long enough was counted.
LEMMA HaltEnded ==
  ASSUME NEW h \in Seq(AttemptType), h # <<>>, NEW o \in {"ok", "failed"},
         NEW g, g = [h EXCEPT ![Len(h)].outcome = o], Limiter!Halted(g),
         NEW f \in Nat, f <= Len(h) - 1, f < Len(h) - 1 => h[Len(h) - 1 - f].outcome = "ok"
  PROVE  Limiter!Halted(h) \/ (o = "failed" /\ f + 1 >= h[Len(h)].policy.halt)
<1>1. Len(h) \in Nat \ {0} BY EmptySeq, LenProperties
<1>2. DOMAIN g = 1 .. Len(h) /\ DOMAIN h = 1 .. Len(h) BY OutcomePut
<1>3. \A i \in 1 .. Len(h) - 1 : g[i] = h[i] BY OutcomePut
<1>4. \A i \in 1 .. Len(h) : g[i].policy = h[i].policy BY OutcomePut
<1>5. g[Len(h)].outcome = o BY OutcomePut
<1>6. PICK last \in DOMAIN g :
        /\ last >= g[last].policy.halt
        /\ \A i \in last - g[last].policy.halt + 1 .. last : g[i].outcome = "failed"
  BY DEF Limiter!Halted
<1> DEFINE n == Len(h)
           k == h[last].policy.halt
<1>7. last \in 1 .. n /\ k \in Nat \ {0}
  <2>1. last \in 1 .. n BY <1>2, <1>6
  <2>2. h[last] \in AttemptType BY <2>1, ElementOfSeq
  <2> QED BY <2>1, <2>2, OfAttempts, OfPolicies
<1>8. /\ n \in Nat \ {0} /\ last >= k
      /\ \A i \in last - k + 1 .. last : g[i].outcome = "failed"
      /\ \A i \in 1 .. n - 1 : g[i] = h[i]
  BY <1>1, <1>3, <1>4, <1>6, <1>7
<1>9. f <= n - 1 /\ (f < n - 1 => h[n - 1 - f].outcome = "ok") OBVIOUS
<1> HIDE DEF n, k
<1>10. CASE last # n
  <2>1. last \in 1 .. n - 1 BY <1>7, <1>8, <1>10
  <2>2. ASSUME NEW i \in last - k + 1 .. last PROVE h[i].outcome = "failed"
    <3>1. i \in 1 .. n - 1 BY <1>7, <1>8, <2>1
    <3> QED BY <1>8, <3>1
  <2> QED BY <1>2, <1>7, <1>8, <2>2 DEF Limiter!Halted, k, n
<1>11. CASE last = n
  <2>1. n \in last - k + 1 .. last BY <1>7, <1>8, <1>11
  <2>2. o = "failed" BY <1>5, <1>8, <2>1 DEF n
  <2>3. ASSUME f + 1 < k PROVE FALSE
    <3>1. /\ f < n - 1 /\ n - 1 - f \in last - k + 1 .. last /\ n - 1 - f \in 1 .. n - 1
      BY <1>7, <1>8, <1>9, <1>11, <2>3
    <3>2. g[n - 1 - f].outcome = "failed" /\ g[n - 1 - f] = h[n - 1 - f] BY <1>8, <3>1
    <3> QED BY <1>9, <3>1, <3>2
  <2>4. f + 1 >= k BY <1>7, <2>3
  <2> QED BY <1>11, <2>2, <2>4 DEF k, n
<1> QED BY <1>10, <1>11

----------------------------------------------------------------------------
(***************************************************************************)
(* The counters agree with the history.                                    *)
(***************************************************************************)
\* What the daemon takes for the spend of the present day is that.
LEMMA SpentIsDaySpend ==
  ASSUME TypeOK, SpendIsTracked
  PROVE  /\ SpentForToday(state, now) = Limiter!DaySpend(history, DayOf(now))
         /\ \A i \in 1 .. Len(history) : DayOf(history[i].at) <= DayOf(now)
         /\ UtcDayStart(now) = DayOf(now) * DayLength /\ DayOf(now) \in Nat
<1>1. now \in Nat /\ state \in AgentState /\ history \in Seq(AttemptType)
  BY DaemonAssumption DEF TypeOK
<1>2. UtcDayStart(now) = DayOf(now) * DayLength /\ DayOf(now) \in Nat BY <1>1, DayTyped
<1>3. Tracked \in Nat BY <1>1, DayTyped, OfState DEF Tracked
<1>4. /\ state.dayStart = Tracked * DayLength /\ Tracked <= DayOf(now)
      /\ DOMAIN history = 1 .. Len(history)
      /\ \A i \in DOMAIN history : DayOf(history[i].at) <= Tracked
  BY <1>1, LenProperties DEF SpendIsTracked
<1>5. ASSUME NEW i \in 1 .. Len(history)
      PROVE  DayOf(history[i].at) <= Tracked /\ DayOf(history[i].at) \in Nat
  <2>1. history[i] \in AttemptType BY <1>1, ElementOfSeq
  <2> QED BY <1>4, <2>1, OfAttempts, DayTyped
<1>6. CASE Tracked = DayOf(now)
  BY <1>2, <1>4, <1>5, <1>6 DEF SpentForToday, ResetsDailySpend, SpendIsTracked
<1>7. CASE Tracked # DayOf(now)
  <2>1. UtcDayStart(now) # state.dayStart BY <1>2, <1>3, <1>4, <1>7, StartsTellDays
  <2>2. SpentForToday(state, now) = 0 BY <2>1 DEF SpentForToday, ResetsDailySpend
  <2>3. \A i \in 1 .. Len(history) :
          DayOf(history[i].at) <= DayOf(now) /\ DayOf(history[i].at) # DayOf(now)
    BY <1>2, <1>3, <1>4, <1>5, <1>7
  <2>4. Limiter!DaySpend(history, DayOf(now)) = 0 BY <1>1, <1>2, <2>3, SpendOfNone
  <2> QED BY <1>2, <2>2, <2>3, <2>4
<1> QED BY <1>6, <1>7

\* A step that starts no attempt, ends none and leaves the counters alone.
LEMMA CountersKeep ==
  ASSUME TypeOK, CountersInv, history' = history, state' = state, Swapping' <=> Swapping,
         now' \in Nat, now' >= now
  PROVE  CountersInv'
<1>1. now \in Nat /\ state \in AgentState BY DaemonAssumption DEF TypeOK
<1>2. /\ DayOf(now) <= DayOf(now') /\ DayOf(now) \in Nat /\ DayOf(now') \in Nat
      /\ Tracked \in Nat /\ Tracked' = Tracked
  BY <1>1, DaysPass, DayTyped, OfState DEF Tracked, DayOf
<1>3. SpendIsTracked' BY <1>2 DEF CountersInv, SpendIsTracked, Current
<1>4. Ended' = Ended BY DEF Ended
<1>5. LastSwapIsLast' /\ FailuresAreRun' /\ HaltIsKnown'
  BY <1>4 DEF CountersInv, LastSwapIsLast, FailuresAreRun, HaltIsKnown, Limiter!Halted
<1> QED BY <1>3, <1>5 DEF CountersInv

\* A process that starts.
LEMMA CountersFresh ==
  ASSUME TypeOK, history' = <<>>, ~Swapping', now' = now, state' = InitialAgentState(now)
  PROVE  CountersInv'
<1>1. now \in Nat BY DaemonAssumption DEF TypeOK
<1>2. /\ DayOf(now) \in Nat /\ UtcDayStart(now) = DayOf(now) * DayLength
      /\ DayOf(DayOf(now) * DayLength) = DayOf(now)
  BY <1>1, DayTyped, DayOfStart
<1>3. /\ state'.dayStart = DayOf(now) * DayLength /\ state'.spentUsdToday = 0
      /\ state'.lastSwapAt = -1 /\ state'.consecutiveFailures = 0
  BY <1>2 DEF InitialAgentState
<1>4. /\ history' \in Seq(AttemptType) /\ Len(history') = 0 /\ DOMAIN history' = {}
      /\ Ended' = 0
  BY DEF Ended
<1>5. Tracked' = DayOf(now) BY <1>2, <1>3 DEF Tracked, DayOf
<1>6. Limiter!DaySpend(history', DayOf(now)) = 0
  <2>1. \A i \in 1 .. Len(history') : DayOf(history'[i].at) # DayOf(now) BY <1>4
  <2> QED BY <1>2, <1>4, <2>1, SpendOfNone
<1>7. SpendIsTracked'
  BY <1>2, <1>3, <1>4, <1>5, <1>6 DEF SpendIsTracked, Limiter!DaySpend, DayOf
<1>8. LastSwapIsLast' /\ FailuresAreRun' /\ HaltIsKnown'
  BY <1>3, <1>4 DEF LastSwapIsLast, FailuresAreRun, HaltIsKnown, Limiter!Halted
<1> QED BY <1>7, <1>8 DEF CountersInv

\* The day that is tracked moves on.
LEMMA CountersRoll ==
  ASSUME TypeOK, CountersInv, history' = history, state' = RollDay(state, now),
         ~Swapping, ~Swapping', now' = now
  PROVE  CountersInv'
<1>1. now \in Nat /\ state \in AgentState BY DaemonAssumption DEF TypeOK
<1>2. /\ state'.dayStart = UtcDayStart(now)
      /\ state'.spentUsdToday = SpentForToday(state, now)
      /\ state'.lastSwapAt = state.lastSwapAt /\ state'.halted = state.halted
      /\ state'.consecutiveFailures = state.consecutiveFailures
  BY <1>1, Rolled
<1>3. /\ SpentForToday(state, now) = Limiter!DaySpend(history, DayOf(now))
      /\ \A i \in 1 .. Len(history) : DayOf(history[i].at) <= DayOf(now)
      /\ UtcDayStart(now) = DayOf(now) * DayLength /\ DayOf(now) \in Nat
  BY SpentIsDaySpend DEF CountersInv
<1>4. Tracked' = DayOf(now) BY <1>2, <1>3, DayOfStart DEF Tracked, DayOf
<1>5. DOMAIN history = 1 .. Len(history) BY LenProperties DEF TypeOK
<1>6. SpendIsTracked'
  BY <1>2, <1>3, <1>4, <1>5 DEF SpendIsTracked, Limiter!DaySpend, DayOf
<1>7. Ended' = Ended BY DEF Ended
<1>8. LastSwapIsLast' /\ FailuresAreRun' /\ HaltIsKnown'
  BY <1>2, <1>7 DEF CountersInv, LastSwapIsLast, FailuresAreRun, HaltIsKnown, Limiter!Halted
<1> QED BY <1>6, <1>8 DEF CountersInv

\* An attempt begins.
LEMMA CountersStart ==
  ASSUME TypeOK, LoopInv, CountersInv, ~Swapping, Swapping', now' = now,
         NEW a \in AttemptType, history' = Append(history, a), a.at = now,
         a.outcome = "running",
         state'.dayStart = UtcDayStart(now), state'.spentUsdToday = SpentForToday(state, now),
         state'.lastSwapAt = state.lastSwapAt, state'.halted = state.halted,
         state'.consecutiveFailures = state.consecutiveFailures
  PROVE  CountersInv'
<1> DEFINE n == Len(history)
<1>1. /\ history \in Seq(AttemptType) /\ n \in Nat /\ DOMAIN history = 1 .. n
      /\ now \in Nat /\ state.consecutiveFailures \in Nat
  BY DaemonAssumption, LenProperties, OfState DEF TypeOK
<1>2. /\ Len(history') = n + 1 /\ DOMAIN history' = 1 .. n + 1 /\ history'[n + 1] = a
      /\ \A i \in 1 .. n : history'[i] = history[i]
      /\ Last(history') = a
  <2>1. PICK g : g = Append(history, a) OBVIOUS
  <2>2. /\ Len(g) = n + 1 /\ DOMAIN g = 1 .. n + 1 /\ g[n + 1] = a
        /\ \A i \in 1 .. n : g[i] = history[i]
        /\ Last(g) = a
    BY <1>1, <2>1, Appended
  <2> QED BY <2>1, <2>2
<1>3. /\ SpentForToday(state, now) = Limiter!DaySpend(history, DayOf(now))
      /\ \A i \in 1 .. n : DayOf(history[i].at) <= DayOf(now)
      /\ UtcDayStart(now) = DayOf(now) * DayLength /\ DayOf(now) \in Nat
  BY SpentIsDaySpend DEF CountersInv
<1>4. Limiter!DaySpend(history', DayOf(now)) = Limiter!DaySpend(history, DayOf(now))
  BY <1>1, <1>3, SpendAppended
<1>5. Ended = n /\ Ended' = n BY <1>1, <1>2 DEF Ended
<1> HIDE DEF n
<1>6. Tracked' = DayOf(now) BY <1>3, DayOfStart DEF Tracked, DayOf
<1>7. \A i \in 1 .. n + 1 : i \in 1 .. n \/ i = n + 1 BY <1>1
<1>8. SpendIsTracked'
  <2>1. ASSUME NEW i \in 1 .. n + 1 PROVE DayOf(history'[i].at) <= DayOf(now)
    <3>1. CASE i \in 1 .. n BY <1>2, <1>3, <3>1
    <3>2. CASE i = n + 1 BY <1>2, <1>3, <3>2
    <3> QED BY <1>7, <3>1, <3>2
  <2>2. state'.dayStart = Tracked' * DayLength /\ Tracked' <= DayOf(now')
    BY <1>3, <1>6
  <2>3. state'.spentUsdToday = Limiter!DaySpend(history', Tracked')
    BY <1>3, <1>4, <1>6
  <2>4. DayOf(Last(history').at) = Tracked' BY <1>2, <1>6
  <2>5. \A i \in DOMAIN history' : DayOf(history'[i].at) <= Tracked'
    BY <1>2, <1>6, <2>1
  <2> QED BY <2>2, <2>3, <2>4, <2>5 DEF SpendIsTracked, Limiter!DaySpend, Current, DayOf
<1>9. LastSwapIsLast'
  <2>1. n # 0 => n \in 1 .. n BY <1>1
  <2> QED BY <1>2, <1>5, <2>1 DEF CountersInv, LastSwapIsLast
<1>10. FailuresAreRun'
  <2> DEFINE f == state.consecutiveFailures
  <2>1. f <= n /\ (f < n => history[n - f].outcome = "ok")
    BY <1>5 DEF CountersInv, FailuresAreRun
  <2>2. f < n => n - f \in 1 .. n BY <1>1
  <2>3. f < n => history'[n - f].outcome = "ok" BY <1>2, <2>1, <2>2
  <2> QED BY <1>5, <2>1, <2>3 DEF FailuresAreRun
<1>11. HaltIsKnown'
  <2>1. ASSUME Limiter!Halted(history') PROVE Limiter!Halted(history)
    BY <1>1, <2>1, HaltAppended
  <2> QED BY <2>1 DEF CountersInv, HaltIsKnown, Limiter!Halted
<1> QED BY <1>8, <1>9, <1>10, <1>11 DEF CountersInv

\* An attempt is over.
LEMMA CountersEnd ==
  ASSUME TypeOK, LoopInv, CountersInv, NEW ok \in BOOLEAN, SwapEnds(ok)
  PROVE  CountersInv'
<1> DEFINE n == Len(history)
<1>1. PICK o \in {"ok", "failed"} :
        /\ o = IF ok THEN "ok" ELSE "failed"
        /\ history' = [history EXCEPT ![Len(history)].outcome = o]
  BY SwapOver
<1>2. /\ Swapping /\ history # <<>> /\ history \in Seq(AttemptType)
      /\ Current = history[n] /\ Current \in AttemptType /\ Current.policy = policy
      /\ state' = AfterSwap(policy, state, Current.at, Current.est, ok)
      /\ policy \in Policies /\ now' = now /\ ~Swapping' /\ history[n].outcome = "running"
  <2>1. /\ Swapping /\ history # <<>> /\ history \in Seq(AttemptType)
        /\ Current = history[n] /\ Current \in AttemptType
        /\ state' = AfterSwap(policy, state, Current.at, Current.est, ok)
        /\ policy \in Policies /\ pc' \in {"settle", "load", "sleep"}
    BY SwapOver
  <2>2. Current.policy = policy BY <2>1 DEF LoopInv
  <2>3. n \in DOMAIN history BY <2>1, EmptySeq, LenProperties
  <2>4. history[n].outcome = "running" BY <2>1, <2>3 DEF LoopInv
  <2>5. now' = now /\ ~Swapping' BY <2>1 DEF SwapEnds, world, Swapping
  <2> QED BY <2>1, <2>2, <2>4, <2>5
<1>3. Len(history') = n /\ n \in Nat \ {0} BY <1>1, <1>2, OutcomePut
<1>4. DOMAIN history' = 1 .. n /\ DOMAIN history = 1 .. n BY <1>1, <1>2, OutcomePut
<1>5. \A i \in 1 .. n - 1 : history'[i] = history[i] BY <1>1, <1>2, OutcomePut
<1>6. \A i \in 1 .. n : history'[i].at = history[i].at BY <1>1, <1>2, OutcomePut
<1>7. history'[n].outcome = o BY <1>1, <1>2, OutcomePut
<1>8. state \in AgentState /\ now \in Nat BY DaemonAssumption DEF TypeOK
<1>9. /\ state'.dayStart = state.dayStart /\ state'.lastSwapAt = Current.at
      /\ state'.consecutiveFailures = IF ok THEN 0 ELSE state.consecutiveFailures + 1
      /\ state'.spentUsdToday = IF ok THEN state.spentUsdToday + Current.est
                                      ELSE state.spentUsdToday
      /\ state.halted \/ (~ok /\ state.consecutiveFailures + 1 >= policy.halt) => state'.halted
  <2>1. /\ state \in AgentState /\ policy \in Policies /\ ok \in BOOLEAN
        /\ Current.at \in Nat /\ Current.est \in Nat
    BY <1>2, <1>8, OfAttempts
  <2> DEFINE r == AfterSwap(policy, state, Current.at, Current.est, ok)
  <2>2. r.dayStart = state.dayStart /\ r.lastSwapAt = Current.at
    BY <2>1, Settled
  <2>5. r.consecutiveFailures = IF ok THEN 0 ELSE state.consecutiveFailures + 1
    BY <2>1, Settled
  <2>6. r.spentUsdToday = IF ok THEN state.spentUsdToday + Current.est
                               ELSE state.spentUsdToday
    BY <2>1, Settled
  <2>3. state.halted \/ (~ok /\ state.consecutiveFailures + 1 >= policy.halt) => r.halted
    BY <2>1, SettledHalts
  <2>4. state' = r BY <1>2
  <2> HIDE DEF r
  <2> QED BY <2>2, <2>3, <2>4, <2>5, <2>6
<1>10. Ended = n - 1 /\ Ended' = n BY <1>2, <1>3 DEF Ended
<1>11. Tracked \in Nat /\ Tracked' = Tracked
  BY <1>8, <1>9, DayTyped, OfState DEF Tracked, DayOf
<1>12. /\ DayOf(history[n].at) = Tracked
       /\ state.spentUsdToday = Limiter!DaySpend(history, Tracked)
  BY <1>2 DEF CountersInv, SpendIsTracked
<1>13. Limiter!DaySpend(history', Tracked) =
         Limiter!DaySpend(history, Tracked) + IF o = "ok" THEN history[n].est ELSE 0
  BY <1>1, <1>2, <1>11, <1>12, SpendEnded
<1> DEFINE f == state.consecutiveFailures
<1>14. /\ f \in Nat /\ f <= n - 1 /\ (f < n - 1 => history[n - 1 - f].outcome = "ok")
       /\ state.spentUsdToday \in Nat /\ history[n].est \in Nat
  BY <1>2, <1>8, <1>10, OfState, OfAttempts DEF CountersInv, FailuresAreRun
<1>15. HaltIsKnown'
  <2> SUFFICES ASSUME Limiter!Halted(history') PROVE state'.halted
    BY DEF HaltIsKnown, Limiter!Halted
  <2>1. Limiter!Halted(history) \/ (o = "failed" /\ f + 1 >= history[n].policy.halt)
    BY <1>1, <1>2, <1>14, HaltEnded
  <2>2. CASE Limiter!Halted(history) BY <1>9, <2>2 DEF CountersInv, HaltIsKnown
  <2>3. CASE o = "failed" /\ f + 1 >= history[n].policy.halt
    <3>1. ~ok BY <1>1, <2>3
    <3> QED BY <1>2, <1>9, <2>3, <3>1
  <2> QED BY <2>1, <2>2, <2>3
<1>16. SpendIsTracked'
  <2>1. state'.dayStart = Tracked' * DayLength /\ Tracked' <= DayOf(now')
    BY <1>2, <1>9, <1>11 DEF CountersInv, SpendIsTracked
  <2>2. \A i \in DOMAIN history' : DayOf(history'[i].at) <= Tracked'
    BY <1>4, <1>6, <1>11 DEF CountersInv, SpendIsTracked
  <2>3. state'.spentUsdToday = Limiter!DaySpend(history', Tracked')
    BY <1>1, <1>2, <1>9, <1>11, <1>12, <1>13, <1>14
  <2> QED BY <1>2, <2>1, <2>2, <2>3 DEF SpendIsTracked, Limiter!DaySpend, DayOf
<1> HIDE DEF n
<1>17. n \in 1 .. n BY <1>3
<1>18. LastSwapIsLast' BY <1>2, <1>3, <1>6, <1>9, <1>10, <1>17 DEF LastSwapIsLast
<1>19. FailuresAreRun'
  <2>1. CASE ok
    <3>1. state'.consecutiveFailures = 0 /\ history'[n - 0].outcome = "ok"
      BY <1>1, <1>3, <1>7, <1>9, <2>1
    <3> QED BY <1>3, <1>10, <3>1 DEF FailuresAreRun
  <2>2. CASE ~ok
    <3>1. state'.consecutiveFailures = f + 1 BY <1>9, <2>2
    <3>2. ASSUME f + 1 < n PROVE history'[n - (f + 1)].outcome = "ok"
      <4>1. /\ f < n - 1 /\ n - (f + 1) = n - 1 - f /\ n - 1 - f \in 1 .. n - 1
        BY <1>3, <1>14, <3>2
      <4> QED BY <1>5, <1>14, <4>1
    <3>3. f + 1 <= n BY <1>3, <1>14
    <3> QED BY <1>10, <3>1, <3>2, <3>3 DEF FailuresAreRun
  <2> QED BY <2>1, <2>2
<1> QED BY <1>15, <1>16, <1>18, <1>19 DEF CountersInv

\* What both ways of starting an attempt do.
LEMMA SwapBegins ==
  ASSUME TypeOK, LoopInv, SettleOffer \/ RunIntent
  PROVE  /\ ~shuttingDown /\ Allowed(policy, state, now) /\ policy \in Policies
         /\ \E a \in AttemptType :
              /\ history' = Append(history, a) /\ a.at = now /\ a.outcome = "running"
              /\ a.policy = policy
              /\ ~Swapping /\ Swapping' /\ now' = now
              /\ state'.dayStart = UtcDayStart(now)
              /\ state'.spentUsdToday = SpentForToday(state, now)
              /\ state'.lastSwapAt = state.lastSwapAt /\ state'.halted = state.halted
              /\ state'.consecutiveFailures = state.consecutiveFailures
<1>1. now \in Nat /\ state \in AgentState BY DaemonAssumption DEF TypeOK
<1>2. /\ ~shuttingDown /\ Allowed(policy, state, now) /\ pc \in {"settle", "regular"}
      /\ now' = now /\ policy \in Policies /\ ~Swapping
  BY DEF SettleOffer, RunIntent, TypeOK, world, Swapping
<1>3. PICK intent, kind, s :
        /\ \E place \in Nat : StartSwap(intent, place, kind, s)
        /\ kind \in {"peerSwap", "regularSwap"}
        /\ intent.usd \in Nat /\ intent.est \in Nat
        /\ \/ s = RollDay(state, now)
           \/ \E c \in Nat : s = [RollDay(state, now) EXCEPT !.intentCursor = c]
  <2>1. CASE SettleOffer
    <3>1. StartSwap(Head(queue), 0, "peerSwap", RollDay(state, now)) /\ queue # <<>>
      BY <2>1 DEF SettleOffer
    <3> QED BY <3>1, OfferTyped
  <2>2. CASE RunIntent BY <2>2, IntentTyped
  <2> QED BY <2>1, <2>2
<1>4. PICK a \in AttemptType :
        /\ history' = Append(history, a) /\ a.at = now /\ a.outcome = "running"
        /\ a.policy = policy /\ pc' = kind /\ state' = s
  BY <1>2, <1>3, SwapRecorded
<1> DEFINE r == RollDay(state, now)
<1>5. /\ r \in AgentState
      /\ r.dayStart = UtcDayStart(now) /\ r.spentUsdToday = SpentForToday(state, now)
      /\ r.lastSwapAt = state.lastSwapAt /\ r.halted = state.halted
      /\ r.consecutiveFailures = state.consecutiveFailures
  BY <1>1, Rolled
<1>6. state' = r \/ \E c \in Nat : state' = [r EXCEPT !.intentCursor = c] BY <1>3, <1>4
<1> HIDE DEF r
<1>7. /\ state'.dayStart = r.dayStart /\ state'.spentUsdToday = r.spentUsdToday
      /\ state'.lastSwapAt = r.lastSwapAt /\ state'.halted = r.halted
      /\ state'.consecutiveFailures = r.consecutiveFailures
  BY <1>5, <1>6 DEF AgentState
<1>8. Swapping' BY <1>3, <1>4 DEF Swapping
<1> QED BY <1>2, <1>4, <1>5, <1>7, <1>8

LEMMA CountersStep ==
  ASSUME TypeOK, LoopInv, CountersInv, [Next]_vars
  PROVE  CountersInv'
<1>0. now \in Nat BY DaemonAssumption DEF TypeOK
<1> USE <1>0 DEF world, memory, Swapping
<1>1. ASSUME NEW file \in Policies, Boot(file) PROVE CountersInv'
  <2>1. history = <<>> BY <1>1 DEF Boot, LoopInv
  <2> QED BY <1>1, <2>1, CountersFresh DEF Boot
<1>2. CASE WakeUp BY <1>2, CountersKeep DEF WakeUp
<1>3. CASE LeaveLoop BY <1>3, CountersKeep DEF LeaveLoop
<1>4. CASE ReloadFails BY <1>4, CountersKeep DEF ReloadFails, StartTick, EndTick
<1>5. CASE Rebuild BY <1>5, CountersKeep DEF Rebuild
<1>6. CASE RebuildFails BY <1>6, CountersKeep DEF RebuildFails, EndTick
<1>7. CASE SkipPoll BY <1>7, CountersKeep DEF SkipPoll
<1>8. CASE StartPoll BY <1>8, CountersKeep DEF StartPoll
<1>9. CASE SkipOffer BY <1>9, CountersKeep DEF SkipOffer
<1>10. CASE EndPoll BY <1>10, CountersKeep DEF EndPoll
<1>11. CASE RegularBlocked BY <1>11, CountersKeep DEF RegularBlocked, EndTick
<1>12. CASE Shutdown BY <1>12, CountersKeep DEF Shutdown
<1>13. CASE Tick BY <1>13, CountersKeep DEF Tick
<1>14. CASE NoEnabledIntent BY <1>14, CountersRoll DEF NoEnabledIntent, EndTick
<1>15. ASSUME NEW file \in Policies, Reload(file) PROVE CountersInv'
  BY <1>15, CountersKeep DEF Reload, StartTick
<1>16. ASSUME NEW matched, PollReturns(matched) PROVE CountersInv'
  BY <1>16, CountersKeep DEF PollReturns
<1>17. CASE SettleOffer \/ RunIntent
  <2>1. PICK a \in AttemptType :
          /\ history' = Append(history, a) /\ a.at = now /\ a.outcome = "running"
          /\ ~Swapping /\ Swapping' /\ now' = now
          /\ state'.dayStart = UtcDayStart(now)
          /\ state'.spentUsdToday = SpentForToday(state, now)
          /\ state'.lastSwapAt = state.lastSwapAt /\ state'.halted = state.halted
          /\ state'.consecutiveFailures = state.consecutiveFailures
    BY <1>17, SwapBegins
  <2> QED BY <2>1, CountersStart
<1>18. ASSUME NEW ok \in BOOLEAN, SwapEnds(ok) PROVE CountersInv' BY <1>18, CountersEnd
<1>19. CASE Crash BY <1>19, CountersFresh DEF Crash
<1>20. CASE UNCHANGED vars BY <1>20, CountersKeep DEF vars
<1> QED
  BY <1>1, <1>2, <1>3, <1>4, <1>5, <1>6, <1>7, <1>8, <1>9, <1>10, <1>11, <1>12, <1>13, <1>14, <1>15, <1>16, <1>17, <1>18, <1>19, <1>20
     DEF Next, Loop, LoopStep, Exited

LEMMA CountersInit == ASSUME Init, TypeOK PROVE CountersInv
<1>1. now \in Nat BY DaemonAssumption DEF TypeOK
<1>2. /\ DayOf(now) \in Nat /\ UtcDayStart(now) = DayOf(now) * DayLength
      /\ DayOf(DayOf(now) * DayLength) = DayOf(now)
  BY <1>1, DayTyped, DayOfStart
<1>3. /\ state.dayStart = DayOf(now) * DayLength /\ state.spentUsdToday = 0
      /\ state.lastSwapAt = -1 /\ state.consecutiveFailures = 0
  BY <1>2 DEF Init, InitialAgentState
<1>4. /\ history = <<>> /\ history \in Seq(AttemptType) /\ Len(history) = 0
      /\ DOMAIN history = {} /\ Ended = 0 /\ ~Swapping
  BY DEF Init, Ended, Swapping
<1>5. Tracked = DayOf(now) BY <1>2, <1>3 DEF Tracked
<1>6. Limiter!DaySpend(history, DayOf(now)) = 0
  <2>1. \A i \in 1 .. Len(history) : DayOf(history[i].at) # DayOf(now) BY <1>4
  <2> QED BY <1>2, <1>4, <2>1, SpendOfNone
<1>7. SpendIsTracked BY <1>2, <1>3, <1>4, <1>5, <1>6 DEF SpendIsTracked
<1>8. LastSwapIsLast /\ FailuresAreRun /\ HaltIsKnown
  BY <1>3, <1>4 DEF LastSwapIsLast, FailuresAreRun, HaltIsKnown, Limiter!Halted
<1> QED BY <1>7, <1>8 DEF CountersInv

----------------------------------------------------------------------------
(***************************************************************************)
(* The daemon implements its limiter.  Where the daemon looks at a counter *)
(* the limiter looks at the history, and the counters agree with it.       *)
(***************************************************************************)
LEMMA LimiterEnds == \A s : Limiter!Last(s) = Last(s) /\ Limiter!Front(s) = Front(s)
  BY DEF Limiter!Last, Limiter!Front, Last, Front

LEMMA LimiterPermits ==
  ASSUME TypeOK, LoopInv, CountersInv, ~Swapping, Allowed(policy, state, now),
         policy \in Policies
  PROVE  Limiter!Permitted(history, policy, now)
<1>1. /\ history \in Seq(AttemptType) /\ now \in Nat /\ state \in AgentState
  BY DaemonAssumption DEF TypeOK
<1>2. /\ policy.startAt \in Nat /\ policy.endAt \in Nat /\ policy.gap \in Nat
      /\ policy.cap \in Nat
  BY OfPolicies
<1>3. /\ ~state.halted /\ ~(now < policy.startAt) /\ ~(now > policy.endAt)
      /\ ~(state.lastSwapAt # -1 /\ now - state.lastSwapAt < policy.gap)
      /\ ~(SpentForToday(state, now) >= policy.cap)
  BY DEF Allowed, BlockReason
<1>4. history # <<>> => /\ Len(history) \in 1 .. Len(history)
                        /\ Last(history) = history[Len(history)]
                        /\ Last(history) \in AttemptType
  <2> SUFFICES ASSUME history # <<>>
               PROVE  /\ Len(history) \in 1 .. Len(history)
                      /\ Last(history) = history[Len(history)]
                      /\ Last(history) \in AttemptType
    OBVIOUS
  <2>1. Len(history) \in 1 .. Len(history) BY <1>1, EmptySeq, LenProperties
  <2> QED BY <1>1, <2>1, ElementOfSeq DEF Last
<1>5. ~Limiter!Running(history)
  <2> SUFFICES ASSUME history # <<>> PROVE Last(history).outcome # "running"
    BY LimiterEnds DEF Limiter!Running
  <2>1. Len(history) \in DOMAIN history BY <1>1, <1>4, LenProperties
  <2> QED BY <1>4, <2>1 DEF LoopInv
<1>6. ~Limiter!Halted(history) BY <1>3 DEF CountersInv, HaltIsKnown
<1>7. policy.startAt <= now /\ now <= policy.endAt BY <1>1, <1>2, <1>3
<1>8. history # <<>> => now - Last(history).at >= policy.gap
  <2> SUFFICES ASSUME history # <<>> PROVE now - Last(history).at >= policy.gap OBVIOUS
  <2>1. Ended = Len(history) /\ Len(history) # 0 BY <1>4 DEF Ended
  <2>2. state.lastSwapAt = Last(history).at
    BY <1>4, <2>1 DEF CountersInv, LastSwapIsLast
  <2>3. Last(history).at \in Nat BY <1>4, OfAttempts
  <2> QED BY <1>1, <1>2, <1>3, <2>2, <2>3
<1>9. Limiter!DaySpend(history, DayOf(now)) < policy.cap
  <2>1. /\ SpentForToday(state, now) = Limiter!DaySpend(history, DayOf(now))
        /\ DayOf(now) \in Nat
    BY SpentIsDaySpend DEF CountersInv
  <2>2. Limiter!DaySpend(history, DayOf(now)) \in Int BY <1>1, <2>1, SpendIsTotal
  <2> QED BY <1>2, <1>3, <2>1, <2>2
<1>10. Limiter!DaySpend(history, Limiter!Day(now)) < policy.cap
  BY <1>9 DEF Limiter!Day, DayOf
<1> QED BY <1>5, <1>6, <1>7, <1>8, <1>10, LimiterEnds DEF Limiter!Permitted

LEMMA LimiterInit == Init => Limiter!Init
  BY DEF Init, Limiter!Init

LEMMA LimiterStep ==
  ASSUME TypeOK, LoopInv, CountersInv, [Next]_vars
  PROVE  [Limiter!Next]_(Limiter!vars)
<1>0. now \in Nat BY DaemonAssumption DEF TypeOK
<1>1. CASE SettleOffer \/ RunIntent
  <2>1. /\ Allowed(policy, state, now) /\ policy \in Policies
        /\ history \in Seq(AttemptType)
    BY <1>1, SwapBegins DEF TypeOK
  <2>2. PICK a \in AttemptType :
          /\ history' = Append(history, a) /\ a.at = now /\ a.outcome = "running"
          /\ a.policy = policy /\ ~Swapping /\ now' = now
    BY <1>1, SwapBegins
  <2>3. Limiter!Permitted(history, policy, now) BY <2>1, <2>2, LimiterPermits
  <2>4. /\ Len(history') = Len(history) + 1 /\ Front(history') = history
        /\ Last(history') = a
    <3>1. PICK g : g = Append(history, a) OBVIOUS
    <3>2. Len(g) = Len(history) + 1 BY <2>1, <3>1, Appended
    <3>3. Front(g) = history /\ Last(g) = a BY <2>1, <3>1, Appended
    <3> QED BY <2>2, <3>1, <3>2, <3>3
  <2>5. Limiter!Attempt BY <2>2, <2>3, <2>4, LimiterEnds DEF Limiter!Attempt
  <2>6. now' >= now BY <1>0, <2>2
  <2> QED BY <2>5, <2>6 DEF Limiter!Next
<1>2. ASSUME NEW ok \in BOOLEAN, SwapEnds(ok) PROVE Limiter!Next
  <2>1. /\ Swapping /\ history # <<>> /\ history \in Seq(AttemptType)
        /\ \E o \in {"ok", "failed"} : history' = [history EXCEPT ![Len(history)].outcome = o]
    BY <1>2, SwapOver
  <2>2. Len(history) \in DOMAIN history BY <2>1, EmptySeq, LenProperties
  <2>3. Limiter!Running(history)
    <3>1. Last(history).outcome = "running" BY <2>1, <2>2 DEF LoopInv, Last
    <3> QED BY <2>1, <3>1, LimiterEnds DEF Limiter!Running
  <2>4. Limiter!Finish BY <2>1, <2>3 DEF Limiter!Finish
  <2>5. now' >= now BY <1>0, <1>2 DEF SwapEnds, world
  <2> QED BY <2>4, <2>5 DEF Limiter!Next
<1>3. CASE Crash BY <1>0, <1>3 DEF Crash, Limiter!Next, Limiter!Restart
<1>4. CASE Tick BY <1>0, <1>4 DEF Tick, Limiter!Next
<1>5. ASSUME \/ \E file \in Policies : Boot(file) \/ Reload(file)
             \/ \E matched : PollReturns(matched)
             \/ WakeUp \/ LeaveLoop \/ ReloadFails \/ Rebuild \/ RebuildFails
             \/ SkipPoll \/ StartPoll \/ SkipOffer \/ EndPoll
             \/ RegularBlocked \/ NoEnabledIntent \/ Shutdown \/ UNCHANGED vars
      PROVE  history' = history /\ now' = now
  BY <1>5 DEF Boot, Reload, PollReturns, WakeUp, LeaveLoop, ReloadFails, Rebuild,
              RebuildFails, SkipPoll, StartPoll, SkipOffer, EndPoll, RegularBlocked,
              NoEnabledIntent, Shutdown, vars, world, memory
<1>6. history' = history /\ now' = now => UNCHANGED Limiter!vars BY DEF Limiter!vars
<1> QED BY <1>1, <1>2, <1>3, <1>4, <1>5, <1>6 DEF Next, Loop, LoopStep, Exited

----------------------------------------------------------------------------
(***************************************************************************)
(* Turns.  From place a to place b, both taken, the round goes through     *)
(* these; the cursor stands behind the place of the daemon's last own swap *)
(* in the list of that swap's policy, and since any earlier own swap each  *)
(* enabled place on the way to the last one has had its turn.              *)
(***************************************************************************)
Arc(a, b) == {m \in Nat : IF a <= b THEN a <= m /\ m <= b ELSE m >= a \/ m <= b}
Between(a, b) == {m \in Nat : IF a < b THEN a < m /\ m < b ELSE m > a \/ m < b}

IsEnabled(p, m) == m \in DOMAIN p.intents /\ p.intents[m].enabled
LastOwn(k) ==
  /\ k \in DOMAIN history /\ IsOwn(k)
  /\ \A j \in DOMAIN history : IsOwn(j) => j <= k

PlacesExist ==
  \A k \in DOMAIN history :
    IsOwn(k) => history[k].place \in DOMAIN history[k].policy.intents
OneIsLast == \A i \in DOMAIN history : IsOwn(i) => \E k \in DOMAIN history : LastOwn(k)
CursorIsBehind ==
  \A k \in DOMAIN history :
    LastOwn(k) => state.intentCursor
                    = history[k].place % Len(history[k].policy.intents)
TurnsTaken ==
  \A i, k \in DOMAIN history :
    /\ IsOwn(i) /\ i <= k /\ LastOwn(k) /\ OwnUnderOnePolicy(i, k)
    => \A m \in Arc(history[i].place, history[k].place) :
         IsEnabled(history[i].policy, m) =>
           \E l \in i .. k : IsOwn(l) /\ history[l].place = m

TurnsInv ==
  PlacesExist /\ OneIsLast /\ CursorIsBehind /\ TurnsTaken /\ EnabledIntentsTakeTurns

\* The remainders pickNextIntent takes.
LEMMA Below ==
  ASSUME NEW n \in Nat \ {0}, NEW a \in Nat, a < n
  PROVE  a % n = a
  OBVIOUS
LEMMA Around ==
  ASSUME NEW n \in Nat \ {0}, NEW a \in Nat, n <= a, a < 2 * n
  PROVE  a % n = a - n
  OBVIOUS

\* An offset from the cursor, and the place it leads to.
LEMMA PlaceOfOffset ==
  ASSUME NEW n \in Nat \ {0}, NEW c \in 0 .. n - 1, NEW o \in 0 .. n - 1
  PROVE  ((c + o) % n) + 1 = IF c + o < n THEN c + o + 1 ELSE c + o + 1 - n
<1>1. CASE c + o < n
  <2>1. (c + o) % n = c + o BY <1>1, Below
  <2> QED BY <1>1, <2>1
<1>2. CASE ~(c + o < n)
  <2> DEFINE q == c + o
  <2>1. q \in Nat /\ n <= q /\ q < 2 * n /\ q + 1 - n = (q - n) + 1 BY <1>2
  <2> HIDE DEF q
  <2>2. q % n = q - n BY <2>1, Around
  <2>3. (q % n) + 1 = q + 1 - n BY <2>1, <2>2
  <2> QED BY <1>2, <2>3 DEF q
<1> QED BY <1>1, <1>2

\* The cursor behind place x.
LEMMA CursorOf ==
  ASSUME NEW n \in Nat \ {0}, NEW x \in 1 .. n
  PROVE  x % n = IF x < n THEN x ELSE 0
<1>1. CASE x < n
  <2>1. x % n = x BY <1>1, Below
  <2> QED BY <1>1, <2>1
<1>2. CASE x = n
  <2>1. n <= x /\ x < 2 * n BY <1>2
  <2>2. x % n = x - n BY <2>1, Around
  <2> QED BY <1>2, <2>2
<1> QED BY <1>1, <1>2

\* The next enabled place after x is taken, round the end of the list.
LEMMA PickedNext ==
  ASSUME NEW p \in Policies, NEW s \in AgentState, EnabledOffsets(p, s) # {},
         NEW x \in 1 .. Len(p.intents), s.intentCursor = x % Len(p.intents)
  PROVE  LET y == PickNextIntent(p, s) IN
         /\ IsEnabled(p, y)
         /\ \A m \in Between(x, y) : ~IsEnabled(p, m)
<1> DEFINE n == Len(p.intents)
           c == s.intentCursor
           O == EnabledOffsets(p, s)
           first == CHOOSE o \in O : \A other \in O : o <= other
           y == PickNextIntent(p, s)
           P(o) == IF c + o < n THEN c + o + 1 ELSE c + o + 1 - n
<1>1. n \in Nat \ {0} /\ DOMAIN p.intents = 1 .. n
  BY Picked, OfPolicies, LenProperties
<1>2. c = IF x < n THEN x ELSE 0 BY <1>1, CursorOf
<1>3. c \in 0 .. n - 1
  <2>1. x \in Nat /\ c = x % n BY <1>1
  <2> HIDE DEF n, c
  <2> QED BY <1>1, <2>1, Remainder
<1>4. \A o \in 0 .. n - 1 : At(p, s, o) = P(o) BY <1>1, <1>3, PlaceOfOffset DEF At
<1>5. \A o : o \in O <=> o \in 0 .. n - 1 /\ p.intents[P(o)].enabled
  BY <1>4 DEF EnabledOffsets
<1>6. first \in O /\ \A o \in O : first <= o
  <2>1. O \subseteq Nat /\ O # {} BY <1>1, <1>5
  <2>2. \E o \in O : \A other \in O : o <= other BY <2>1, LeastNat
  <2> QED BY <2>2
<1>7. y = P(first) /\ first \in 0 .. n - 1 /\ p.intents[y].enabled
  <2>1. y = At(p, s, first) BY DEF PickNextIntent
  <2> QED BY <1>4, <1>5, <1>6, <2>1
<1> HIDE DEF O, first, y
<1> HIDE DEF n, c
<1>8. y \in 1 .. n BY <1>1, <1>3, <1>7
<1>9. ASSUME NEW m \in Between(x, y), IsEnabled(p, m) PROVE FALSE
  <2> DEFINE o == IF m - 1 >= c THEN m - 1 - c ELSE m - 1 - c + n
  <2>1. m \in 1 .. n /\ p.intents[m].enabled BY <1>1, <1>9 DEF IsEnabled
  <2>2. o \in 0 .. n - 1 /\ P(o) = m BY <1>1, <1>3, <2>1
  <2>3. first <= o BY <1>5, <1>6, <2>1, <2>2
  <2>4. x \in 1 .. n BY DEF n
  <2> QED BY <1>1, <1>2, <1>7, <1>8, <1>9, <2>1, <2>2, <2>3, <2>4 DEF Between
<1> QED BY <1>1, <1>7, <1>8, <1>9 DEF IsEnabled, y

\* How the rounds add up.
LEMMA ArcGoesOn ==
  ASSUME NEW a \in Nat, NEW x \in Nat, NEW y \in Nat, NEW m \in Arc(a, y)
  PROVE  m \in Arc(a, x) \/ m \in Between(x, y) \/ m = y
  BY DEF Arc, Between
LEMMA ArcComesRound ==
  ASSUME NEW x \in Nat, NEW y \in Nat, NEW m \in Nat
  PROVE  m \in Arc(y, x) \/ m \in Between(x, y)
  BY DEF Arc, Between

\* Only sources, places and policies count.
LEMMA TurnsKeep ==
  ASSUME TypeOK, TurnsInv, DOMAIN history' = DOMAIN history,
         \A i \in DOMAIN history :
           /\ history'[i].source = history[i].source /\ history'[i].place = history[i].place
           /\ history'[i].policy = history[i].policy,
         state'.intentCursor = state.intentCursor
  PROVE  TurnsInv'
<1>1. DOMAIN history = 1 .. Len(history) /\ Len(history) \in Nat
  BY LenProperties DEF TypeOK
<1>2. \A i \in DOMAIN history : IsOwn(i)' <=> IsOwn(i) BY DEF IsOwn
<1>3. \A i, j \in DOMAIN history : OwnUnderOnePolicy(i, j)' <=> OwnUnderOnePolicy(i, j)
  <2> SUFFICES ASSUME NEW i \in DOMAIN history, NEW j \in DOMAIN history
               PROVE  OwnUnderOnePolicy(i, j)' <=> OwnUnderOnePolicy(i, j)
    OBVIOUS
  <2>1. \A k \in i .. j : k \in DOMAIN history BY <1>1
  <2> QED BY <1>2, <2>1 DEF OwnUnderOnePolicy
<1>4. \A k : LastOwn(k)' <=> LastOwn(k) BY <1>2 DEF LastOwn
<1>5. PlacesExist' BY <1>2 DEF TurnsInv, PlacesExist
<1>6. OneIsLast' BY <1>2, <1>4 DEF TurnsInv, OneIsLast
<1>7. CursorIsBehind' BY <1>4 DEF TurnsInv, CursorIsBehind
<1>8. TurnsTaken'
  <2> SUFFICES ASSUME NEW i \in DOMAIN history, NEW k \in DOMAIN history,
                      IsOwn(i), i <= k, LastOwn(k), OwnUnderOnePolicy(i, k),
                      NEW m \in Arc(history[i].place, history[k].place),
                      IsEnabled(history[i].policy, m)
               PROVE  \E l \in i .. k : IsOwn(l)' /\ history'[l].place = m
    BY <1>2, <1>3, <1>4 DEF TurnsTaken
  <2>1. \E l \in i .. k : IsOwn(l) /\ history[l].place = m BY DEF TurnsInv, TurnsTaken
  <2>2. \A l \in i .. k : l \in DOMAIN history BY <1>1
  <2> QED BY <1>2, <2>1, <2>2
<1>9. EnabledIntentsTakeTurns'
  <2> SUFFICES ASSUME NEW i \in DOMAIN history, NEW j \in DOMAIN history,
                      i < j, IsOwn(i), IsOwn(j), OwnUnderOnePolicy(i, j),
                      history[i].place = history[j].place,
                      NEW m \in DOMAIN history[i].policy.intents,
                      history[i].policy.intents[m].enabled
               PROVE  \E k \in i .. j - 1 : IsOwn(k)' /\ history'[k].place = m
    BY <1>2, <1>3 DEF EnabledIntentsTakeTurns
  <2>1. \E k \in i .. j - 1 : IsOwn(k) /\ history[k].place = m
    BY DEF TurnsInv, EnabledIntentsTakeTurns
  <2>2. \A k \in i .. j - 1 : k \in DOMAIN history BY <1>1
  <2> QED BY <1>2, <2>1, <2>2
<1> QED BY <1>5, <1>6, <1>7, <1>8, <1>9 DEF TurnsInv

LEMMA TurnsFresh ==
  ASSUME history' = <<>>
  PROVE  TurnsInv'
<1>1. DOMAIN history' = {} OBVIOUS
<1> QED BY <1>1
     DEF TurnsInv, PlacesExist, OneIsLast, CursorIsBehind, LastOwn, TurnsTaken,
         EnabledIntentsTakeTurns

\* A new attempt leaves what is said of the earlier ones.
LEMMA EarlierStay ==
  ASSUME TypeOK, NEW a \in AttemptType, history' = Append(history, a)
  PROVE  /\ Len(history) \in Nat /\ DOMAIN history = 1 .. Len(history)
         /\ DOMAIN history' = 1 .. Len(history) + 1
         /\ history'[Len(history) + 1] = a
         /\ \A i \in 1 .. Len(history) :
              history'[i] = history[i] /\ (IsOwn(i)' <=> IsOwn(i))
         /\ \A k : k = Len(history) + 1 => (IsOwn(k)' <=> a.source = "regularSwap")
         /\ \A i, j \in 1 .. Len(history) :
              OwnUnderOnePolicy(i, j)' <=> OwnUnderOnePolicy(i, j)
<1> DEFINE n == Len(history)
<1>1. /\ n \in Nat /\ DOMAIN history = 1 .. n /\ DOMAIN history' = 1 .. n + 1
      /\ history'[n + 1] = a /\ \A i \in 1 .. n : history'[i] = history[i]
  BY Appended DEF TypeOK
<1> HIDE DEF n
<1>2. \A i \in 1 .. n : IsOwn(i)' <=> IsOwn(i) BY <1>1 DEF IsOwn
<1>3. \A k : k = n + 1 => (IsOwn(k)' <=> a.source = "regularSwap") BY <1>1 DEF IsOwn
<1>4. ASSUME NEW i \in 1 .. n, NEW j \in 1 .. n
      PROVE  OwnUnderOnePolicy(i, j)' <=> OwnUnderOnePolicy(i, j)
  <2>1. \A k \in i .. j : k \in 1 .. n BY <1>1
  <2>2. \A k \in i .. j : /\ IsOwn(k)' <=> IsOwn(k)
                          /\ history'[k].policy = history[k].policy
    BY <1>1, <1>2, <2>1
  <2>3. history'[i].policy = history[i].policy BY <1>1
  <2> QED BY <2>2, <2>3 DEF OwnUnderOnePolicy
<1> QED BY <1>1, <1>2, <1>3, <1>4 DEF n

\* Pairs of earlier swaps keep their turns.
LEMMA EarlierTurns ==
  ASSUME TypeOK, TurnsInv, NEW a \in AttemptType, history' = Append(history, a),
         NEW i \in 1 .. Len(history), NEW j \in 1 .. Len(history),
         i < j, IsOwn(i)', IsOwn(j)', OwnUnderOnePolicy(i, j)',
         history'[i].place = history'[j].place,
         NEW m \in DOMAIN history'[i].policy.intents,
         history'[i].policy.intents[m].enabled
  PROVE  \E k \in i .. j - 1 : IsOwn(k)' /\ history'[k].place = m
<1>1. /\ Len(history) \in Nat /\ DOMAIN history = 1 .. Len(history)
      /\ \A k \in 1 .. Len(history) : history'[k] = history[k] /\ (IsOwn(k)' <=> IsOwn(k))
  BY EarlierStay
<1>2. OwnUnderOnePolicy(i, j) BY EarlierStay
<1>3. \E k \in i .. j - 1 : IsOwn(k) /\ history[k].place = m
  BY <1>1, <1>2 DEF TurnsInv, EnabledIntentsTakeTurns
<1>4. \A k \in i .. j - 1 : k \in 1 .. Len(history) BY <1>1
<1> QED BY <1>1, <1>3, <1>4

\* A peer's swap takes nobody's turn.
LEMMA TurnsPeer ==
  ASSUME TypeOK, TurnsInv, NEW a \in AttemptType, history' = Append(history, a),
         a.source # "regularSwap", state'.intentCursor = state.intentCursor
  PROVE  TurnsInv'
<1> DEFINE n == Len(history)
<1>1. /\ n \in Nat /\ DOMAIN history = 1 .. n /\ DOMAIN history' = 1 .. n + 1
      /\ \A i \in 1 .. n : history'[i] = history[i] /\ (IsOwn(i)' <=> IsOwn(i))
      /\ \A k : k = n + 1 => ~IsOwn(k)'
      /\ \A i, j \in 1 .. n : OwnUnderOnePolicy(i, j)' <=> OwnUnderOnePolicy(i, j)
  BY EarlierStay
<1>2. \A i \in DOMAIN history' : IsOwn(i)' => i \in 1 .. n BY <1>1
<1>3. \A k : LastOwn(k)' <=> LastOwn(k) BY <1>1, <1>2 DEF LastOwn
<1> HIDE DEF n
<1>4. PlacesExist' BY <1>1, <1>2 DEF TurnsInv, PlacesExist
<1>5. OneIsLast' BY <1>1, <1>2, <1>3 DEF TurnsInv, OneIsLast
<1>6. CursorIsBehind'
  <2>1. \A k : LastOwn(k) => k \in 1 .. n BY <1>1 DEF LastOwn
  <2> QED BY <1>1, <1>3, <2>1 DEF TurnsInv, CursorIsBehind
<1>7. TurnsTaken'
  <2> SUFFICES ASSUME NEW i \in DOMAIN history', NEW k \in DOMAIN history',
                      IsOwn(i)', i <= k, LastOwn(k)', OwnUnderOnePolicy(i, k)',
                      NEW m \in Arc(history'[i].place, history'[k].place),
                      IsEnabled(history'[i].policy, m)
               PROVE  \E l \in i .. k : IsOwn(l)' /\ history'[l].place = m
    BY DEF TurnsTaken
  <2>1. LastOwn(k) /\ k \in 1 .. n /\ i \in 1 .. n BY <1>1, <1>2, <1>3 DEF LastOwn
  <2>2. IsOwn(i) /\ OwnUnderOnePolicy(i, k) BY <1>1, <2>1
  <2>3. m \in Arc(history[i].place, history[k].place) /\ IsEnabled(history[i].policy, m)
    BY <1>1, <2>1
  <2>4. \E l \in i .. k : IsOwn(l) /\ history[l].place = m
    BY <1>1, <2>1, <2>2, <2>3 DEF TurnsInv, TurnsTaken
  <2>5. \A l \in i .. k : l \in 1 .. n BY <1>1, <2>1
  <2> QED BY <1>1, <2>4, <2>5
<1>8. EnabledIntentsTakeTurns'
  <2> SUFFICES ASSUME NEW i \in DOMAIN history', NEW j \in DOMAIN history',
                      i < j, IsOwn(i)', IsOwn(j)', OwnUnderOnePolicy(i, j)',
                      history'[i].place = history'[j].place,
                      NEW m \in DOMAIN history'[i].policy.intents,
                      history'[i].policy.intents[m].enabled
               PROVE  \E k \in i .. j - 1 : IsOwn(k)' /\ history'[k].place = m
    BY DEF EnabledIntentsTakeTurns
  <2>1. i \in 1 .. n /\ j \in 1 .. n BY <1>2
  <2> QED BY <2>1, EarlierTurns DEF n
<1> QED BY <1>4, <1>5, <1>6, <1>7, <1>8 DEF TurnsInv

\* An own swap: what the round has come to since an earlier one under its policy.
LEMMA RoundSoFar ==
  ASSUME TypeOK, TurnsInv, NEW a \in AttemptType, history' = Append(history, a),
         a.policy = policy, policy \in Policies, EnabledOffsets(policy, state) # {},
         a.place = PickNextIntent(policy, state),
         NEW i \in 1 .. Len(history), IsOwn(i),
         \A k \in i .. Len(history) : IsOwn(k) => history[k].policy = policy
  PROVE  \E x \in Nat :
           /\ \A m \in Between(x, a.place) : ~IsEnabled(policy, m)
           /\ \A m \in Arc(history[i].place, x) :
                IsEnabled(policy, m) =>
                  \E l \in i .. Len(history) : IsOwn(l) /\ history[l].place = m
<1> DEFINE n == Len(history)
<1>1. n \in Nat /\ DOMAIN history = 1 .. n BY EarlierStay
<1>2. PICK k \in DOMAIN history : LastOwn(k) BY <1>1 DEF TurnsInv, OneIsLast
<1>3. k \in 1 .. n /\ i <= k /\ IsOwn(k) BY <1>1, <1>2 DEF LastOwn
<1>4. history[k].policy = policy /\ history[i].policy = policy BY <1>1, <1>3
<1>5. OwnUnderOnePolicy(i, k)
  <2>1. \A j \in i .. k : j \in i .. n BY <1>1, <1>3
  <2> QED BY <1>4, <2>1 DEF OwnUnderOnePolicy
<1> DEFINE x == history[k].place
<1>6. x \in 1 .. Len(policy.intents) /\ state.intentCursor = x % Len(policy.intents)
  <2>1. x \in DOMAIN policy.intents BY <1>2, <1>3, <1>4 DEF TurnsInv, PlacesExist
  <2>2. DOMAIN policy.intents = 1 .. Len(policy.intents) BY OfPolicies, LenProperties
  <2> QED BY <1>2, <1>4, <2>1, <2>2 DEF TurnsInv, CursorIsBehind
<1>7. state \in AgentState BY DEF TypeOK
<1>8. \A m \in Between(x, a.place) : ~IsEnabled(policy, m)
  BY <1>6, <1>7, PickedNext
<1>9. ASSUME NEW m \in Arc(history[i].place, x), IsEnabled(policy, m)
      PROVE  \E l \in i .. n : IsOwn(l) /\ history[l].place = m
  <2>1. \E l \in i .. k : IsOwn(l) /\ history[l].place = m
    <3>1. \A o \in Arc(history[i].place, history[k].place) :
            IsEnabled(history[i].policy, o) =>
              \E l \in i .. k : IsOwn(l) /\ history[l].place = o
      BY <1>1, <1>2, <1>3, <1>5 DEF TurnsInv, TurnsTaken
    <3> QED BY <1>4, <1>9, <3>1
  <2> QED BY <1>1, <1>3, <2>1
<1>10. x \in Nat BY <1>6, OfPolicies, LenProperties
<1> QED BY <1>8, <1>9, <1>10

\* One more turn of the daemon's own.
LEMMA TurnsOwn ==
  ASSUME TypeOK, TurnsInv, NEW a \in AttemptType, history' = Append(history, a),
         a.source = "regularSwap", a.policy = policy, policy \in Policies,
         EnabledOffsets(policy, state) # {}, a.place = PickNextIntent(policy, state),
         state'.intentCursor = a.place % Len(policy.intents)
  PROVE  TurnsInv'
<1> DEFINE n == Len(history)
           y == a.place
<1>1. /\ n \in Nat /\ DOMAIN history = 1 .. n /\ DOMAIN history' = 1 .. n + 1
      /\ \A k : k = n + 1 => IsOwn(k)' /\ history'[k] = a
      /\ \A i \in 1 .. n : history'[i] = history[i] /\ (IsOwn(i)' <=> IsOwn(i))
      /\ \A i, j \in 1 .. n : OwnUnderOnePolicy(i, j)' <=> OwnUnderOnePolicy(i, j)
  BY EarlierStay
<1>2. state \in AgentState /\ y \in Nat BY DEF TypeOK, AttemptType
<1>3. y \in DOMAIN policy.intents
  <2>1. y \in 1 .. Len(policy.intents) BY <1>2, Picked
  <2> QED BY <2>1, OfPolicies, LenProperties
<1> HIDE DEF n, y
<1>4. \A k : LastOwn(k)' <=> k = n + 1
  <2>1. \A k : k \in DOMAIN history' => k <= n + 1 BY <1>1
  <2>2. n + 1 \in DOMAIN history' BY <1>1
  <2>3. ASSUME NEW k, LastOwn(k)' PROVE k = n + 1
    <3>1. \A j \in DOMAIN history' : IsOwn(j)' => j <= k BY <2>3 DEF LastOwn
    <3>2. k \in DOMAIN history' BY <2>3 DEF LastOwn
    <3> QED BY <1>1, <2>2, <3>1, <3>2
  <2>4. ASSUME NEW k, k = n + 1 PROVE LastOwn(k)'
    BY <1>1, <2>1, <2>2, <2>4 DEF LastOwn
  <2> QED BY <2>3, <2>4
<1>5. PlacesExist'
  <2> SUFFICES ASSUME NEW k \in DOMAIN history', IsOwn(k)'
               PROVE  history'[k].place \in DOMAIN history'[k].policy.intents
    BY DEF PlacesExist
  <2>1. CASE k = n + 1 BY <1>1, <1>3, <2>1 DEF y
  <2>2. CASE k \in 1 .. n BY <1>1, <2>2 DEF TurnsInv, PlacesExist
  <2> QED BY <1>1, <2>1, <2>2
<1>6. OneIsLast' BY <1>1, <1>4 DEF OneIsLast
<1>7. CursorIsBehind' BY <1>1, <1>4 DEF CursorIsBehind
\* The swap i and the new one, under one policy.
<1>8. ASSUME NEW i \in 1 .. n, IsOwn(i)', NEW j, j = n + 1, OwnUnderOnePolicy(i, j)'
      PROVE  /\ history'[i].policy = policy
             /\ \E x \in Nat :
                  /\ \A m \in Between(x, y) : ~IsEnabled(policy, m)
                  /\ \A m \in Arc(history'[i].place, x) :
                       IsEnabled(policy, m) =>
                         \E l \in i .. n : IsOwn(l)' /\ history'[l].place = m
  <2>1. j \in i .. j /\ IsOwn(j)' /\ history'[j] = a BY <1>1, <1>8
  <2>2. history'[i].policy = policy BY <1>8, <2>1 DEF OwnUnderOnePolicy
  <2>3. \A k \in i .. n : k \in i .. j /\ k \in 1 .. n BY <1>1, <1>8
  <2>4. \A k \in i .. n : IsOwn(k) => history[k].policy = policy
    BY <1>1, <1>8, <2>2, <2>3 DEF OwnUnderOnePolicy
  <2>5. IsOwn(i) BY <1>1, <1>8
  <2>6. PICK x \in Nat :
          /\ \A m \in Between(x, y) : ~IsEnabled(policy, m)
          /\ \A m \in Arc(history[i].place, x) :
               IsEnabled(policy, m) =>
                 \E l \in i .. n : IsOwn(l) /\ history[l].place = m
    BY <2>4, <2>5, RoundSoFar DEF n, y
  <2>7. \A m \in Arc(history'[i].place, x) :
          IsEnabled(policy, m) => \E l \in i .. n : IsOwn(l)' /\ history'[l].place = m
    BY <1>1, <2>3, <2>6
  <2> QED BY <2>2, <2>6, <2>7
<1>9. TurnsTaken'
  <2> SUFFICES ASSUME NEW i \in DOMAIN history', NEW k \in DOMAIN history',
                      IsOwn(i)', i <= k, LastOwn(k)', OwnUnderOnePolicy(i, k)',
                      NEW m \in Arc(history'[i].place, history'[k].place),
                      IsEnabled(history'[i].policy, m)
               PROVE  \E l \in i .. k : IsOwn(l)' /\ history'[l].place = m
    BY ZenonT(30) DEF TurnsTaken
  <2>1. k = n + 1 /\ IsOwn(k)' /\ history'[k].place = y BY <1>1, <1>4 DEF y
  <2>2. CASE i = k
    <3>1. m = y BY <1>2, <2>1, <2>2 DEF Arc
    <3> QED BY <1>1, <2>1, <2>2, <3>1
  <2>3. CASE i \in 1 .. n
    <3>1. PICK x \in Nat :
            /\ \A o \in Between(x, y) : ~IsEnabled(policy, o)
            /\ \A o \in Arc(history'[i].place, x) :
                 IsEnabled(policy, o) =>
                   \E l \in i .. n : IsOwn(l)' /\ history'[l].place = o
      BY <1>8, <2>1, <2>3
    <3>2. IsEnabled(policy, m) BY <1>8, <2>1, <2>3
    <3>3. history'[i].place \in Nat
      <4>1. history'[i] = history[i] /\ history[i] \in AttemptType
        BY <1>1, <2>3, ElementOfSeq DEF TypeOK, n
      <4> QED BY <4>1 DEF AttemptType
    <3>4. m \in Arc(history'[i].place, x) \/ m \in Between(x, y) \/ m = y
      BY <1>2, <2>1, <3>3, ArcGoesOn
    <3>5. CASE m = y
      <4>1. k \in i .. k BY <1>1, <2>1, <2>3
      <4> QED BY <2>1, <3>5, <4>1
    <3>6. CASE m \in Arc(history'[i].place, x)
      <4>1. \E l \in i .. n : IsOwn(l)' /\ history'[l].place = m BY <3>1, <3>2, <3>6
      <4>2. \A l \in i .. n : l \in i .. k BY <1>1, <2>1, <2>3
      <4> QED BY <4>1, <4>2
    <3> QED BY <3>1, <3>2, <3>4, <3>5, <3>6
  <2> QED BY <1>1, <2>1, <2>2, <2>3
<1>10. EnabledIntentsTakeTurns'
  <2> SUFFICES ASSUME NEW i \in DOMAIN history', NEW j \in DOMAIN history',
                      i < j, IsOwn(i)', IsOwn(j)', OwnUnderOnePolicy(i, j)',
                      history'[i].place = history'[j].place,
                      NEW m \in DOMAIN history'[i].policy.intents,
                      history'[i].policy.intents[m].enabled
               PROVE  \E k \in i .. j - 1 : IsOwn(k)' /\ history'[k].place = m
    BY DEF EnabledIntentsTakeTurns
  <2>1. i \in 1 .. n BY <1>1
  <2>2. CASE j \in 1 .. n BY <2>1, <2>2, EarlierTurns DEF n
  <2>3. CASE j = n + 1
    <3>1. history'[i].policy = policy /\ history'[i].place = y BY <1>1, <1>8, <2>1, <2>3 DEF y
    <3>2. PICK x \in Nat :
            /\ \A o \in Between(x, y) : ~IsEnabled(policy, o)
            /\ \A o \in Arc(history'[i].place, x) :
                 IsEnabled(policy, o) =>
                   \E l \in i .. n : IsOwn(l)' /\ history'[l].place = o
      BY <1>8, <2>1, <2>3
    <3>3. IsEnabled(policy, m) /\ m \in Nat
      <4>1. DOMAIN policy.intents = 1 .. Len(policy.intents) /\ Len(policy.intents) \in Nat
        BY OfPolicies, LenProperties
      <4> QED BY <3>1, <4>1 DEF IsEnabled
    <3>4. m \in Arc(y, x) \/ m \in Between(x, y) BY <1>2, <3>3, ArcComesRound
    <3>5. \E l \in i .. n : IsOwn(l)' /\ history'[l].place = m
      BY <3>1, <3>2, <3>3, <3>4
    <3>6. j - 1 = n BY <1>1, <2>3
    <3> QED BY <3>5, <3>6
  <2> QED BY <1>1, <2>2, <2>3
<1> QED BY <1>5, <1>6, <1>7, <1>9, <1>10 DEF TurnsInv

LEMMA TurnsStep ==
  ASSUME TypeOK, LoopInv, TurnsInv, [Next]_vars
  PROVE  TurnsInv'
<1>0. now \in Nat /\ state \in AgentState BY DaemonAssumption DEF TypeOK
<1>1. ASSUME history' = history, state'.intentCursor = state.intentCursor PROVE TurnsInv'
  BY <1>1, TurnsKeep
<1>2. ASSUME NEW file \in Policies, Boot(file) PROVE TurnsInv'
  <2>1. history' = <<>> BY <1>2 DEF Boot, LoopInv
  <2> QED BY <2>1, TurnsFresh
<1>3. CASE Crash BY <1>3, TurnsFresh DEF Crash
<1>4. CASE SettleOffer
  <2>1. StartSwap(Head(queue), 0, "peerSwap", RollDay(state, now)) /\ pc = "settle"
    BY <1>4 DEF SettleOffer
  <2>2. Head(queue).usd \in Nat /\ Head(queue).est \in Nat
    BY <1>4, OfferTyped DEF SettleOffer
  <2>3. PICK a \in AttemptType :
          history' = Append(history, a) /\ a.source = "peerSwap" /\ state' = RollDay(state, now)
    BY <2>1, <2>2, SwapRecorded
  <2>4. RollDay(state, now).intentCursor = state.intentCursor BY <1>0, Rolled
  <2> QED BY <2>3, <2>4, TurnsPeer
<1>5. CASE RunIntent
  <2> DEFINE i == PickNextIntent(policy, state)
             c == i % Len(policy.intents)
             r == RollDay(state, now)
  <2>1. /\ policy \in Policies /\ pc = "regular" /\ EnabledOffsets(policy, state) # {}
        /\ StartSwap(policy.intents[i], i, "regularSwap", [r EXCEPT !.intentCursor = c])
    BY <1>5 DEF RunIntent, TypeOK
  <2>2. /\ i \in 1 .. Len(policy.intents) /\ Len(policy.intents) \in Nat \ {0}
        /\ policy.intents[i] \in IntentType
    BY <1>0, <2>1, Picked
  <2>3. policy.intents[i].usd \in Nat /\ policy.intents[i].est \in Nat /\ i \in Nat
    BY <2>2 DEF IntentType
  <2>4. r \in AgentState BY <1>0, Rolled
  <2> HIDE DEF i, c, r
  <2>5. PICK a \in AttemptType :
          /\ history' = Append(history, a) /\ a.source = "regularSwap"
          /\ a.policy = policy /\ a.place = i /\ state' = [r EXCEPT !.intentCursor = c]
    BY <2>1, <2>3, SwapRecorded
  <2>6. state'.intentCursor = c BY <2>4, <2>5 DEF AgentState
  <2> QED BY <2>1, <2>5, <2>6, TurnsOwn DEF i, c
<1>6. ASSUME NEW ok \in BOOLEAN, SwapEnds(ok) PROVE TurnsInv'
  <2>1. /\ history # <<>> /\ history \in Seq(AttemptType)
        /\ Current \in AttemptType
        /\ state' = AfterSwap(policy, state, Current.at, Current.est, ok)
    BY <1>6, SwapOver
  <2>2. PICK o \in {"ok", "failed"} : history' = [history EXCEPT ![Len(history)].outcome = o]
    BY <1>6, SwapOver
  <2>3. /\ DOMAIN history' = 1 .. Len(history) /\ DOMAIN history = 1 .. Len(history)
        /\ \A i \in 1 .. Len(history) :
             /\ history'[i].source = history[i].source
             /\ history'[i].place = history[i].place
             /\ history'[i].policy = history[i].policy
    BY <2>1, <2>2, OutcomePut
  <2>4. state'.intentCursor = state.intentCursor
    BY <1>0, <2>1 DEF AfterSwap, AgentState
  <2> QED BY <2>3, <2>4, TurnsKeep
<1>7. CASE NoEnabledIntent
  <2>1. history' = history /\ state' = RollDay(state, now) BY <1>7 DEF NoEnabledIntent
  <2>2. RollDay(state, now).intentCursor = state.intentCursor BY <1>0, Rolled
  <2> QED BY <1>1, <2>1, <2>2
<1>8. CASE \/ \E file \in Policies : Reload(file)
           \/ \E matched : PollReturns(matched)
           \/ WakeUp \/ LeaveLoop \/ ReloadFails \/ Rebuild \/ RebuildFails
           \/ SkipPoll \/ StartPoll \/ SkipOffer \/ EndPoll
           \/ RegularBlocked \/ Shutdown \/ Tick \/ UNCHANGED vars
  <2>1. history' = history /\ state' = state
    BY <1>8 DEF Reload, PollReturns, WakeUp, LeaveLoop, ReloadFails, Rebuild,
                RebuildFails, SkipPoll, StartPoll, SkipOffer, EndPoll, RegularBlocked,
                Shutdown, Tick, vars, world, memory
  <2> QED BY <1>1, <2>1
<1> QED
  BY <1>2, <1>3, <1>4, <1>5, <1>6, <1>7, <1>8 DEF Next, Loop, LoopStep, Exited


----------------------------------------------------------------------------
(***************************************************************************)
(* The theorems.                                                           *)
(***************************************************************************)
DaemonInv == TypeOK /\ LoopInv /\ CountersInv

LEMMA DaemonInvariant == Spec => []DaemonInv
<1>1. Init => DaemonInv
  <2> SUFFICES ASSUME Init PROVE DaemonInv OBVIOUS
  <2>1. TypeOK /\ LoopInv BY TypeInit
  <2>2. CountersInv BY <2>1, CountersInit
  <2> QED BY <2>1, <2>2 DEF DaemonInv
<1>2. DaemonInv /\ [Next]_vars => DaemonInv'
  BY TypeStep, LoopStepInv, CountersStep DEF DaemonInv
<1> QED BY <1>1, <1>2, PTL DEF Spec

(* Every swap on record was signed with the key its policy names: between  *)
(* the reload that rotates the key and the rebuild of the signer, and when *)
(* the rebuild fails, the daemon starts none.                              *)
THEOREM SignsAsPolicySays == Spec => []SignerFollowsPolicy
<1>1. DaemonInv => SignerFollowsPolicy BY DEF DaemonInv, LoopInv
<1> QED BY <1>1, DaemonInvariant, PTL

(* From the moment SIGTERM has arrived no swap is added to the history.    *)
THEOREM ShutdownStartsNone == Spec => NoSwapAfterShutdown
<1>1. DaemonInv /\ [Next]_vars => [shuttingDown => Len(history') <= Len(history)]_vars
  <2> SUFFICES ASSUME DaemonInv, [Next]_vars, shuttingDown
               PROVE  Len(history') <= Len(history)
    OBVIOUS
  <2>0. TypeOK /\ LoopInv /\ history \in Seq(AttemptType) /\ Len(history) \in Nat
    BY LenProperties DEF DaemonInv, TypeOK
  <2>1. CASE SettleOffer \/ RunIntent BY <2>0, <2>1, SwapBegins
  <2>2. ASSUME NEW ok \in BOOLEAN, SwapEnds(ok) PROVE Len(history') <= Len(history)
    <3>1. /\ history # <<>>
          /\ \E o \in {"ok", "failed"} :
               history' = [history EXCEPT ![Len(history)].outcome = o]
      BY <2>0, <2>2, SwapOver
    <3>2. Len(history') = Len(history) BY <2>0, <3>1, OutcomePut
    <3> QED BY <2>0, <3>2
  <2>3. CASE Crash
    <3>1. history' = <<>> BY <2>3 DEF Crash
    <3> QED BY <2>0, <3>1
  <2>4. history' = history => Len(history') <= Len(history) BY <2>0
  <2>5. CASE \/ \E file \in Policies : Boot(file) \/ Reload(file)
             \/ \E matched : PollReturns(matched)
             \/ WakeUp \/ LeaveLoop \/ ReloadFails \/ Rebuild \/ RebuildFails
             \/ SkipPoll \/ StartPoll \/ SkipOffer \/ EndPoll
             \/ RegularBlocked \/ NoEnabledIntent \/ Shutdown \/ Tick \/ UNCHANGED vars
    BY <2>4, <2>5
       DEF Boot, Reload, PollReturns, WakeUp, LeaveLoop, ReloadFails, Rebuild,
           RebuildFails, SkipPoll, StartPoll, SkipOffer, EndPoll, RegularBlocked,
           NoEnabledIntent, Shutdown, Tick, vars, world, memory
  <2> QED BY <2>1, <2>2, <2>3, <2>5 DEF Next, Loop, LoopStep, Exited
<1> QED BY <1>1, DaemonInvariant, PTL DEF Spec, NoSwapAfterShutdown

(* The daemon keeps to the operator's constraints: seen as its history of  *)
(* attempts it is a SwapLimiter.                                           *)
THEOREM ImplementsLimiter == Spec => LimiterSpec
<1>1. DaemonInv /\ [Next]_vars => [Limiter!Next]_(Limiter!vars)
  BY LimiterStep DEF DaemonInv
<1> QED BY <1>1, LimiterInit, DaemonInvariant, PTL DEF Spec, LimiterSpec, Limiter!Spec

(* An enabled intent is not run again before every other enabled one of    *)
(* the policy has had its turn (pickNextIntent, agent.ts:104-118), however *)
(* long the list and the history: the cursor stands behind the place of    *)
(* the last own swap, and on the way round from any earlier one to it no   *)
(* enabled place was left out.                                             *)
THEOREM IntentsTakeTurns == Spec => []EnabledIntentsTakeTurns
<1>1. Init => TurnsInv
  <2> SUFFICES ASSUME Init PROVE TurnsInv OBVIOUS
  <2>1. DOMAIN history = {} BY DEF Init
  <2> QED BY <2>1
       DEF TurnsInv, PlacesExist, OneIsLast, CursorIsBehind, LastOwn, TurnsTaken,
           EnabledIntentsTakeTurns
<1>2. DaemonInv /\ TurnsInv /\ [Next]_vars => TurnsInv' BY TurnsStep DEF DaemonInv
<1>3. TurnsInv => EnabledIntentsTakeTurns BY DEF TurnsInv
<1> QED BY <1>1, <1>2, <1>3, DaemonInvariant, PTL DEF Spec
============================================================================
