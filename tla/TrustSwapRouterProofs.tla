----------------------- MODULE TrustSwapRouterProofs -----------------------
(***************************************************************************)
(* Proofs about TrustSwapRouter, for every set of accounts, tokens,        *)
(* attestations and values, every depth of the call stack and every time:  *)
(* first its types and its nonces; then that ether, fees and pulled tokens *)
(* are accounted for by the swaps that settled, that a settled swap met    *)
(* the terms of both sides, and that seen from outside of its transactions *)
(* the router is an AttestationLedger.                                     *)
(***************************************************************************)
EXTENDS TrustSwapRouter, TotalsProofs, SequenceTheorems, TLAPS

(* A pushed frame remembers the state it found; popped, only the earlier   *)
(* ones are left.                                                          *)
LEMMA PushFacts ==
  ASSUME NEW S, NEW s \in Seq(S), NEW e \in S
  PROVE  /\ Append(s, e) \in Seq(S)
         /\ Len(Append(s, e)) = Len(s) + 1
         /\ \A i \in 1 .. Len(s) : Append(s, e)[i] = s[i]
         /\ Append(s, e)[Len(s) + 1] = e
  OBVIOUS
LEMMA PopFacts ==
  ASSUME NEW S, NEW s \in Seq(S), s # <<>>
  PROVE  /\ Len(s) \in Nat \ {0} /\ Len(s) \in DOMAIN s
         /\ Last(s) = s[Len(s)] /\ Last(s) \in S
         /\ Front(s) \in Seq(S)
         /\ Len(Front(s)) = Len(s) - 1
         /\ \A i \in 1 .. Len(s) - 1 : Front(s)[i] = s[i]
  <1>1. Len(s) \in Nat \ {0} /\ Len(s) \in DOMAIN s
    OBVIOUS
  <1>2. Last(s) = s[Len(s)] /\ Last(s) \in S
    BY <1>1 DEF Last
  <1>3. /\ Front(s) \in Seq(S) /\ Len(Front(s)) = Len(s) - 1
        /\ \A i \in 1 .. Len(s) - 1 : Front(s)[i] = s[i]
    <2>1. /\ Len(s) - 1 \in Nat /\ 1 \in Int /\ Len(s) - 1 \in Int
          /\ \A i \in 1 .. Len(s) - 1 : s[i] \in S
      BY <1>1
    <2> DEFINE n == Len(s) - 1
               t == SubSeq(s, 1, n)
    <2>2. /\ t \in Seq(S)
          /\ Len(t) = IF 1 <= n THEN n - 1 + 1 ELSE 0
          /\ \A i \in 1 .. n - 1 + 1 : t[i] = s[1 + i - 1]
      BY <2>1, SubSeqProperties
    <2>3. Front(s) = t
      BY DEF Front
    <2>4. /\ n \in Nat
          /\ \A i \in 1 .. n : i \in 1 .. n - 1 + 1 /\ 1 + i - 1 = i
      BY <2>1
    <2> HIDE DEF t, n
    <2>5. Len(t) = n
      BY <2>2, <2>4
    <2>6. ASSUME NEW i \in 1 .. n PROVE t[i] = s[i]
      <3>1. i \in 1 .. n - 1 + 1 /\ 1 + i - 1 = i
        BY <2>4
      <3>2. t[i] = s[1 + i - 1]
        BY <2>2, <3>1
      <3> QED
        BY <3>1, <3>2
    <2> QED
      BY <2>2, <2>3, <2>5, <2>6 DEF n
  <1> QED
    BY <1>1, <1>2, <1>3

(* Fees are natural numbers, never more than the value they are taken of.  *)
LEMMA FeeBounded ==
  ASSUME NEW value \in Nat, NEW tier \in Eligible
  PROVE  Fee(value, tier) \in Nat /\ Fee(value, tier) <= value
  <1>1. CASE tier = Registered
    BY <1>1 DEF Fee, FeeBps, Registered, Discoverable, Verified, Full
  <1>2. CASE tier = Discoverable
    BY <1>2 DEF Fee, FeeBps, Registered, Discoverable, Verified, Full
  <1>3. CASE tier = Verified
    BY <1>3 DEF Fee, FeeBps, Registered, Discoverable, Verified, Full
  <1>4. CASE tier = Full
    BY <1>4 DEF Fee, FeeBps, Registered, Discoverable, Verified, Full
  <1> QED
    BY <1>1, <1>2, <1>3, <1>4
    DEF Eligible, Tier, None, Registered, Discoverable, Verified, Full

LEMMA TermsOfCall ==
  ASSUME NEW c \in Call, AboveFloor(c)
  PROVE  /\ EffectiveTier(c.att) \in Eligible
         /\ FeeOf(c) \in Nat
         /\ c.value \in Nat
         /\ NonceKey(c.att) \in Swapper \X Nonce
         /\ c.payload \in PayloadType
  <1>1. c.att \in AttestationType /\ c.value \in Nat /\ c.payload \in PayloadType
    BY RouterAssumption DEF Call
  <1>2. EffectiveTier(c.att) \in Eligible
    BY <1>1 DEF AboveFloor, EffectiveTier, StricterTier, AttestationType, Eligible
  <1>3. FeeOf(c) \in Nat
    BY <1>1, <1>2, FeeBounded DEF FeeOf
  <1> QED
    BY <1>1, <1>2, <1>3 DEF NonceKey, AttestationType

(* A chain state stays one when a field gets another value of its type.    *)
LEMMA UpdateEth ==
  ASSUME NEW w \in Chain, NEW e \in Int
  PROVE  [w EXCEPT !.eth = e] \in Chain
  BY DEF Chain
LEMMA UpdateNonceEth ==
  ASSUME NEW w \in Chain, NEW u \in SUBSET (Swapper \X Nonce), NEW e \in Int
  PROVE  [w EXCEPT !.usedNonce = u, !.eth = e] \in Chain
  BY DEF Chain
LEMMA UpdateEthFees ==
  ASSUME NEW w \in Chain, NEW e \in Int, NEW f \in Nat
  PROVE  [w EXCEPT !.eth = e, !.feesPaid = f] \in Chain
  BY DEF Chain
LEMMA UpdateHeld ==
  ASSUME NEW w \in Chain, NEW t \in Token,
         NEW h \in [Swapper \cup {Router} -> Int]
  PROVE  [w EXCEPT !.held[t] = h] \in Chain
  BY DEF Chain
LEMMA UpdateApprovals ==
  ASSUME NEW w \in Chain, NEW a \in SUBSET Token
  PROVE  [w EXCEPT !.approvalsReady = a] \in Chain
  BY DEF Chain
LEMMA UpdateLog ==
  ASSUME NEW w \in Chain, NEW l \in Seq(Settlement)
  PROVE  [w EXCEPT !.log = l] \in Chain
  BY DEF Chain

Balances == [Swapper \cup {Router} -> Int]
LEMMA CreditDebitTyped ==
  ASSUME NEW b \in Balances, NEW who \in Swapper \cup {Router}, NEW n \in Nat
  PROVE  Credit(b, who, n) \in Balances /\ Debit(b, who, n) \in Balances
  <1>1. b[who] + n \in Int /\ b[who] - n \in Int
    BY DEF Balances
  <1> QED
    BY <1>1 DEF Balances, Credit, Debit

(* The effects of a call keep the chain state well formed.                 *)
LEMMA EffectsTyped ==
  ASSUME NEW w \in Chain, NEW c \in Call, AboveFloor(c)
  PROVE  /\ Accept(w, c) \in Chain
         /\ PayFee(w, c) \in Chain
         /\ Forward(w, c) \in Chain
         /\ ChainAfterFee(w, c) \in Chain
         /\ Pulls(c.payload) => Pull(w, c.payload) \in Chain
         /\ Spend(w, c.payload) \in Chain
         /\ Emit(w, c) \in Chain
  <1>1. /\ FeeOf(c) \in Nat /\ c.value \in Nat /\ c.value \in Value
        /\ NonceKey(c.att) \in Swapper \X Nonce
        /\ c.payload \in PayloadType /\ c.att \in Attestation
    BY TermsOfCall DEF Call
  <1>2. /\ w.usedNonce \cup {NonceKey(c.att)} \in SUBSET (Swapper \X Nonce)
        /\ w.eth + c.value \in Int
        /\ w.eth - FeeOf(c) \in Int
        /\ w.feesPaid + FeeOf(c) \in Nat
        /\ w.eth - (c.value - FeeOf(c)) \in Int
    BY <1>1 DEF Chain
  <1>3. /\ Accept(w, c) \in Chain
        /\ PayFee(w, c) \in Chain
        /\ Forward(w, c) \in Chain
    <2>1. Accept(w, c) \in Chain
      BY <1>2, UpdateNonceEth DEF Accept
    <2>2. PayFee(w, c) \in Chain
      BY <1>2, UpdateEthFees DEF PayFee
    <2>3. Forward(w, c) \in Chain
      BY <1>2, UpdateEth DEF Forward
    <2> QED
      BY <2>1, <2>2, <2>3
  <1>4. ChainAfterFee(w, c) \in Chain
    BY <1>3 DEF ChainAfterFee
  <1>5. ASSUME NEW p \in PayloadType
        PROVE  /\ Spend(w, p) \in Chain
               /\ Pulls(p) => Pull(w, p) \in Chain
    <2>1. /\ p.tokenIn \in Token /\ p.amountIn \in Nat /\ p.spend \in Nat
          /\ Pulls(p) => p.payer \in Swapper
      BY DEF PayloadType, Pulls
    <2>2. w.held[p.tokenIn] \in Balances
      BY <2>1 DEF Chain, Balances
    <2>3. Debit(w.held[p.tokenIn], Router, p.spend) \in Balances
      BY <2>1, <2>2, CreditDebitTyped
    <2>4. Pulls(p) => Credit(Debit(w.held[p.tokenIn], p.payer, p.amountIn),
                             Router, p.amountIn) \in Balances
      BY <2>1, <2>2, CreditDebitTyped
    <2> QED
      BY <2>1, <2>3, <2>4, UpdateHeld DEF Spend, Pull, Balances
  <1>6. Emit(w, c) \in Chain
    <2>1. [att |-> c.att, value |-> c.value, fee |-> FeeOf(c)] \in Settlement
      BY <1>1 DEF Settlement
    <2>2. w.log \in Seq(Settlement)
      BY DEF Chain
    <2>3. Append(w.log, [att |-> c.att, value |-> c.value, fee |-> FeeOf(c)])
            \in Seq(Settlement)
      BY <2>1, <2>2
    <2> QED
      BY <2>3, UpdateLog DEF Emit
  <1> QED
    BY <1>1, <1>3, <1>4, <1>5, <1>6

(* Every gatedSwap on the stack has passed the checks of steps 1 to 7.     *)
(* TypeOK needs it: FeeOf means nothing for a call below the floor.        *)
Gated(k) == frames[k].pc # "caller"
Checked(c) ==
  /\ SignatureValid(c) /\ CalldataBound(c) /\ NotExpired(c)
  /\ AboveFloor(c) /\ UnderCap(c)
Pulling(k) == frames[k].pc = "pull"
FramesChecked ==
  \A k \in DOMAIN frames :
    /\ Gated(k) => Checked(frames[k].call)
    /\ Pulling(k) => Pulls(frames[k].call.payload)

TypeInv == TypeOK /\ FramesChecked

LEMMA InitTyped == Init => TypeInv
  BY RouterAssumption
  DEF Init, TypeInv, TypeOK, Chain, FramesChecked

(* A step pushes a frame, replaces the top frame's pc, or pops it.         *)
LEMMA PushTyped ==
  ASSUME TypeInv, NEW f \in Frame, f.pc # "caller" => Checked(f.call),
         f.pc = "pull" => Pulls(f.call.payload),
         chain' \in Chain, frames' = Append(frames, f), now' = now
  PROVE  TypeInv'
  <1>1. frames \in Seq(Frame) /\ now \in 0 .. MaxTime
    BY DEF TypeInv, TypeOK
  <1>2. /\ frames' \in Seq(Frame) /\ Len(frames') = Len(frames) + 1
        /\ \A i \in 1 .. Len(frames) : frames'[i] = frames[i]
        /\ frames'[Len(frames) + 1] = f
    BY <1>1, PushFacts
  <1>3. TypeOK'
    BY <1>1, <1>2 DEF TypeOK
  <1>4. ASSUME NEW k \in DOMAIN frames', Gated(k)' PROVE Checked(frames[k].call)'
    <2>1. CASE k = Len(frames) + 1
      BY <1>2, <1>4, <2>1 DEF Gated, Checked, NotExpired
    <2>2. CASE k # Len(frames) + 1
      <3>1. k \in 1 .. Len(frames)
        BY <1>1, <1>2, <2>2
      <3>2. Gated(k) /\ frames'[k] = frames[k]
        BY <1>2, <1>4, <3>1 DEF Gated
      <3>3. Checked(frames[k].call)
        BY <1>1, <3>1, <3>2 DEF TypeInv, FramesChecked
      <3> QED
        BY <3>2, <3>3 DEF Checked, NotExpired, SignatureValid, CalldataBound,
                          AboveFloor, UnderCap
    <2> QED
      BY <2>1, <2>2
  <1>5. ASSUME NEW k \in DOMAIN frames', Pulling(k)'
        PROVE  Pulls(frames[k].call.payload)'
    <2>1. CASE k = Len(frames) + 1
      BY <1>2, <1>5, <2>1 DEF Pulling
    <2>2. CASE k # Len(frames) + 1
      <3>1. k \in DOMAIN frames /\ frames'[k] = frames[k]
        BY <1>1, <1>2, <2>2
      <3> QED
        BY <1>5, <3>1 DEF TypeInv, FramesChecked, Pulling
    <2> QED
      BY <2>1, <2>2
  <1> QED
    BY <1>3, <1>4, <1>5 DEF TypeInv, FramesChecked

LEMMA PopTyped ==
  ASSUME TypeInv, frames # <<>>, chain' \in Chain, frames' = Front(frames),
         now' = now
  PROVE  TypeInv'
  <1>1. frames \in Seq(Frame) /\ now \in 0 .. MaxTime
    BY DEF TypeInv, TypeOK
  <1>2. /\ frames' \in Seq(Frame) /\ Len(frames') = Len(frames) - 1
        /\ \A i \in 1 .. Len(frames) - 1 : frames'[i] = frames[i]
        /\ Len(frames) \in Nat \ {0}
    BY <1>1, PopFacts
  <1>3. TypeOK'
    BY <1>1, <1>2 DEF TypeOK
  <1>4. ASSUME NEW k \in DOMAIN frames', Gated(k)' PROVE Checked(frames[k].call)'
    <2>1. k \in 1 .. Len(frames) - 1 /\ k \in DOMAIN frames
      BY <1>1, <1>2
    <2>2. Gated(k) /\ frames'[k] = frames[k]
      BY <1>2, <1>4, <2>1 DEF Gated
    <2>3. Checked(frames[k].call)
      BY <2>1, <2>2 DEF TypeInv, FramesChecked
    <2> QED
      BY <2>2, <2>3 DEF Checked, NotExpired, SignatureValid, CalldataBound,
                        AboveFloor, UnderCap
  <1>5. ASSUME NEW k \in DOMAIN frames', Pulling(k)'
        PROVE  Pulls(frames[k].call.payload)'
    <2>1. k \in DOMAIN frames /\ frames'[k] = frames[k]
      BY <1>1, <1>2
    <2> QED
      BY <1>5, <2>1 DEF TypeInv, FramesChecked, Pulling
  <1> QED
    BY <1>3, <1>4, <1>5 DEF TypeInv, FramesChecked

LEMMA ResumeTyped ==
  ASSUME TypeInv, NEW pc \in {"fee", "pull", "forward"}, NEW w \in Chain,
         frames # <<>>, Gated(Len(frames)), Resume(pc, w),
         pc = "pull" => Pulls(frames[Len(frames)].call.payload)
  PROVE  TypeInv'
  <1>1. /\ frames \in Seq(Frame) /\ now \in 0 .. MaxTime /\ now' = now
        /\ chain' \in Chain
        /\ frames' = [frames EXCEPT ![Len(frames)].pc = pc]
    BY DEF TypeInv, TypeOK, Resume
  <1>2. /\ Len(frames) \in Nat \ {0} /\ Len(frames) \in DOMAIN frames
        /\ frames[Len(frames)] \in SwapFrame
    BY <1>1 DEF Gated, Frame, CallerFrame
  <1>3. [frames[Len(frames)] EXCEPT !.pc = pc] \in SwapFrame
    BY <1>2 DEF SwapFrame
  <1>4. /\ frames' \in Seq(Frame) /\ Len(frames') = Len(frames)
        /\ \A k \in DOMAIN frames' : k \in DOMAIN frames
        /\ \A k \in DOMAIN frames :
             /\ Gated(k)' => Gated(k) /\ frames'[k].call = frames[k].call
             /\ k # Len(frames) => frames'[k] = frames[k]
        /\ frames'[Len(frames)].pc = pc
        /\ frames'[Len(frames)].call = frames[Len(frames)].call
    BY <1>1, <1>2, <1>3 DEF Frame, SwapFrame, Gated
  <1>5. TypeOK'
    BY <1>1, <1>4 DEF TypeOK
  <1>6. ASSUME NEW k \in DOMAIN frames', Gated(k)' PROVE Checked(frames[k].call)'
    <2>1. Checked(frames[k].call) /\ frames'[k].call = frames[k].call
      BY <1>4, <1>6 DEF TypeInv, FramesChecked
    <2> QED
      BY <1>1, <2>1 DEF Checked, NotExpired, SignatureValid, CalldataBound,
                        AboveFloor, UnderCap
  <1>7. ASSUME NEW k \in DOMAIN frames', Pulling(k)'
        PROVE  Pulls(frames[k].call.payload)'
    BY <1>4, <1>7 DEF TypeInv, FramesChecked, Pulling
  <1> QED
    BY <1>5, <1>6, <1>7 DEF TypeInv, FramesChecked

(* The call on top of the stack, when that is a suspended gatedSwap.       *)
LEMMA TopCall ==
  ASSUME TypeInv, frames # <<>>, Top.pc # "caller"
  PROVE  /\ Top = frames[Len(frames)] /\ Len(frames) \in DOMAIN frames
         /\ Gated(Len(frames)) /\ Top \in SwapFrame /\ Top.call \in Call
         /\ Checked(Top.call) /\ AboveFloor(Top.call)
         /\ Top.pc = "pull" => Pulls(Top.call.payload)
  <1>1. frames \in Seq(Frame)
    BY DEF TypeInv, TypeOK
  <1>2. Top = frames[Len(frames)] /\ Len(frames) \in DOMAIN frames
    BY <1>1, PopFacts DEF Top
  <1>3. Gated(Len(frames)) /\ Top \in SwapFrame
    BY <1>1, <1>2 DEF Gated, Frame, CallerFrame
  <1>4. Checked(Top.call)
    BY <1>2, <1>3 DEF TypeInv, FramesChecked
  <1>5. Top.pc = "pull" => Pulls(Top.call.payload)
    BY <1>2 DEF TypeInv, FramesChecked, Pulling
  <1> QED
    BY <1>2, <1>3, <1>4, <1>5 DEF SwapFrame, Checked

LEMMA TypeInvStep == TypeInv /\ [Next]_vars => TypeInv'
  <1> SUFFICES ASSUME TypeInv, [Next]_vars PROVE TypeInv'
    OBVIOUS
  <1>0. chain \in Chain /\ frames \in Seq(Frame) /\ now \in 0 .. MaxTime
    BY DEF TypeInv, TypeOK
  <1>1. ASSUME NEW c \in Call, EnterWithFee(c) PROVE TypeInv'
    <2>1. Checked(c) /\ AboveFloor(c)
      BY <1>1 DEF EnterWithFee, Admissible, Checked
    <2>2. PayFee(Accept(chain, c), c) \in Chain
      BY <1>0, <2>1, EffectsTyped
    <2>3. [pc |-> "fee", call |-> c, entry |-> chain] \in Frame
      BY <1>0 DEF Frame, SwapFrame
    <2> QED
      BY <1>1, <2>1, <2>2, <2>3, PushTyped DEF EnterWithFee, Enter
  <1>2. ASSUME NEW c \in Call, EnterFeeless(c) PROVE TypeInv'
    <2>1. Checked(c) /\ AboveFloor(c)
      BY <1>2 DEF EnterFeeless, Admissible, Checked
    <2>2. ChainAfterFee(Accept(chain, c), c) \in Chain
      BY <1>0, <2>1, EffectsTyped
    <2>3. /\ [pc |-> PcAfterFee(c), call |-> c, entry |-> chain] \in Frame
          /\ PcAfterFee(c) = "pull" => Pulls(c.payload)
      BY <1>0 DEF Frame, SwapFrame, PcAfterFee
    <2> QED
      BY <1>2, <2>1, <2>2, <2>3, PushTyped DEF EnterFeeless, Enter
  <1>3. ASSUME FeeReturns PROVE TypeInv'
    <2>1. Top.call \in Call /\ AboveFloor(Top.call) /\ Gated(Len(frames))
      BY <1>3, TopCall DEF FeeReturns, Suspended
    <2>2. /\ ChainAfterFee(chain, Top.call) \in Chain
          /\ PcAfterFee(Top.call) \in {"fee", "pull", "forward"}
          /\ PcAfterFee(Top.call) = "pull" => Pulls(Top.call.payload)
          /\ Top = frames[Len(frames)]
      BY <1>3, TopCall, <1>0, <2>1, EffectsTyped DEF PcAfterFee, FeeReturns, Suspended
    <2> QED
      BY <1>3, <2>1, <2>2, ResumeTyped DEF FeeReturns, Suspended
  <1>4. ASSUME PullReturns PROVE TypeInv'
    <2>1. Top.call \in Call /\ AboveFloor(Top.call) /\ Gated(Len(frames))
      BY <1>4, TopCall DEF PullReturns, Suspended
    <2> DEFINE w == Forward(Pull(chain, Top.call.payload), Top.call)
    <2>2. Pulls(Top.call.payload) => w \in Chain
      BY <1>0, <2>1, EffectsTyped
    <2>3. Pulls(Top.call.payload)
      BY <1>4, TopCall DEF PullReturns, Suspended
    <2> QED
      BY <1>4, <2>1, <2>2, <2>3, ResumeTyped DEF PullReturns, Suspended
  <1>5. ASSUME SwapReturns PROVE TypeInv'
    <2>1. Top.call \in Call /\ AboveFloor(Top.call) /\ frames # <<>>
      BY <1>5, TopCall DEF SwapReturns, Suspended
    <2>2. Emit(Spend(chain, Top.call.payload), Top.call) \in Chain
      BY <1>0, <2>1, EffectsTyped
    <2> QED
      BY <1>5, <2>1, <2>2, PopTyped DEF SwapReturns
  <1>6. CASE CallerStarts
    <2>1. [pc |-> "caller", entry |-> chain] \in Frame
      BY <1>0 DEF Frame, CallerFrame
    <2> QED
      BY <1>0, <1>6, <2>1, PushTyped DEF CallerStarts
  <1>7. CASE CallerReturns
    BY <1>0, <1>7, PopTyped DEF CallerReturns, Suspended
  <1>8. CASE Reverts
    <2>1. Top \in Frame
      BY <1>0, <1>8, PopFacts DEF Reverts, Top
    <2>2. Top.entry \in Chain
      BY <2>1 DEF Frame, SwapFrame, CallerFrame
    <2> QED
      BY <1>8, <2>2, PopTyped DEF Reverts
  <1>9. ASSUME NEW token \in Token, SetApprovals(token) PROVE TypeInv'
    <2>1. chain.approvalsReady \cup {token} \in SUBSET Token
      BY <1>0 DEF Chain
    <2>2. chain' \in Chain
      BY <1>0, <1>9, <2>1, UpdateApprovals DEF SetApprovals
    <2> QED
      BY <1>9, <2>2 DEF SetApprovals, TypeInv, TypeOK, FramesChecked, Gated,
         Pulling, Checked, NotExpired, SignatureValid, CalldataBound, AboveFloor, UnderCap
  <1>10. CASE NextBlock
    BY <1>0, <1>10, RouterAssumption
    DEF NextBlock, TypeInv, TypeOK, FramesChecked
  <1>11. CASE UNCHANGED vars
    BY <1>11 DEF vars, TypeInv, TypeOK, FramesChecked, Gated, Pulling, Checked,
       NotExpired, SignatureValid, CalldataBound, AboveFloor, UnderCap
  <1> QED
    BY <1>1, <1>2, <1>3, <1>4, <1>5, <1>6, <1>7, <1>8, <1>9, <1>10, <1>11 DEF Next

(* The state of the router and its call stack is always well formed, and   *)
(* no unfinished gatedSwap escaped a check.                                *)
THEOREM TypeCorrect == Spec => []TypeInv
  BY InitTyped, TypeInvStep, PTL DEF Spec

(* The router's state, and that of each call in progress, is well formed.  *)
THEOREM RouterTyped == Spec => []TypeOK
  <1>1. TypeInv => TypeOK
    BY DEF TypeInv
  <1> QED
    BY <1>1, TypeCorrect, PTL

----------------------------------------------------------------------------
(***************************************************************************)
(* Single use.  SingleUse speaks of the log alone, and is not inductive:   *)
(* what keeps a nonce from settling twice is that the used nonces of a     *)
(* chain state are those it has settled and those of the calls below it on *)
(* the stack, all different.  It has to hold of every chain state a revert *)
(* can bring back, so the invariant ranges over all of them.               *)
(***************************************************************************)
Key(k) == NonceKey(frames[k].call.att)
OpenKeys(k) == {Key(j) : j \in {i \in DOMAIN frames : i < k /\ Gated(i)}}

Once(w) ==
  \A i, j \in DOMAIN w.log :
    i # j => NonceKey(w.log[i].att) # NonceKey(w.log[j].att)
KeysInv(w, open) ==
  /\ w.usedNonce = SettledKeys(w) \cup open
  /\ SettledKeys(w) \cap open = {}
  /\ Once(w)
OpenDistinct ==
  \A i, j \in DOMAIN frames :
    Gated(i) /\ Gated(j) /\ i # j => Key(i) # Key(j)

NonceInv == OpenDistinct /\ \A k \in Level : KeysInv(World(k), OpenKeys(k))

(* How the chain states and the open keys of the stack move with it.       *)
LEMMA PushWorlds ==
  ASSUME NEW n \in Nat, n = Len(frames), TypeOK, NEW f \in Frame, frames' = Append(frames, f), f.entry = chain
  PROVE  /\ Len(frames') = n + 1
         /\ \A k \in DOMAIN frames : frames'[k] = frames[k]
         /\ frames'[n + 1] = f
         /\ \A k \in Level : World(k)' = World(k) /\ OpenKeys(k)' = OpenKeys(k)
         /\ World(n + 2)' = chain'
         /\ OpenKeys(n + 2)' =
              OpenKeys(n + 1) \cup
                (IF f.pc = "caller" THEN {} ELSE {NonceKey(f.call.att)})
  <1>1. /\ frames \in Seq(Frame) /\ n \in Nat
        /\ frames' \in Seq(Frame) /\ Len(frames') = n + 1
        /\ \A i \in 1 .. n : frames'[i] = frames[i]
        /\ frames'[n + 1] = f
    BY PushFacts DEF TypeOK
  <1>2. /\ DOMAIN frames = 1 .. n /\ DOMAIN frames' = 1 .. n + 1
        /\ Level = 1 .. n + 1
    BY <1>1 DEF Level
  <1>3. ASSUME NEW k \in Level PROVE World(k)' = World(k)
    BY <1>1, <1>2 DEF World
  <1>4. World(n + 2)' = chain'
    BY <1>1 DEF World
  <1>5. \A i \in 1 .. n : Gated(i)' = Gated(i) /\ Key(i)' = Key(i)
    BY <1>1 DEF Gated, Key
  <1>6. ASSUME NEW k \in Level PROVE OpenKeys(k)' = OpenKeys(k)
    BY <1>1, <1>2, <1>5 DEF OpenKeys
  <1>7. /\ Gated(n + 1)' <=> f.pc # "caller"
        /\ Key(n + 1)' = NonceKey(f.call.att)
    BY <1>1 DEF Gated, Key
  <1>8. OpenKeys(n + 2)' =
          OpenKeys(n + 1) \cup
            (IF f.pc = "caller" THEN {} ELSE {NonceKey(f.call.att)})
    <2> DEFINE J == {i \in DOMAIN frames : i < n + 1 /\ Gated(i)}
               J1 == {i \in DOMAIN frames' : i < n + 2 /\ Gated(i)'}
    <2>1. J1 = J \cup (IF f.pc = "caller" THEN {} ELSE {n + 1})
      <3>1. J \subseteq 1 .. n /\ J1 \subseteq 1 .. n + 1
        BY <1>2
      <3>2. \A i \in 1 .. n : i \in J1 <=> i \in J
        BY <1>2, <1>5
      <3>3. n + 1 \in J1 <=> f.pc # "caller"
        <4>1. n + 1 \in DOMAIN frames' /\ n + 1 < n + 2
          BY <1>2
        <4>2. n + 1 \in J1 <=> Gated(n + 1)'
          BY <4>1
        <4> QED
          BY <4>2, <1>7
      <3>4. \A i \in 1 .. n + 1 : i \in 1 .. n \/ i = n + 1
        OBVIOUS
      <3>5. n + 1 \notin 1 .. n
        OBVIOUS
      <3> HIDE DEF J, J1
      <3> QED
        BY <3>1, <3>2, <3>3, <3>4, <3>5, Zenon
    <2>2. /\ OpenKeys(n + 1) = {Key(j) : j \in J}
          /\ OpenKeys(n + 2)' = {Key(j)' : j \in J1}
      BY DEF OpenKeys
    <2>3. \A j \in J : Key(j)' = Key(j)
      BY <1>2, <1>5
    <2> HIDE DEF J, J1
    <2>4. CASE f.pc = "caller"
      BY <2>1, <2>2, <2>3, <2>4
    <2>5. CASE f.pc # "caller"
      BY <1>7, <2>1, <2>2, <2>3, <2>5
    <2> QED
      BY <2>4, <2>5
  <1> QED
    BY <1>1, <1>2, <1>3, <1>4, <1>6, <1>8

LEMMA PopWorlds ==
  ASSUME NEW n \in Nat, n = Len(frames), TypeOK, frames # <<>>, frames' = Front(frames)
  PROVE  /\ n \in Nat \ {0} /\ Top = frames[n]
         /\ Len(frames') = n - 1
         /\ \A k \in 1 .. n - 1 : frames'[k] = frames[k]
         /\ \A k \in 1 .. n - 1 : World(k)' = World(k)
         /\ World(n)' = chain'
         /\ World(n) = Top.entry
         /\ \A k \in 1 .. n : OpenKeys(k)' = OpenKeys(k)
         /\ OpenKeys(n + 1) =
              OpenKeys(n) \cup
                (IF Gated(n) THEN {Key(n)} ELSE {})
  <1>1. /\ frames \in Seq(Frame) /\ n \in Nat \ {0}
        /\ frames' \in Seq(Frame) /\ Len(frames') = n - 1
        /\ \A i \in 1 .. n - 1 : frames'[i] = frames[i]
        /\ Top = frames[n]
    BY PopFacts DEF TypeOK, Top
  <1>2. DOMAIN frames = 1 .. n /\ DOMAIN frames' = 1 .. n - 1
    BY <1>1
  <1>3. \A k \in 1 .. n - 1 : World(k)' = World(k)
    BY <1>1 DEF World
  <1>4. World(n)' = chain' /\ World(n) = Top.entry
    BY <1>1 DEF World
  <1>5. \A i \in 1 .. n - 1 : Gated(i)' = Gated(i) /\ Key(i)' = Key(i)
    BY <1>1 DEF Gated, Key
  <1>6. ASSUME NEW k \in 1 .. n PROVE OpenKeys(k)' = OpenKeys(k)
    BY <1>1, <1>2, <1>5 DEF OpenKeys
  <1>7. OpenKeys(n + 1) = OpenKeys(n) \cup (IF Gated(n) THEN {Key(n)} ELSE {})
    BY <1>1, <1>2 DEF OpenKeys
  <1> QED
    BY <1>1, <1>3, <1>4, <1>6, <1>7

LEMMA ResumeWorlds ==
  ASSUME NEW n \in Nat, n = Len(frames), TypeOK, NEW pc \in {"fee", "pull", "forward"}, frames # <<>>,
         Gated(n),
         frames' = [frames EXCEPT ![n].pc = pc]
  PROVE  /\ Len(frames') = n /\ n \in Nat \ {0}
         /\ \A k \in 1 .. n - 1 : frames'[k] = frames[k]
         /\ \A k \in 1 .. n :
              Gated(k)' = Gated(k) /\ frames'[k].call = frames[k].call
         /\ frames'[n].pc = pc
         /\ \A k \in 1 .. n : World(k)' = World(k)
         /\ World(n + 1) = chain /\ World(n + 1)' = chain'
         /\ \A k \in 1 .. n + 1 : OpenKeys(k)' = OpenKeys(k)
  <1>1. /\ frames \in Seq(Frame) /\ n \in Nat \ {0} /\ n \in DOMAIN frames
        /\ frames[n] \in SwapFrame
    BY PopFacts DEF TypeOK, Gated, Frame, CallerFrame
  <1>2. /\ Len(frames') = n /\ DOMAIN frames' = DOMAIN frames
        /\ DOMAIN frames = 1 .. n
        /\ \A k \in 1 .. n - 1 : frames'[k] = frames[k]
        /\ frames'[n].pc = pc /\ frames'[n].call = frames[n].call
        /\ frames'[n].entry = frames[n].entry
    BY <1>1 DEF SwapFrame
  <1>3. \A k \in 1 .. n :
          /\ Gated(k)' = Gated(k) /\ frames'[k].call = frames[k].call
          /\ frames'[k].entry = frames[k].entry
    BY <1>1, <1>2 DEF Gated
  <1>4. \A k \in 1 .. n : World(k)' = World(k)
    BY <1>1, <1>2, <1>3 DEF World
  <1>5. World(n + 1) = chain /\ World(n + 1)' = chain'
    BY <1>1, <1>2 DEF World
  <1>6. \A k \in 1 .. n : Key(k)' = Key(k)
    BY <1>3 DEF Key
  <1>7. ASSUME NEW k \in 1 .. n + 1 PROVE OpenKeys(k)' = OpenKeys(k)
    BY <1>2, <1>3, <1>6 DEF OpenKeys
  <1> QED
    BY <1>1, <1>2, <1>3, <1>4, <1>5, <1>7

(* What each kind of step does to the keys.                                *)
LEMMA KeysInvCopied ==
  ASSUME NEW w, NEW v, NEW open, KeysInv(w, open),
         v.usedNonce = w.usedNonce, v.log = w.log
  PROVE  KeysInv(v, open)
  BY DEF KeysInv, SettledKeys, Once

LEMMA KeysInvAccepted ==
  ASSUME NEW w, NEW v, NEW open, NEW key, KeysInv(w, open),
         key \notin w.usedNonce,
         v.usedNonce = w.usedNonce \cup {key}, v.log = w.log
  PROVE  KeysInv(v, open \cup {key})
  <1>1. SettledKeys(v) = SettledKeys(w) /\ (Once(w) <=> Once(v))
    BY DEF SettledKeys, Once
  <1> QED
    BY <1>1 DEF KeysInv

LEMMA KeysInvSettled ==
  ASSUME NEW w \in Chain, NEW v, NEW open, NEW s \in Settlement,
         KeysInv(w, open \cup {NonceKey(s.att)}), NonceKey(s.att) \notin open,
         v.usedNonce = w.usedNonce, v.log = Append(w.log, s)
  PROVE  KeysInv(v, open)
  <1> DEFINE n == Len(w.log)
  <1>1. w.log \in Seq(Settlement) /\ n \in Nat
    BY DEF Chain
  <1>2. /\ DOMAIN w.log = 1 .. n /\ DOMAIN v.log = 1 .. n + 1
        /\ \A i \in 1 .. n : v.log[i] = w.log[i]
        /\ v.log[n + 1] = s
    BY <1>1
  <1> HIDE DEF n
  <1>3. SettledKeys(v) = SettledKeys(w) \cup {NonceKey(s.att)}
    BY <1>1, <1>2 DEF SettledKeys
  <1>4. Once(v)
    <2> SUFFICES ASSUME NEW i \in 1 .. n + 1, NEW j \in 1 .. n + 1, i # j
                 PROVE  NonceKey(v.log[i].att) # NonceKey(v.log[j].att)
      BY <1>2 DEF Once
    <2>1. \A k \in 1 .. n : NonceKey(v.log[k].att) # NonceKey(s.att)
      BY <1>2 DEF KeysInv, SettledKeys
    <2>2. CASE i = n + 1 \/ j = n + 1
      BY <1>1, <1>2, <2>1, <2>2
    <2>3. CASE i # n + 1 /\ j # n + 1
      <3>1. i \in 1 .. n /\ j \in 1 .. n
        BY <1>1, <2>3
      <3> QED
        BY <1>2, <3>1 DEF KeysInv, Once
    <2> QED
      BY <2>2, <2>3
  <1> QED
    BY <1>3, <1>4 DEF KeysInv

(* A gatedSwap is entered: its key is new to the chain state, so also to   *)
(* the calls below it.                                                     *)
LEMMA NonceEnter ==
  ASSUME TypeInv, NonceInv, NEW c \in Call, NEW f \in Frame, f.pc # "caller",
         f.call = c, f.entry = chain, frames' = Append(frames, f),
         NonceFresh(chain, c),
         chain'.usedNonce = chain.usedNonce \cup {NonceKey(c.att)},
         chain'.log = chain.log
  PROVE  NonceInv'
  <1>0. PICK n \in Nat : n = Len(frames)
    BY PushFacts DEF TypeInv, TypeOK
  <1>1. /\ Len(frames') = n + 1 /\ frames \in Seq(Frame) /\ frames' \in Seq(Frame)
        /\ \A k \in DOMAIN frames : frames'[k] = frames[k]
        /\ frames'[n + 1] = f
        /\ \A k \in Level : World(k)' = World(k) /\ OpenKeys(k)' = OpenKeys(k)
        /\ World(n + 2)' = chain'
        /\ OpenKeys(n + 2)' = OpenKeys(n + 1) \cup {NonceKey(c.att)}
    BY <1>0, PushWorlds, PushFacts DEF TypeInv, TypeOK
  <1>2. /\ Level = 1 .. n + 1 /\ Level' = 1 .. n + 2 /\ World(n + 1) = chain
        /\ DOMAIN frames = 1 .. n /\ DOMAIN frames' = 1 .. n + 1
    BY <1>0, <1>1 DEF Level, World
  <1>3. KeysInv(chain, OpenKeys(n + 1))
    BY <1>2 DEF NonceInv
  <1>4. KeysInv(chain', OpenKeys(n + 1) \cup {NonceKey(c.att)})
    BY <1>3, KeysInvAccepted DEF NonceFresh
  <1>5. ASSUME NEW k \in Level' PROVE KeysInv(World(k), OpenKeys(k))'
    <2>1. CASE k = n + 2
      BY <1>1, <1>4, <2>1 DEF KeysInv, SettledKeys, Once
    <2>2. CASE k # n + 2
      <3>1. k \in Level
        BY <1>2, <2>2
      <3> QED
        BY <1>1, <3>1 DEF NonceInv, KeysInv, SettledKeys, Once
    <2> QED
      BY <2>1, <2>2
  <1>6. \A k \in 1 .. n : (Gated(k)' <=> Gated(k)) /\ Key(k)' = Key(k)
    BY <1>1, <1>2 DEF Gated, Key
  <1>7. \A k \in 1 .. n : Gated(k) => Key(k) # NonceKey(c.att)
    <2>1. \A k \in 1 .. n : Gated(k) => Key(k) \in OpenKeys(n + 1)
      BY <1>2 DEF OpenKeys
    <2> QED
      BY <1>3, <2>1 DEF KeysInv, NonceFresh
  <1>8. Key(n + 1)' = NonceKey(c.att)
    BY <1>1 DEF Key
  <1>9. OpenDistinct'
    <2> SUFFICES ASSUME NEW i \in 1 .. n + 1, NEW j \in 1 .. n + 1,
                        Gated(i)', Gated(j)', i # j
                 PROVE  Key(i)' # Key(j)'
      BY <1>2 DEF OpenDistinct
    <2>1. CASE i = n + 1
      <3>1. j \in 1 .. n
        BY <2>1
      <3> QED
        BY <1>6, <1>7, <1>8, <2>1, <3>1
    <2>2. CASE j = n + 1
      <3>1. i \in 1 .. n
        BY <2>2
      <3> QED
        BY <1>6, <1>7, <1>8, <2>2, <3>1
    <2>3. CASE i # n + 1 /\ j # n + 1
      <3>1. i \in 1 .. n /\ j \in 1 .. n
        BY <2>3
      <3> QED
        BY <1>2, <1>6, <3>1 DEF NonceInv, OpenDistinct
    <2> QED
      BY <2>1, <2>2, <2>3
  <1> QED
    BY <1>5, <1>9 DEF NonceInv

(* A frame is popped and leaves a chain state that fits the calls below.   *)
LEMMA NoncePop ==
  ASSUME TypeInv, NonceInv, frames # <<>>, frames' = Front(frames),
         KeysInv(chain', OpenKeys(Len(frames)))
  PROVE  NonceInv'
  <1>0. PICK n \in Nat : n = Len(frames)
    BY PopFacts DEF TypeInv, TypeOK
  <1>1. /\ frames \in Seq(Frame) /\ frames' \in Seq(Frame)
        /\ n \in Nat \ {0} /\ Len(frames') = n - 1
        /\ \A k \in 1 .. n - 1 : frames'[k] = frames[k]
        /\ \A k \in 1 .. n - 1 : World(k)' = World(k)
        /\ World(n)' = chain'
        /\ \A k \in 1 .. n : OpenKeys(k)' = OpenKeys(k)
    BY <1>0, PopWorlds, PopFacts DEF TypeInv, TypeOK
  <1>2. /\ Level = 1 .. n + 1 /\ Level' = 1 .. n
        /\ DOMAIN frames = 1 .. n /\ DOMAIN frames' = 1 .. n - 1
    BY <1>0, <1>1 DEF Level
  <1>3. ASSUME NEW k \in Level' PROVE KeysInv(World(k), OpenKeys(k))'
    <2>1. CASE k = n
      BY <1>0, <1>1, <2>1 DEF KeysInv, SettledKeys, Once
    <2>2. CASE k # n
      <3>1. k \in Level /\ k \in 1 .. n - 1 /\ k \in 1 .. n
        BY <1>1, <1>2, <2>2
      <3> QED
        BY <1>1, <3>1 DEF NonceInv, KeysInv, SettledKeys, Once
    <2> QED
      BY <2>1, <2>2
  <1>4. OpenDistinct'
    BY <1>1, <1>2 DEF NonceInv, OpenDistinct, Gated, Key
  <1> QED
    BY <1>3, <1>4 DEF NonceInv

(* The stack keeps its calls and the chain state its keys.                 *)
LEMMA NonceKept ==
  ASSUME TypeInv, NonceInv, NEW n \in Nat, n = Len(frames), Len(frames') = n,
         frames \in Seq(Frame), frames' \in Seq(Frame),
         \A k \in 1 .. n : /\ Gated(k)' <=> Gated(k)
                           /\ frames'[k].call = frames[k].call
                           /\ frames'[k].entry = frames[k].entry,
         chain'.usedNonce = chain.usedNonce, chain'.log = chain.log
  PROVE  NonceInv'
  <1>1. /\ Level = 1 .. n + 1 /\ Level' = 1 .. n + 1
        /\ DOMAIN frames = 1 .. n /\ DOMAIN frames' = 1 .. n
    BY DEF Level
  <1>2. \A k \in 1 .. n : Key(k)' = Key(k)
    BY DEF Key
  <1>3. ASSUME NEW k \in Level PROVE OpenKeys(k)' = OpenKeys(k)
    BY <1>1, <1>2 DEF OpenKeys
  <1>4. ASSUME NEW k \in Level'
        PROVE  /\ World(k)'.usedNonce = World(k).usedNonce
               /\ World(k)'.log = World(k).log
    BY <1>1 DEF World
  <1>5. ASSUME NEW k \in Level' PROVE KeysInv(World(k), OpenKeys(k))'
    <2>1. KeysInv(World(k), OpenKeys(k)) /\ OpenKeys(k)' = OpenKeys(k)
      BY <1>1, <1>3 DEF NonceInv
    <2> QED
      BY <1>4, <2>1 DEF KeysInv, SettledKeys, Once
  <1>6. OpenDistinct'
    BY <1>1, <1>2 DEF NonceInv, OpenDistinct
  <1> QED
    BY <1>5, <1>6 DEF NonceInv

(* Foreign code is pushed: nothing changes but the height of the stack.    *)
LEMMA NonceCaller ==
  ASSUME TypeInv, NonceInv, CallerStarts
  PROVE  NonceInv'
  <1> DEFINE f == [pc |-> "caller", entry |-> chain]
  <1>0. PICK n \in Nat : n = Len(frames)
    BY PushFacts DEF TypeInv, TypeOK
  <1>1. f \in Frame /\ f.pc = "caller" /\ f.entry = chain
    BY DEF TypeInv, TypeOK, Frame, CallerFrame
  <1>2. frames' = Append(frames, f) /\ chain' = chain
    BY DEF CallerStarts
  <1> HIDE DEF f
  <1>3. /\ Len(frames') = n + 1 /\ frames \in Seq(Frame) /\ frames' \in Seq(Frame)
        /\ \A k \in DOMAIN frames : frames'[k] = frames[k]
        /\ frames'[n + 1] = f
        /\ \A k \in Level : World(k)' = World(k) /\ OpenKeys(k)' = OpenKeys(k)
        /\ World(n + 2)' = chain'
        /\ OpenKeys(n + 2)' = OpenKeys(n + 1)
    BY <1>0, <1>1, <1>2, PushWorlds, PushFacts DEF TypeInv, TypeOK
  <1>4. /\ Level = 1 .. n + 1 /\ Level' = 1 .. n + 2 /\ World(n + 1) = chain
        /\ DOMAIN frames = 1 .. n /\ DOMAIN frames' = 1 .. n + 1
    BY <1>0, <1>3 DEF Level, World
  <1>5. ASSUME NEW k \in Level' PROVE KeysInv(World(k), OpenKeys(k))'
    <2>1. CASE k = n + 2
      BY <1>2, <1>3, <1>4, <2>1 DEF NonceInv, KeysInv, SettledKeys, Once
    <2>2. CASE k # n + 2
      <3>1. k \in Level
        BY <1>4, <2>2
      <3> QED
        BY <1>3, <3>1 DEF NonceInv, KeysInv, SettledKeys, Once
    <2> QED
      BY <2>1, <2>2
  <1>6. \A k \in 1 .. n + 1 :
          Gated(k)' => k \in 1 .. n /\ Gated(k) /\ Key(k)' = Key(k)
    BY <1>1, <1>3, <1>4 DEF Gated, Key
  <1>7. OpenDistinct'
    BY <1>4, <1>6 DEF NonceInv, OpenDistinct
  <1> QED
    BY <1>5, <1>7 DEF NonceInv

(* Paying, pulling and forwarding do not touch the nonces or the log.      *)
LEMMA EffectsKeepKeys ==
  ASSUME NEW w \in Chain, NEW c \in Call
  PROVE  /\ Forward(w, c).usedNonce = w.usedNonce /\ Forward(w, c).log = w.log
         /\ ChainAfterFee(w, c).usedNonce = w.usedNonce
         /\ ChainAfterFee(w, c).log = w.log
         /\ PayFee(w, c).usedNonce = w.usedNonce /\ PayFee(w, c).log = w.log
         /\ Spend(w, c.payload).usedNonce = w.usedNonce
         /\ Spend(w, c.payload).log = w.log
         /\ Pull(w, c.payload).usedNonce = w.usedNonce
         /\ Pull(w, c.payload).log = w.log
         /\ Accept(w, c).usedNonce = w.usedNonce \cup {NonceKey(c.att)}
         /\ Accept(w, c).log = w.log
  BY DEF Forward, ChainAfterFee, PayFee, Spend, Pull, Accept, Chain

LEMMA NonceStep == TypeInv /\ NonceInv /\ [Next]_vars => NonceInv'
  <1> SUFFICES ASSUME TypeInv, NonceInv, [Next]_vars PROVE NonceInv'
    OBVIOUS
  <1> USE TypeInvStep
  <1>0. /\ chain \in Chain /\ frames \in Seq(Frame)
        /\ chain' \in Chain /\ frames' \in Seq(Frame)
    BY DEF TypeInv, TypeOK
  <1>t. PICK n \in Nat : n = Len(frames)
    BY <1>0
  <1>1. ASSUME NEW c \in Call, EnterWithFee(c) PROVE NonceInv'
    <2> DEFINE f == [pc |-> "fee", call |-> c, entry |-> chain]
    <2>1. /\ f \in Frame /\ f.pc # "caller" /\ f.call = c /\ f.entry = chain
      BY <1>0 DEF Frame, SwapFrame
    <2>2. /\ frames' = Append(frames, f) /\ NonceFresh(chain, c)
          /\ chain' = PayFee(Accept(chain, c), c) /\ AboveFloor(c)
      BY <1>1 DEF EnterWithFee, Enter, Admissible
    <2>3. /\ chain'.usedNonce = chain.usedNonce \cup {NonceKey(c.att)}
          /\ chain'.log = chain.log
      <3> DEFINE v == Accept(chain, c)
      <3>1. v \in Chain
        BY <1>0, <2>2, EffectsTyped
      <3>2. v.usedNonce = chain.usedNonce \cup {NonceKey(c.att)} /\ v.log = chain.log
        BY <1>0, EffectsKeepKeys
      <3>3. chain' = PayFee(v, c)
        BY <2>2
      <3> HIDE DEF v
      <3> QED
        BY <3>1, <3>2, <3>3, EffectsKeepKeys
    <2> QED
      BY <2>1, <2>2, <2>3, NonceEnter
  <1>2. ASSUME NEW c \in Call, EnterFeeless(c) PROVE NonceInv'
    <2> DEFINE f == [pc |-> PcAfterFee(c), call |-> c, entry |-> chain]
    <2>1. /\ f \in Frame /\ f.pc # "caller" /\ f.call = c /\ f.entry = chain
      BY <1>0 DEF Frame, SwapFrame, PcAfterFee
    <2>2. /\ frames' = Append(frames, f) /\ NonceFresh(chain, c)
          /\ chain' = ChainAfterFee(Accept(chain, c), c) /\ AboveFloor(c)
      BY <1>2 DEF EnterFeeless, Enter, Admissible
    <2>3. /\ chain'.usedNonce = chain.usedNonce \cup {NonceKey(c.att)}
          /\ chain'.log = chain.log
      <3> DEFINE v == Accept(chain, c)
      <3>1. v \in Chain
        BY <1>0, <2>2, EffectsTyped
      <3>2. v.usedNonce = chain.usedNonce \cup {NonceKey(c.att)} /\ v.log = chain.log
        BY <1>0, EffectsKeepKeys
      <3>3. chain' = ChainAfterFee(v, c)
        BY <2>2
      <3> HIDE DEF v
      <3> QED
        BY <3>1, <3>2, <3>3, EffectsKeepKeys
    <2> QED
      BY <2>1, <2>2, <2>3, NonceEnter
  <1>3. ASSUME NEW pc \in {"fee", "pull", "forward"}, NEW w \in Chain,
               frames # <<>>, Top.pc # "caller", Resume(pc, w),
               w.usedNonce = chain.usedNonce, w.log = chain.log
        PROVE  NonceInv'
    <2>1. Gated(n)
      BY <1>3, <1>t, TopCall
    <2>2. /\ Len(frames') = n
          /\ \A k \in 1 .. n : /\ Gated(k)' <=> Gated(k)
                               /\ frames'[k].call = frames[k].call
          /\ \A k \in 1 .. n : World(k)' = World(k)
      BY <1>3, <1>t, <2>1, ResumeWorlds DEF Resume, TypeInv
    <2>3. \A k \in 1 .. n : frames'[k].entry = frames[k].entry
      BY <1>t, <2>2 DEF World
    <2> QED
      BY <1>0, <1>3, <1>t, <2>2, <2>3, NonceKept DEF Resume
  <1>4. CASE FeeReturns
    <2>1. Top.call \in Call /\ AboveFloor(Top.call)
      BY <1>4, TopCall DEF FeeReturns, Suspended
    <2>2. /\ PcAfterFee(Top.call) \in {"fee", "pull", "forward"}
          /\ ChainAfterFee(chain, Top.call) \in Chain
      BY <1>0, <2>1, EffectsTyped DEF PcAfterFee
    <2>3. /\ ChainAfterFee(chain, Top.call).usedNonce = chain.usedNonce
          /\ ChainAfterFee(chain, Top.call).log = chain.log
      BY <1>0, <2>1, EffectsKeepKeys
    <2> QED
      BY <1>3, <1>4, <2>2, <2>3 DEF FeeReturns, Suspended
  <1>5. CASE PullReturns
    <2> DEFINE w == Pull(chain, Top.call.payload)
    <2>1. /\ Top.call \in Call /\ AboveFloor(Top.call)
          /\ Pulls(Top.call.payload)
      BY <1>5, TopCall DEF PullReturns, Suspended
    <2>2. w \in Chain /\ Forward(w, Top.call) \in Chain
      BY <1>0, <2>1, EffectsTyped
    <2>3. /\ Forward(w, Top.call).usedNonce = chain.usedNonce
          /\ Forward(w, Top.call).log = chain.log
      <3>1. w.usedNonce = chain.usedNonce /\ w.log = chain.log
        BY <1>0, <2>1, EffectsKeepKeys
      <3> HIDE DEF w
      <3> QED
        BY <2>1, <2>2, <3>1, EffectsKeepKeys
    <2> QED
      BY <1>3, <1>5, <2>2, <2>3 DEF PullReturns, Suspended
  <1>6. CASE SwapReturns
    <2> DEFINE c == Top.call
               w == Spend(chain, c.payload)
               s == [att |-> c.att, value |-> c.value, fee |-> FeeOf(c)]
    <2>1. /\ frames # <<>> /\ c \in Call /\ AboveFloor(c) /\ Gated(n)
          /\ Top = frames[n] /\ n \in DOMAIN frames
      BY <1>6, <1>t, TopCall DEF SwapReturns, Suspended
    <2>2. w \in Chain /\ w.usedNonce = chain.usedNonce /\ w.log = chain.log
      BY <1>0, <2>1, EffectsTyped, EffectsKeepKeys
    <2>3. s \in Settlement /\ s.att = c.att
      BY <2>1, TermsOfCall DEF Settlement, Call
    <2>4. /\ chain'.usedNonce = chain.usedNonce
          /\ chain'.log = Append(chain.log, s)
          /\ frames' = Front(frames)
      BY <1>6, <2>2 DEF SwapReturns, Emit, Chain
    <2>5. /\ OpenKeys(n + 1) = OpenKeys(n) \cup {NonceKey(s.att)}
          /\ World(n + 1) = chain /\ n + 1 \in Level
      <3>1. Key(n) = NonceKey(s.att)
        BY <2>1, <2>3 DEF Key
      <3>2. OpenKeys(n + 1) = OpenKeys(n) \cup {Key(n)}
        BY <1>t, <2>1, <2>4, PopWorlds DEF TypeInv
      <3>3. World(n + 1) = chain /\ n + 1 \in Level
        BY <1>t DEF World, Level
      <3> QED
        BY <3>1, <3>2, <3>3
    <2>6. NonceKey(s.att) \notin OpenKeys(n)
      BY <1>t, <2>1, <2>3 DEF NonceInv, OpenDistinct, OpenKeys, Key
    <2>7. KeysInv(chain, OpenKeys(n) \cup {NonceKey(s.att)})
      BY <2>5 DEF NonceInv
    <2> HIDE DEF s
    <2>8. KeysInv(chain', OpenKeys(n))
      BY <1>0, <2>3, <2>4, <2>6, <2>7, KeysInvSettled
    <2> QED
      BY <1>t, <2>1, <2>4, <2>8, NoncePop
  <1>7. CASE CallerStarts
    BY <1>7, NonceCaller
  <1>8. CASE CallerReturns
    <2>1. /\ frames # <<>> /\ frames' = Front(frames) /\ chain' = chain
          /\ Top.pc = "caller"
      BY <1>8 DEF CallerReturns, Suspended
    <2>2. /\ ~Gated(n) /\ World(n + 1) = chain /\ n + 1 \in Level
          /\ OpenKeys(n + 1) = OpenKeys(n)
      BY <1>t, <2>1, PopWorlds DEF TypeInv, Gated, World, Level
    <2>3. KeysInv(chain, OpenKeys(n))
      BY <2>2 DEF NonceInv
    <2> QED
      BY <1>t, <2>1, <2>3, NoncePop
  <1>9. CASE Reverts
    <2>1. frames # <<>> /\ frames' = Front(frames) /\ chain' = Top.entry
      BY <1>9 DEF Reverts
    <2>2. World(n) = Top.entry /\ n \in Level
      BY <1>t, <2>1, PopWorlds DEF TypeInv, Level
    <2>3. KeysInv(chain', OpenKeys(n))
      BY <2>1, <2>2 DEF NonceInv
    <2> QED
      BY <1>t, <2>1, <2>3, NoncePop
  <1>10. ASSUME NEW token \in Token, SetApprovals(token) PROVE NonceInv'
    <2>1. /\ chain'.usedNonce = chain.usedNonce /\ chain'.log = chain.log
          /\ frames' = frames
      BY <1>0, <1>10 DEF SetApprovals, Chain
    <2> QED
      BY <1>0, <1>t, <2>1, NonceKept DEF Gated
  <1>11. CASE NextBlock
    BY <1>0, <1>t, <1>11, NonceKept DEF NextBlock, Gated
  <1>12. CASE UNCHANGED vars
    BY <1>0, <1>t, <1>12, NonceKept DEF vars, Gated
  <1> QED
    BY <1>1, <1>2, <1>4, <1>5, <1>6, <1>7, <1>8, <1>9, <1>10, <1>11, <1>12 DEF Next

LEMMA NonceInit == Init => NonceInv
  <1> SUFFICES ASSUME Init PROVE NonceInv
    OBVIOUS
  <1>1. frames = <<>> /\ chain.usedNonce = {} /\ chain.log = <<>>
    BY DEF Init
  <1>2. Level = {1} /\ World(1) = chain /\ OpenKeys(1) = {}
    BY <1>1 DEF Level, World, OpenKeys
  <1>3. KeysInv(chain, {})
    BY <1>1 DEF KeysInv, SettledKeys, Once
  <1>4. \A k \in Level : KeysInv(World(k), OpenKeys(k))
    BY <1>2, <1>3
  <1>5. OpenDistinct
    BY <1>1 DEF OpenDistinct
  <1> QED
    BY <1>4, <1>5 DEF NonceInv

LEMMA NonceInvImplies == TypeInv /\ NonceInv => SingleUse /\ NonceBurnedIffSettled
  <1> SUFFICES ASSUME TypeInv, NonceInv PROVE SingleUse /\ NonceBurnedIffSettled
    OBVIOUS
  <1>1. PICK n \in Nat : n = Len(frames)
    BY DEF TypeInv, TypeOK
  <1>2. n + 1 \in Level /\ World(n + 1) = chain
    BY <1>1 DEF Level, World
  <1>3. KeysInv(chain, OpenKeys(n + 1))
    BY <1>2 DEF NonceInv
  <1>4. SingleUse
    BY <1>3 DEF KeysInv, Once, SingleUse
  <1>5. ASSUME frames = <<>> PROVE chain.usedNonce = SettledKeys(chain)
    <2>1. OpenKeys(n + 1) = {}
      BY <1>5 DEF OpenKeys
    <2> QED
      BY <1>3, <2>1 DEF KeysInv
  <1> QED
    BY <1>4, <1>5 DEF NonceBurnedIffSettled

(* No attestation nonce of a swapper settles twice, whatever calls nest    *)
(* and whatever reverts.                                                   *)
THEOREM SettledOnce == Spec => []SingleUse
  BY InitTyped, TypeInvStep, NonceInit, NonceStep, NonceInvImplies, PTL DEF Spec

(* A nonce is burned only by a swap that settled.                          *)
THEOREM BurnedBySettlement == Spec => []NonceBurnedIffSettled
  BY InitTyped, TypeInvStep, NonceInit, NonceStep, NonceInvImplies, PTL DEF Spec

----------------------------------------------------------------------------
(***************************************************************************)
(* The shape of a step: it pushes a frame on the stack, pops the top one,  *)
(* or leaves the chain states below the current one alone.                 *)
(***************************************************************************)
Pushes(n, f) ==
  /\ frames' = Append(frames, f) /\ f.entry = chain /\ Len(frames') = n + 1
  /\ \A k \in 1 .. n : frames'[k] = frames[k]
  /\ frames'[n + 1] = f
  /\ \A k \in 1 .. n + 1 : World(k)' = World(k)
  /\ World(n + 2)' = chain'
Pops(n) ==
  /\ frames # <<>> /\ n \in 1 .. n /\ Top = frames[n] /\ Len(frames') = n - 1
  /\ \A k \in 1 .. n - 1 : frames'[k] = frames[k]
  /\ \A k \in 1 .. n - 1 : World(k)' = World(k)
  /\ World(n)' = chain'
Keeps(n) ==
  /\ Len(frames') = n
  /\ \A k \in 1 .. n - 1 : frames'[k] = frames[k]
  /\ \A k \in 1 .. n : World(k)' = World(k)
  /\ \A k \in 1 .. n : frames'[k].call = frames[k].call
  /\ \A k \in 1 .. n : Gated(k)' <=> Gated(k)
  /\ World(n + 1)' = chain'

LEMMA PushShape ==
  ASSUME TypeOK, NEW n \in Nat, n = Len(frames), NEW f \in Frame,
         f.entry = chain, frames' = Append(frames, f)
  PROVE  Pushes(n, f)
  <1>1. DOMAIN frames = 1 .. n /\ Level = 1 .. n + 1
    BY DEF TypeOK, Level
  <1> QED
    BY <1>1, PushWorlds DEF Pushes

LEMMA PopShape ==
  ASSUME TypeOK, NEW n \in Nat, n = Len(frames), frames # <<>>,
         frames' = Front(frames)
  PROVE  Pops(n) /\ World(n) = Top.entry
  BY PopWorlds DEF Pops

LEMMA ResumeShape ==
  ASSUME TypeInv, NEW n \in Nat, n = Len(frames), NEW pc \in {"fee", "pull", "forward"},
         NEW w, frames # <<>>, Top.pc # "caller", Resume(pc, w)
  PROVE  Keeps(n) /\ frames'[n].pc = pc /\ n \in 1 .. n /\ Top = frames[n]
  <1>1. Top = frames[n] /\ Gated(n)
    BY TopCall
  <1>2. /\ frames' = [frames EXCEPT ![n].pc = pc] /\ TypeOK
    BY DEF Resume, TypeInv
  <1>3. /\ Len(frames') = n /\ n \in Nat \ {0}
        /\ \A k \in 1 .. n - 1 : frames'[k] = frames[k]
        /\ \A k \in 1 .. n :
             Gated(k)' = Gated(k) /\ frames'[k].call = frames[k].call
        /\ frames'[n].pc = pc
        /\ \A k \in 1 .. n : World(k)' = World(k)
        /\ World(n + 1)' = chain'
    BY <1>1, <1>2, ResumeWorlds
  <1>4. \A k \in 1 .. n : Gated(k)' <=> Gated(k)
    BY <1>3, Zenon
  <1> QED
    BY <1>1, <1>3, <1>4 DEF Keeps

LEMMA StillShape ==
  ASSUME TypeOK, NEW n \in Nat, n = Len(frames), UNCHANGED frames
  PROVE  Keeps(n)
  BY DEF Keeps, World, Gated

(* What a step does to the stack and to the log of the current state.      *)
EntryOf(c) == [att |-> c.att, value |-> c.value, fee |-> FeeOf(c)]
PushesSilently(n) ==
  \E f \in Frame : frames' = Append(frames, f) /\ Pushes(n, f) /\ chain'.log = chain.log
KeepsSilently(n) == Keeps(n) /\ chain'.log = chain.log
PopsBack(n) ==
  /\ Pops(n) /\ frames' = Front(frames)
  /\ chain'.log = World(n).log \/ (Top.pc = "caller" /\ chain'.log = chain.log)
PopsSettling(n) ==
  /\ Pops(n) /\ frames' = Front(frames) /\ Top.call \in Call /\ Checked(Top.call)
  /\ Top.pc # "caller" /\ chain'.log = Append(chain.log, EntryOf(Top.call))

LEMMA StepShape ==
  ASSUME TypeInv, [Next]_vars, NEW n \in Nat, n = Len(frames)
  PROVE  PushesSilently(n) \/ KeepsSilently(n) \/ PopsBack(n) \/ PopsSettling(n)
  <1>0. /\ TypeOK /\ TypeOK' /\ chain \in Chain
    BY TypeInvStep DEF TypeInv, TypeOK
  <1>1. ASSUME NEW c \in Call, EnterWithFee(c) PROVE PushesSilently(n)
    <2> DEFINE f == [pc |-> "fee", call |-> c, entry |-> chain]
               v == Accept(chain, c)
    <2>1. f \in Frame /\ f.entry = chain
      BY <1>0 DEF Frame, SwapFrame
    <2>2. /\ frames' = Append(frames, f) /\ AboveFloor(c)
          /\ chain' = PayFee(v, c)
      BY <1>1 DEF EnterWithFee, Enter, Admissible
    <2>3. v \in Chain /\ v.log = chain.log
      BY <1>0, <2>2, EffectsTyped, EffectsKeepKeys
    <2> HIDE DEF f, v
    <2>4. chain'.log = chain.log
      BY <2>2, <2>3, EffectsKeepKeys
    <2> QED
      BY <1>0, <2>1, <2>2, <2>4, PushShape DEF PushesSilently
  <1>2. ASSUME NEW c \in Call, EnterFeeless(c) PROVE PushesSilently(n)
    <2> DEFINE f == [pc |-> PcAfterFee(c), call |-> c, entry |-> chain]
               v == Accept(chain, c)
    <2>1. f \in Frame /\ f.entry = chain
      BY <1>0 DEF Frame, SwapFrame, PcAfterFee
    <2>2. /\ frames' = Append(frames, f) /\ AboveFloor(c)
          /\ chain' = ChainAfterFee(v, c)
      BY <1>2 DEF EnterFeeless, Enter, Admissible
    <2>3. v \in Chain /\ v.log = chain.log
      BY <1>0, <2>2, EffectsTyped, EffectsKeepKeys
    <2> HIDE DEF f, v
    <2>4. chain'.log = chain.log
      BY <2>2, <2>3, EffectsKeepKeys
    <2> QED
      BY <1>0, <2>1, <2>2, <2>4, PushShape DEF PushesSilently
  <1>3. CASE FeeReturns
    <2> DEFINE c == Top.call
    <2>1. /\ frames # <<>> /\ Top.pc # "caller" /\ c \in Call
          /\ Resume(PcAfterFee(c), ChainAfterFee(chain, c))
          /\ PcAfterFee(c) \in {"fee", "pull", "forward"}
      BY <1>3, TopCall DEF FeeReturns, Suspended, PcAfterFee
    <2>2. Keeps(n)
      BY <2>1, ResumeShape
    <2>3. chain'.log = chain.log
      BY <1>0, <2>1, EffectsKeepKeys DEF Resume
    <2> QED
      BY <2>2, <2>3 DEF KeepsSilently
  <1>4. CASE PullReturns
    <2> DEFINE c == Top.call
               w == Pull(chain, c.payload)
    <2>1. /\ frames # <<>> /\ Top.pc = "pull" /\ c \in Call /\ AboveFloor(c)
          /\ Pulls(c.payload) /\ Resume("forward", Forward(w, c))
      BY <1>4, TopCall DEF PullReturns, Suspended
    <2>2. Keeps(n)
      BY <2>1, ResumeShape
    <2>3. w \in Chain /\ w.log = chain.log
      BY <1>0, <2>1, EffectsTyped, EffectsKeepKeys
    <2> HIDE DEF w
    <2>4. chain'.log = chain.log
      BY <2>1, <2>3, EffectsKeepKeys DEF Resume
    <2> QED
      BY <2>2, <2>4 DEF KeepsSilently
  <1>5. CASE SwapReturns
    <2> DEFINE c == Top.call
               v == Spend(chain, c.payload)
    <2>1. /\ frames # <<>> /\ c \in Call /\ Checked(c) /\ AboveFloor(c)
          /\ frames' = Front(frames) /\ chain' = Emit(v, c)
      BY <1>5, TopCall DEF SwapReturns, Suspended
    <2>2. v \in Chain /\ v.log = chain.log
      BY <1>0, <2>1, EffectsTyped, EffectsKeepKeys
    <2>3. chain'.log = Append(chain.log, EntryOf(c))
      <3> HIDE DEF v
      <3> QED
        BY <2>1, <2>2 DEF Emit, EntryOf, Chain
    <2>4. Pops(n) /\ Top.pc # "caller"
      BY <1>0, <1>5, <2>1, PopShape DEF SwapReturns, Suspended
    <2> QED
      BY <2>1, <2>3, <2>4 DEF PopsSettling
  <1>6. CASE CallerStarts
    <2> DEFINE f == [pc |-> "caller", entry |-> chain]
    <2>1. f \in Frame /\ f.entry = chain
      BY <1>0 DEF Frame, CallerFrame
    <2>2. frames' = Append(frames, f) /\ chain' = chain
      BY <1>6 DEF CallerStarts
    <2> HIDE DEF f
    <2>3. chain'.log = chain.log
      BY <2>2
    <2> QED
      BY <1>0, <2>1, <2>2, <2>3, PushShape DEF PushesSilently
  <1>7. CASE CallerReturns
    <2>1. frames # <<>> /\ frames' = Front(frames) /\ chain' = chain
      BY <1>7 DEF CallerReturns, Suspended
    <2>2. Pops(n) /\ Top.pc = "caller"
      BY <1>0, <1>7, <2>1, PopShape DEF CallerReturns, Suspended
    <2> QED
      BY <2>1, <2>2 DEF PopsBack
  <1>8. CASE Reverts
    <2>1. frames # <<>> /\ frames' = Front(frames) /\ chain' = Top.entry
      BY <1>8 DEF Reverts
    <2>2. Pops(n) /\ World(n) = Top.entry
      BY <1>0, <2>1, PopShape
    <2> QED
      BY <2>1, <2>2 DEF PopsBack
  <1>9. ASSUME NEW token \in Token, SetApprovals(token) PROVE KeepsSilently(n)
    <2>1. chain'.log = chain.log /\ UNCHANGED frames
      BY <1>0, <1>9 DEF SetApprovals, Chain
    <2> QED
      BY <1>0, <2>1, StillShape DEF KeepsSilently
  <1>10. CASE NextBlock
    BY <1>0, <1>10, StillShape DEF NextBlock, KeepsSilently
  <1>11. CASE UNCHANGED vars
    BY <1>0, <1>11, StillShape DEF vars, KeepsSilently
  <1> QED
    BY <1>1, <1>2, <1>3, <1>4, <1>5, <1>6, <1>7, <1>8, <1>9, <1>10, <1>11 DEF Next

----------------------------------------------------------------------------
(***************************************************************************)
(* What comes in goes out.  NoEthRetained, FeesMatchSettlements and        *)
(* ChargedAsAttested say that a quantity of the chain state is explained   *)
(* by the swaps that have settled.  With calls in progress each chain      *)
(* state on the stack differs from the one below it by what the call       *)
(* between them has moved so far, which is one argument for the three: Net *)
(* is what the settled swaps leave unexplained of the ether of the router, *)
(* of the fees paid, and of what a swapper holds of a token.               *)
(***************************************************************************)
Account ==
  [kind: {"eth", "fees"}] \cup [kind: {"held"}, swapper: Swapper, token: Token]

Net(w, x) ==
  IF x.kind = "eth" THEN w.eth
  ELSE IF x.kind = "fees" THEN w.feesPaid - TotalOf(SettledFees(w))
  ELSE w.held[x.token][x.swapper]
         + TotalOf(SettledPulls(w, x.swapper, x.token)) - Deposit

(* What a call that waits at pc has moved.                                 *)
Moved(pc, c, x) ==
  IF x.kind = "eth" THEN IF pc \in {"fee", "pull"} THEN c.value - FeeOf(c) ELSE 0
  ELSE IF x.kind = "fees" THEN FeeOf(c)
  ELSE IF pc = "forward" THEN 0 - AttestedPull(c.att, x.swapper, x.token) ELSE 0
Share(f, x) == IF f.pc = "caller" THEN 0 ELSE Moved(f.pc, f.call, x)

FlowOf(x) ==
  /\ Net(World(1), x) = 0
  /\ \A k \in DOMAIN frames : Net(World(k + 1), x) = Net(World(k), x) + Share(frames[k], x)
PayersInv ==
  \A k \in DOMAIN frames :
    frames[k].pc \in {"pull", "forward"} => PayerIsAttested(frames[k].call)
FlowInv == PayersInv /\ \A x \in Account : FlowOf(x)

LEMMA SettledPullsTyped ==
  ASSUME NEW w \in Chain, NEW swapper \in Swapper, NEW token \in Token
  PROVE  /\ SettledPulls(w, swapper, token) \in Seq(Int)
         /\ Len(SettledPulls(w, swapper, token)) = Len(w.log)
  <1>1. w.log \in Seq(Settlement) /\ Len(w.log) \in Nat /\ DOMAIN w.log = 1 .. Len(w.log)
    BY DEF Chain
  <1>2. \A i \in 1 .. Len(w.log) : w.log[i] \in Settlement
    BY <1>1
  <1>3. \A i \in 1 .. Len(w.log) : w.log[i].att \in AttestationType
    BY <1>2, RouterAssumption DEF Settlement
  <1>4. \A i \in 1 .. Len(w.log) : AttestedPull(w.log[i].att, swapper, token) \in Int
    BY <1>3 DEF AttestedPull, AttestationType, PayloadType
  <1> QED
    BY <1>1, <1>4 DEF SettledPulls

LEMMA SettledFeesTyped ==
  ASSUME NEW w \in Chain
  PROVE  SettledFees(w) \in Seq(Int) /\ Len(SettledFees(w)) = Len(w.log)
  <1>1. w.log \in Seq(Settlement) /\ Len(w.log) \in Nat /\ DOMAIN w.log = 1 .. Len(w.log)
    BY DEF Chain
  <1>2. \A i \in 1 .. Len(w.log) : w.log[i] \in Settlement
    BY <1>1
  <1>3. \A i \in 1 .. Len(w.log) : w.log[i].fee \in Int
    BY <1>2 DEF Settlement
  <1> QED
    BY <1>1, <1>3 DEF SettledFees

LEMMA NetTyped ==
  ASSUME NEW w \in Chain, NEW x \in Account
  PROVE  Net(w, x) \in Int
  <1>1. CASE x.kind = "eth"
    BY <1>1 DEF Net, Chain
  <1>2. CASE x.kind = "fees"
    <2>1. TotalOf(SettledFees(w)) \in Int
      BY SettledFeesTyped, TotalTyped
    <2> QED
      BY <1>2, <2>1 DEF Net, Chain
  <1>3. CASE x.kind = "held"
    <2>1. x.swapper \in Swapper /\ x.token \in Token
      BY <1>3 DEF Account
    <2>2. TotalOf(SettledPulls(w, x.swapper, x.token)) \in Int
      BY <2>1, SettledPullsTyped, TotalTyped
    <2>3. w.held[x.token][x.swapper] \in Int
      BY <2>1 DEF Chain
    <2> QED
      BY <1>3, <2>2, <2>3, RouterAssumption DEF Net
  <1> QED
    BY <1>1, <1>2, <1>3 DEF Account

LEMMA MovedTyped ==
  ASSUME NEW c \in Call, AboveFloor(c), NEW x \in Account, NEW pc
  PROVE  Moved(pc, c, x) \in Int
  <1>1. c.value \in Nat /\ FeeOf(c) \in Nat /\ c.att \in Attestation
    BY TermsOfCall DEF Call
  <1>2. x.kind = "held" => AttestedPull(c.att, x.swapper, x.token) \in Nat
    BY <1>1, RouterAssumption DEF Account, AttestedPull, AttestationType, PayloadType
  <1> QED
    BY <1>1, <1>2 DEF Account, Moved

(* Nothing settles: Net moves with its quantity.                           *)
LEMMA NetMoves ==
  ASSUME NEW w \in Chain, NEW v \in Chain, v.log = w.log, NEW x \in Account, NEW a \in Int,
         x.kind = "eth" => v.eth = w.eth + a,
         x.kind = "fees" => v.feesPaid = w.feesPaid + a,
         x.kind = "held" =>
           v.held[x.token][x.swapper] = w.held[x.token][x.swapper] + a
  PROVE  Net(v, x) = Net(w, x) + a
  <1>1. CASE x.kind = "eth"
    BY <1>1 DEF Net
  <1>2. CASE x.kind = "fees"
    <2>1. SettledFees(v) = SettledFees(w) /\ TotalOf(SettledFees(w)) \in Int
      BY SettledFeesTyped, TotalTyped DEF SettledFees
    <2> QED
      BY <1>2, <2>1 DEF Net, Chain
  <1>3. CASE x.kind = "held"
    <2>1. x.swapper \in Swapper /\ x.token \in Token
      BY <1>3 DEF Account
    <2>2. /\ SettledPulls(v, x.swapper, x.token) = SettledPulls(w, x.swapper, x.token)
          /\ TotalOf(SettledPulls(w, x.swapper, x.token)) \in Int
      BY <2>1, SettledPullsTyped, TotalTyped DEF SettledPulls
    <2>3. w.held[x.token][x.swapper] \in Int
      BY <2>1 DEF Chain
    <2> QED
      BY <1>3, <2>2, <2>3, RouterAssumption DEF Net
  <1> QED
    BY <1>1, <1>2, <1>3 DEF Account

(* Only a pull changes what a swapper holds: of the payer, and the token.   *)
LEMMA HoldingsMoved ==
  ASSUME NEW w \in Chain, NEW c \in Call, AboveFloor(c),
         NEW s \in Swapper, NEW t \in Token
  PROVE  /\ Spend(w, c.payload).held[t][s] = w.held[t][s]
         /\ Pulls(c.payload) =>
              Pull(w, c.payload).held[t][s] =
                IF t = c.payload.tokenIn /\ s = c.payload.payer
                THEN w.held[t][s] - c.payload.amountIn ELSE w.held[t][s]
  <1> DEFINE p == c.payload
  <1>1. /\ p \in PayloadType /\ p.tokenIn \in Token /\ p.amountIn \in Nat
        /\ Pulls(p) => p.payer \in Swapper
        /\ Router \notin Swapper
    BY TermsOfCall, RouterAssumption DEF PayloadType, Pulls
  <1>2. /\ w.held[p.tokenIn] \in Balances /\ w.held[t] \in Balances
        /\ DOMAIN w.held = Token
    BY <1>1 DEF Chain, Balances
  <1> HIDE DEF p
  <1>3. Spend(w, p).held = [w.held EXCEPT ![p.tokenIn] = Debit(@, Router, p.spend)]
    BY DEF Spend, Chain
  <1>4. Spend(w, p).held[t][s] = w.held[t][s]
    <2>1. CASE t = p.tokenIn
      BY <1>1, <1>2, <1>3, <2>1 DEF Debit, Balances
    <2>2. CASE t # p.tokenIn
      BY <1>1, <1>2, <1>3, <2>2
    <2> QED
      BY <2>1, <2>2
  <1>5. Pull(w, p).held =
          [w.held EXCEPT ![p.tokenIn] = Credit(Debit(@, p.payer, p.amountIn),
                                               Router, p.amountIn)]
    BY DEF Pull, Chain
  <1>6. ASSUME Pulls(p)
         PROVE  Pull(w, p).held[t][s] =
                  IF t = p.tokenIn /\ s = p.payer
                  THEN w.held[t][s] - p.amountIn ELSE w.held[t][s]
    <2>1. CASE t = p.tokenIn
      <3> DEFINE b == Debit(w.held[t], p.payer, p.amountIn)
      <3>1. b \in Balances
        BY <1>1, <1>2, <1>6, CreditDebitTyped
      <3>2. b[s] = IF s = p.payer THEN w.held[t][s] - p.amountIn ELSE w.held[t][s]
        BY <1>1, <1>2, <1>6 DEF Debit, Balances
      <3>3. Credit(b, Router, p.amountIn)[s] = b[s]
        <4> HIDE DEF b
        <4> QED
          BY <1>1, <3>1 DEF Credit, Balances
      <3>4. Pull(w, p).held[t] = Credit(b, Router, p.amountIn)
        BY <1>1, <1>2, <1>5, <2>1
      <3> HIDE DEF b
      <3> QED
        BY <2>1, <3>2, <3>3, <3>4
    <2>2. CASE t # p.tokenIn
      BY <1>1, <1>2, <1>5, <2>2
    <2> QED
      BY <2>1, <2>2
  <1> QED
    BY <1>4, <1>6 DEF p

(* How far each step of a call moves Net.                                  *)
LEMMA NetEntersWithFee ==
  ASSUME NEW w \in Chain, NEW c \in Call, AboveFloor(c), NEW x \in Account
  PROVE  Net(PayFee(Accept(w, c), c), x) = Net(w, x) + Moved("fee", c, x)
  <1> DEFINE v == Accept(w, c)
             u == PayFee(v, c)
  <1>1. v \in Chain /\ v.log = w.log
    BY EffectsTyped, EffectsKeepKeys
  <1>2. u \in Chain /\ u.log = w.log
    <2> HIDE DEF v
    <2> QED
      BY <1>1, EffectsTyped, EffectsKeepKeys
  <1>3. /\ c.value \in Nat /\ FeeOf(c) \in Nat /\ w.eth \in Int /\ w.feesPaid \in Nat
        /\ Moved("fee", c, x) \in Int
    BY TermsOfCall, MovedTyped DEF Chain
  <1>4. /\ v.eth = w.eth + c.value /\ v.feesPaid = w.feesPaid /\ v.held = w.held
    BY DEF Accept, Chain
  <1>5. /\ u.eth = v.eth - FeeOf(c) /\ u.feesPaid = v.feesPaid + FeeOf(c)
        /\ u.held = v.held
    <2> HIDE DEF v
    <2> QED
      BY <1>1 DEF PayFee, Chain
  <1> HIDE DEF u, v
  <1>6. x.kind = "eth" => u.eth = w.eth + Moved("fee", c, x)
    BY <1>3, <1>4, <1>5 DEF Moved
  <1>7. x.kind = "fees" => u.feesPaid = w.feesPaid + Moved("fee", c, x)
    BY <1>3, <1>4, <1>5 DEF Moved
  <1>8. x.kind = "held" =>
          u.held[x.token][x.swapper] = w.held[x.token][x.swapper] + Moved("fee", c, x)
    BY <1>4, <1>5 DEF Moved, Account, Chain
  <1>9. Net(u, x) = Net(w, x) + Moved("fee", c, x)
    BY <1>2, <1>3, <1>6, <1>7, <1>8, NetMoves
  <1> QED
    BY <1>9 DEF u, v

LEMMA NetAccepts ==
  ASSUME NEW w \in Chain, NEW c \in Call, AboveFloor(c), FeeOf(c) = 0, NEW x \in Account
  PROVE  Net(Accept(w, c), x) = Net(w, x) + Moved("fee", c, x)
  <1> DEFINE v == Accept(w, c)
  <1>1. v \in Chain /\ v.log = w.log
    BY EffectsTyped, EffectsKeepKeys
  <1>2. /\ c.value \in Nat /\ w.eth \in Int /\ w.feesPaid \in Nat
        /\ Moved("fee", c, x) \in Int
    BY TermsOfCall, MovedTyped DEF Chain
  <1>3. /\ v.eth = w.eth + c.value /\ v.feesPaid = w.feesPaid /\ v.held = w.held
    BY DEF Accept, Chain
  <1> HIDE DEF v
  <1>4. x.kind = "eth" => v.eth = w.eth + Moved("fee", c, x)
    BY <1>2, <1>3 DEF Moved
  <1>5. x.kind = "fees" => v.feesPaid = w.feesPaid + Moved("fee", c, x)
    BY <1>2, <1>3 DEF Moved
  <1>6. x.kind = "held" =>
          v.held[x.token][x.swapper] = w.held[x.token][x.swapper] + Moved("fee", c, x)
    BY <1>3 DEF Moved, Account, Chain
  <1>7. Net(v, x) = Net(w, x) + Moved("fee", c, x)
    BY <1>1, <1>2, <1>4, <1>5, <1>6, NetMoves
  <1> QED
    BY <1>7 DEF v

(* A payload that pulls nothing charges nobody.                            *)
LEMMA NothingAttested ==
  ASSUME NEW c \in Call, CalldataBound(c), ~Pulls(c.payload), NEW s \in Swapper, NEW t
  PROVE  AttestedPull(c.att, s, t) = 0
  <1>1. c.att.calldataHash = c.payload /\ c.payload.amountIn \in Nat /\ NoPayer \notin Swapper
    BY RouterAssumption DEF CalldataBound, Call, PayloadType
  <1> QED
    BY <1>1 DEF AttestedPull, Pulls

LEMMA NetAfterFee ==
  ASSUME NEW w \in Chain, NEW c \in Call, AboveFloor(c), CalldataBound(c), NEW x \in Account
  PROVE  Net(ChainAfterFee(w, c), x) =
           Net(w, x) + (Moved(PcAfterFee(c), c, x) - Moved("fee", c, x))
  <1> DEFINE u == ChainAfterFee(w, c)
             a == Moved(PcAfterFee(c), c, x) - Moved("fee", c, x)
  <1>1. u \in Chain /\ u.log = w.log
    BY EffectsTyped, EffectsKeepKeys
  <1>2. /\ c.value \in Nat /\ FeeOf(c) \in Nat /\ w.eth \in Int /\ w.feesPaid \in Nat
        /\ Moved("fee", c, x) \in Int /\ Moved(PcAfterFee(c), c, x) \in Int
    BY TermsOfCall, MovedTyped DEF Chain
  <1>3. CASE Pulls(c.payload)
    <2>1. u = w
      BY <1>3 DEF ChainAfterFee
    <2>2. Moved(PcAfterFee(c), c, x) = Moved("fee", c, x)
      BY <1>3 DEF PcAfterFee, Moved
    <2> QED
      BY <1>2, <2>1, <2>2, NetTyped
  <1>4. CASE ~Pulls(c.payload)
    <2>1. /\ u.eth = w.eth - (c.value - FeeOf(c)) /\ u.feesPaid = w.feesPaid
          /\ u.held = w.held /\ PcAfterFee(c) = "forward"
      BY <1>4 DEF ChainAfterFee, Forward, Chain, PcAfterFee
    <2>2. x.kind = "held" =>
            /\ x.swapper \in Swapper /\ x.token \in Token
            /\ AttestedPull(c.att, x.swapper, x.token) = 0
            /\ w.held[x.token][x.swapper] \in Int
      BY <1>4, NothingAttested DEF Account, Chain
    <2> HIDE DEF u
    <2>3. x.kind = "eth" => u.eth = w.eth + a
      BY <1>2, <2>1 DEF Moved
    <2>4. x.kind = "fees" => u.feesPaid = w.feesPaid + a
      BY <1>2, <2>1 DEF Moved
    <2>5. x.kind = "held" =>
            u.held[x.token][x.swapper] = w.held[x.token][x.swapper] + a
      BY <2>1, <2>2 DEF Moved
    <2>6. a \in Int
      BY <1>2
    <2> HIDE DEF a
    <2>7. Net(u, x) = Net(w, x) + a
      BY <1>1, <2>3, <2>4, <2>5, <2>6, NetMoves
    <2> QED
      BY <2>7 DEF u, a
  <1> QED
    BY <1>3, <1>4

LEMMA NetPulls ==
  ASSUME NEW w \in Chain, NEW c \in Call, AboveFloor(c), CalldataBound(c),
         Pulls(c.payload), PayerIsAttested(c), NEW x \in Account
  PROVE  Net(Forward(Pull(w, c.payload), c), x) =
           Net(w, x) + (Moved("forward", c, x) - Moved("pull", c, x))
  <1> DEFINE v == Pull(w, c.payload)
             u == Forward(v, c)
             a == Moved("forward", c, x) - Moved("pull", c, x)
  <1>1. v \in Chain /\ v.log = w.log
    BY EffectsTyped, EffectsKeepKeys
  <1>2. u \in Chain /\ u.log = w.log
    <2> HIDE DEF v
    <2> QED
      BY <1>1, EffectsTyped, EffectsKeepKeys
  <1>3. /\ c.value \in Nat /\ FeeOf(c) \in Nat /\ w.eth \in Int /\ w.feesPaid \in Nat
        /\ Moved("forward", c, x) \in Int /\ Moved("pull", c, x) \in Int
    BY TermsOfCall, MovedTyped DEF Chain
  <1>4. v.eth = w.eth /\ v.feesPaid = w.feesPaid
    BY DEF Pull, Chain
  <1>5. /\ u.eth = v.eth - (c.value - FeeOf(c)) /\ u.feesPaid = v.feesPaid
        /\ u.held = v.held
    <2> HIDE DEF v
    <2> QED
      BY <1>1 DEF Forward, Chain
  <1>6. ASSUME x.kind = "held"
        PROVE  u.held[x.token][x.swapper] = w.held[x.token][x.swapper] + a
    <2>1. x.swapper \in Swapper /\ x.token \in Token /\ w.held[x.token][x.swapper] \in Int
      BY <1>6 DEF Account, Chain
    <2>2. v.held[x.token][x.swapper] =
            IF x.token = c.payload.tokenIn /\ x.swapper = c.payload.payer
            THEN w.held[x.token][x.swapper] - c.payload.amountIn
            ELSE w.held[x.token][x.swapper]
      BY <2>1, HoldingsMoved
    <2>3. /\ c.att.calldataHash = c.payload /\ c.payload.payer = c.att.swapper
          /\ c.payload.amountIn \in Nat
      BY TermsOfCall DEF CalldataBound, PayerIsAttested, PayloadType
    <2>4. AttestedPull(c.att, x.swapper, x.token) =
            IF x.token = c.payload.tokenIn /\ x.swapper = c.payload.payer
            THEN c.payload.amountIn ELSE 0
      BY <2>3 DEF AttestedPull
    <2>5. a = 0 - AttestedPull(c.att, x.swapper, x.token)
      BY <1>6, <2>3, <2>4 DEF Moved
    <2> HIDE DEF u, v, a
    <2> QED
      BY <1>5, <2>1, <2>2, <2>3, <2>4, <2>5
  <1> HIDE DEF u, v
  <1>7. x.kind = "eth" => u.eth = w.eth + a
    BY <1>3, <1>4, <1>5 DEF Moved
  <1>8. x.kind = "fees" => u.feesPaid = w.feesPaid + a
    BY <1>3, <1>4, <1>5 DEF Moved
  <1>9. a \in Int
    BY <1>3
  <1> HIDE DEF a
  <1>10. Net(u, x) = Net(w, x) + a
    BY <1>2, <1>6, <1>7, <1>8, <1>9, NetMoves
  <1> QED
    BY <1>10 DEF u, v, a

LEMMA NetSettles ==
  ASSUME NEW w \in Chain, NEW c \in Call, AboveFloor(c), NEW x \in Account
  PROVE  Net(Emit(Spend(w, c.payload), c), x) = Net(w, x) - Moved("forward", c, x)
  <1> DEFINE v == Spend(w, c.payload)
             u == Emit(v, c)
             s == [att |-> c.att, value |-> c.value, fee |-> FeeOf(c)]
             n == Len(w.log)
  <1>1. v \in Chain /\ v.log = w.log /\ v.eth = w.eth /\ v.feesPaid = w.feesPaid
    BY EffectsTyped, EffectsKeepKeys DEF Spend, Chain
  <1>2. /\ u \in Chain /\ u.log = Append(w.log, s) /\ u.eth = w.eth
        /\ u.feesPaid = w.feesPaid /\ u.held = v.held
    <2> HIDE DEF v
    <2> QED
      BY <1>1, EffectsTyped DEF Emit, Chain
  <1>3. /\ c.value \in Nat /\ FeeOf(c) \in Nat /\ w.eth \in Int /\ w.feesPaid \in Nat
        /\ s \in Settlement /\ s.att = c.att /\ s.fee = FeeOf(c)
        /\ w.log \in Seq(Settlement) /\ n \in Nat
    BY TermsOfCall DEF Chain, Settlement, Call
  <1> HIDE DEF s
  <1>4. /\ Len(u.log) = n + 1 /\ DOMAIN u.log = 1 .. n + 1 /\ DOMAIN w.log = 1 .. n
        /\ u.log[n + 1] = s /\ \A i \in 1 .. n : u.log[i] = w.log[i]
    BY <1>2, <1>3
  <1> HIDE DEF n, u, v
  <1>5. ASSUME x.kind = "eth"
        PROVE  Net(u, x) = Net(w, x) - Moved("forward", c, x)
    BY <1>2, <1>3, <1>5 DEF Net, Moved
  <1>6. ASSUME x.kind = "fees"
        PROVE  Net(u, x) = Net(w, x) - Moved("forward", c, x)
    <2> DEFINE F == SettledFees(w)
               G == SettledFees(u)
    <2>1. F \in Seq(Int) /\ Len(F) = n /\ G \in Seq(Int) /\ Len(G) = n + 1
      BY <1>2, <1>4, SettledFeesTyped DEF n
    <2>2. (\A i \in 1 .. n : G[i] = F[i]) /\ G[n + 1] = FeeOf(c)
      BY <1>3, <1>4 DEF SettledFees
    <2> HIDE DEF F, G
    <2>3. TotalOf(G) = TotalOf(F) + FeeOf(c) /\ TotalOf(F) \in Int
      BY <2>1, <2>2, TotalOfLonger, TotalTyped
    <2> QED
      BY <1>2, <1>3, <1>6, <2>3 DEF Net, Moved, F, G
  <1>7. ASSUME x.kind = "held"
        PROVE  Net(u, x) = Net(w, x) - Moved("forward", c, x)
    <2> DEFINE F == SettledPulls(w, x.swapper, x.token)
               G == SettledPulls(u, x.swapper, x.token)
               p == AttestedPull(c.att, x.swapper, x.token)
    <2>1. x.swapper \in Swapper /\ x.token \in Token /\ w.held[x.token][x.swapper] \in Int
      BY <1>7 DEF Account, Chain
    <2>2. F \in Seq(Int) /\ Len(F) = n /\ G \in Seq(Int) /\ Len(G) = n + 1
      BY <1>2, <1>4, <2>1, SettledPullsTyped DEF n
    <2>3. (\A i \in 1 .. n : G[i] = F[i]) /\ G[n + 1] = p
      BY <1>3, <1>4 DEF SettledPulls
    <2>4. v.held[x.token][x.swapper] = w.held[x.token][x.swapper]
      BY <2>1, HoldingsMoved DEF v
    <2>5. p \in Int
      BY <2>2, <2>3, <1>3
    <2>6. Moved("forward", c, x) = 0 - p
      BY <1>7 DEF Moved
    <2> HIDE DEF F, G, p
    <2>7. TotalOf(G) = TotalOf(F) + p /\ TotalOf(F) \in Int
      BY <2>2, <2>3, TotalOfLonger, TotalTyped
    <2>8. /\ Net(u, x) = w.held[x.token][x.swapper] + TotalOf(G) - Deposit
          /\ Net(w, x) = w.held[x.token][x.swapper] + TotalOf(F) - Deposit
      BY <1>2, <1>7, <2>4 DEF Net, F, G
    <2> QED
      BY <2>1, <2>5, <2>6, <2>7, <2>8, RouterAssumption
  <1>8. Net(u, x) = Net(w, x) - Moved("forward", c, x)
    BY <1>5, <1>6, <1>7 DEF Account
  <1> QED
    BY <1>8 DEF u, v

LEMMA FlowPush ==
  ASSUME TypeOK, NEW x \in Account, FlowOf(x), NEW n \in Nat, n = Len(frames),
         NEW f \in Frame, f.entry = chain, frames' = Append(frames, f),
         Net(chain', x) = Net(chain, x) + Share(f, x)
  PROVE  FlowOf(x)'
  <1>1. Pushes(n, f) /\ DOMAIN frames = 1 .. n /\ World(n + 1) = chain
    BY PushShape DEF TypeOK, World
  <1>2. DOMAIN frames' = 1 .. n + 1
    BY <1>1, PushFacts DEF TypeOK
  <1>3. Net(World(1)', x) = 0
    BY <1>1 DEF FlowOf, Pushes
  <1>4. ASSUME NEW k \in 1 .. n + 1
        PROVE  Net(World(k + 1)', x) = Net(World(k)', x) + Share(frames'[k], x)
    <2>1. CASE k = n + 1
      BY <1>1, <2>1 DEF Pushes
    <2>2. CASE k # n + 1
      <3>1. k \in 1 .. n /\ k + 1 \in 1 .. n + 1
        BY <2>2
      <3> QED
        BY <1>1, <3>1 DEF FlowOf, Pushes
    <2> QED
      BY <2>1, <2>2
  <1> QED
    BY <1>2, <1>3, <1>4 DEF FlowOf

LEMMA FlowPop ==
  ASSUME TypeOK, NEW x \in Account, FlowOf(x), NEW n \in Nat, n = Len(frames),
         frames # <<>>, frames' = Front(frames), Net(chain', x) = Net(World(n), x)
  PROVE  FlowOf(x)'
  <1>1. Pops(n) /\ DOMAIN frames = 1 .. n /\ DOMAIN frames' = 1 .. n - 1
    BY PopShape, PopFacts DEF TypeOK
  <1>2. Net(World(1)', x) = 0
    BY <1>1 DEF FlowOf, Pops
  <1>3. ASSUME NEW k \in 1 .. n - 1
        PROVE  Net(World(k + 1)', x) = Net(World(k)', x) + Share(frames'[k], x)
    <2>1. /\ Net(World(k + 1)', x) = Net(World(k + 1), x) /\ World(k)' = World(k)
          /\ frames'[k] = frames[k] /\ k \in 1 .. n
      BY <1>1 DEF Pops
    <2> QED
      BY <1>1, <2>1 DEF FlowOf
  <1> QED
    BY <1>1, <1>2, <1>3 DEF FlowOf

LEMMA FlowResume ==
  ASSUME TypeInv, NEW x \in Account, FlowOf(x), NEW n \in Nat, n = Len(frames),
         frames # <<>>, Top.pc # "caller", NEW pc \in {"fee", "pull", "forward"}, NEW w,
         Resume(pc, w),
         Net(w, x) = Net(chain, x) + (Moved(pc, Top.call, x) - Moved(Top.pc, Top.call, x))
  PROVE  FlowOf(x)'
  <1>1. /\ Keeps(n) /\ n \in 1 .. n /\ DOMAIN frames = 1 .. n /\ DOMAIN frames' = 1 .. n
        /\ World(n + 1) = chain /\ Top = frames[n] /\ frames'[n].pc = pc
        /\ frames'[n].call = Top.call /\ chain' = w
    <2>1. Keeps(n) /\ n \in 1 .. n /\ Top = frames[n] /\ frames'[n].pc = pc /\ chain' = w
      BY ResumeShape DEF Resume
    <2>2. DOMAIN frames = 1 .. n /\ World(n + 1) = chain
      BY DEF TypeInv, TypeOK, World
    <2>3. DOMAIN frames' = 1 .. n
      BY <2>2 DEF Resume
    <2>4. frames'[n].call = Top.call
      BY <2>1 DEF Keeps
    <2> QED
      BY <2>1, <2>2, <2>3, <2>4
  <1>2. Net(World(1)', x) = 0
    BY <1>1 DEF FlowOf, Keeps
  <1>3. /\ Share(frames[n], x) = Moved(Top.pc, Top.call, x)
        /\ Share(frames'[n], x) = Moved(pc, Top.call, x)
        /\ Moved(pc, Top.call, x) \in Int /\ Moved(Top.pc, Top.call, x) \in Int
    BY <1>1, TopCall, MovedTyped DEF Share
  <1>4. ASSUME NEW k \in 1 .. n
        PROVE  Net(World(k + 1)', x) = Net(World(k)', x) + Share(frames'[k], x)
    <2>1. Net(World(k + 1), x) = Net(World(k), x) + Share(frames[k], x) /\ World(k)' = World(k)
      BY <1>1 DEF FlowOf, Keeps
    <2>2. CASE k = n
      <3>1. World(n) \in Chain
        BY <1>1 DEF TypeInv, TypeOK, World, Frame, SwapFrame, CallerFrame
      <3>2. Net(World(n), x) \in Int
        BY <3>1, NetTyped
      <3>3. Net(chain, x) = Net(World(n), x) + Moved(Top.pc, Top.call, x)
        BY <1>1, <1>3, <2>1, <2>2
      <3>4. Net(w, x) = Net(World(n), x) + Moved(pc, Top.call, x)
        BY <1>3, <3>2, <3>3
      <3>5. World(n + 1)' = w /\ World(n)' = World(n)
        BY <1>1 DEF Keeps
      <3> QED
        BY <1>3, <2>2, <3>4, <3>5
    <2>3. CASE k # n
      <3>1. k \in 1 .. n - 1 /\ k + 1 \in 1 .. n
        BY <2>3
      <3> QED
        BY <1>1, <2>1, <3>1 DEF Keeps
    <2> QED
      BY <2>2, <2>3
  <1> QED
    BY <1>1, <1>2, <1>4 DEF FlowOf

(* The top call has moved its share on top of the chain state it found.    *)
LEMMA TopShare ==
  ASSUME TypeOK, NEW x \in Account, FlowOf(x), NEW n \in Nat, n = Len(frames), frames # <<>>
  PROVE  /\ Top = frames[n] /\ World(n) \in Chain
         /\ Net(chain, x) = Net(World(n), x) + Share(Top, x)
  <1>1. n \in DOMAIN frames /\ Top = frames[n] /\ World(n + 1) = chain
    <2>1. frames \in Seq(Frame) /\ n \in Nat \ {0}
      BY DEF TypeOK
    <2>2. n \in DOMAIN frames /\ Last(frames) = frames[n]
      BY <2>1, PopFacts
    <2> QED
      BY <2>1, <2>2 DEF Top, World
  <1>2. World(n) \in Chain
    BY <1>1 DEF TypeOK, World, Frame, SwapFrame, CallerFrame
  <1> QED
    BY <1>1, <1>2 DEF FlowOf

LEMMA FlowStep ==
  ASSUME TypeInv, PayersInv, NEW x \in Account, FlowOf(x), [Next]_vars
  PROVE  FlowOf(x)'
  <1>0. TypeOK /\ TypeOK' /\ chain \in Chain /\ chain' \in Chain
    BY TypeInvStep DEF TypeInv, TypeOK
  <1>n. PICK n \in Nat : n = Len(frames)
    BY DEF TypeInv, TypeOK
  <1>1. ASSUME NEW c \in Call, EnterWithFee(c) PROVE FlowOf(x)'
    <2> DEFINE f == [pc |-> "fee", call |-> c, entry |-> chain]
    <2>1. f \in Frame /\ f.entry = chain /\ Share(f, x) = Moved("fee", c, x)
      BY <1>0 DEF Frame, SwapFrame, Share
    <2>2. /\ frames' = Append(frames, f) /\ AboveFloor(c)
          /\ chain' = PayFee(Accept(chain, c), c)
      BY <1>1 DEF EnterWithFee, Enter, Admissible
    <2>3. Net(chain', x) = Net(chain, x) + Share(f, x)
      BY <1>0, <2>1, <2>2, NetEntersWithFee
    <2> HIDE DEF f
    <2> QED
      BY <1>0, <1>n, <2>1, <2>2, <2>3, FlowPush
  <1>2. ASSUME NEW c \in Call, EnterFeeless(c) PROVE FlowOf(x)'
    <2> DEFINE f == [pc |-> PcAfterFee(c), call |-> c, entry |-> chain]
               v == Accept(chain, c)
    <2>1. f \in Frame /\ f.entry = chain /\ Share(f, x) = Moved(PcAfterFee(c), c, x)
      BY <1>0 DEF Frame, SwapFrame, PcAfterFee, Share
    <2>2. /\ frames' = Append(frames, f) /\ AboveFloor(c) /\ FeeOf(c) = 0
          /\ CalldataBound(c) /\ chain' = ChainAfterFee(v, c)
      BY <1>2 DEF EnterFeeless, Enter, Admissible
    <2>3. v \in Chain /\ Net(v, x) = Net(chain, x) + Moved("fee", c, x)
      BY <1>0, <2>2, EffectsTyped, NetAccepts
    <2> HIDE DEF f, v
    <2>4. Net(chain', x) = Net(v, x) + (Moved(PcAfterFee(c), c, x) - Moved("fee", c, x))
      BY <2>2, <2>3, NetAfterFee
    <2>5. /\ Net(chain, x) \in Int /\ Moved("fee", c, x) \in Int
          /\ Moved(PcAfterFee(c), c, x) \in Int
      BY <1>0, <2>2, NetTyped, MovedTyped
    <2>6. Net(chain', x) = Net(chain, x) + Share(f, x)
      BY <2>1, <2>3, <2>4, <2>5
    <2> QED
      BY <1>0, <1>n, <2>1, <2>2, <2>6, FlowPush
  <1>3. CASE FeeReturns
    <2> DEFINE c == Top.call
    <2>1. /\ frames # <<>> /\ Top.pc = "fee" /\ c \in Call /\ AboveFloor(c)
          /\ CalldataBound(c) /\ Resume(PcAfterFee(c), ChainAfterFee(chain, c))
          /\ PcAfterFee(c) \in {"fee", "pull", "forward"}
      BY <1>3, TopCall DEF FeeReturns, Suspended, PcAfterFee, Checked
    <2>2. Net(ChainAfterFee(chain, c), x) =
            Net(chain, x) + (Moved(PcAfterFee(c), c, x) - Moved("fee", c, x))
      BY <1>0, <2>1, NetAfterFee
    <2> QED
      BY <1>n, <2>1, <2>2, FlowResume
  <1>4. CASE PullReturns
    <2> DEFINE c == Top.call
               w == Forward(Pull(chain, c.payload), c)
    <2>1. /\ frames # <<>> /\ Top.pc = "pull" /\ c \in Call /\ AboveFloor(c)
          /\ CalldataBound(c) /\ Pulls(c.payload) /\ Resume("forward", w)
          /\ Top = frames[n] /\ n \in DOMAIN frames
      BY <1>4, <1>n, TopCall DEF PullReturns, Suspended, Checked
    <2>2. PayerIsAttested(c)
      BY <2>1 DEF PayersInv
    <2>3. Net(w, x) = Net(chain, x) + (Moved("forward", c, x) - Moved("pull", c, x))
      BY <1>0, <2>1, <2>2, NetPulls
    <2> HIDE DEF w
    <2> QED
      BY <1>n, <2>1, <2>3, FlowResume
  <1>5. CASE SwapReturns
    <2> DEFINE c == Top.call
    <2>1. /\ frames # <<>> /\ Top.pc = "forward" /\ c \in Call /\ AboveFloor(c)
          /\ frames' = Front(frames) /\ chain' = Emit(Spend(chain, c.payload), c)
      BY <1>5, TopCall DEF SwapReturns, Suspended
    <2>2. Net(chain', x) = Net(chain, x) - Moved("forward", c, x)
      BY <1>0, <2>1, NetSettles
    <2>3. Net(chain, x) = Net(World(n), x) + Moved("forward", c, x) /\ World(n) \in Chain
      BY <1>0, <1>n, <2>1, TopShare DEF Share
    <2>4. Net(World(n), x) \in Int /\ Moved("forward", c, x) \in Int
      BY <2>1, <2>3, NetTyped, MovedTyped
    <2>5. Net(chain', x) = Net(World(n), x)
      BY <2>2, <2>3, <2>4
    <2> QED
      BY <1>0, <1>n, <2>1, <2>5, FlowPop
  <1>6. CASE CallerStarts
    <2> DEFINE f == [pc |-> "caller", entry |-> chain]
    <2>1. f \in Frame /\ f.entry = chain /\ Share(f, x) = 0 /\ Net(chain, x) \in Int
      BY <1>0, NetTyped DEF Frame, CallerFrame, Share
    <2>2. frames' = Append(frames, f) /\ chain' = chain
      BY <1>6 DEF CallerStarts
    <2> HIDE DEF f
    <2>3. Net(chain', x) = Net(chain, x) + Share(f, x)
      BY <2>1, <2>2
    <2> QED
      BY <1>0, <1>n, <2>1, <2>2, <2>3, FlowPush
  <1>7. CASE CallerReturns
    <2>1. /\ frames # <<>> /\ Top.pc = "caller" /\ frames' = Front(frames)
          /\ chain' = chain
      BY <1>7 DEF CallerReturns, Suspended
    <2>2. Net(chain, x) = Net(World(n), x) + 0 /\ World(n) \in Chain
      BY <1>0, <1>n, <2>1, TopShare DEF Share
    <2>3. Net(chain', x) = Net(World(n), x)
      BY <2>1, <2>2, NetTyped
    <2> QED
      BY <1>0, <1>n, <2>1, <2>3, FlowPop
  <1>8. CASE Reverts
    <2>1. frames # <<>> /\ frames' = Front(frames) /\ chain' = Top.entry
      BY <1>8 DEF Reverts
    <2>2. World(n) = Top.entry
      BY <1>0, <1>n, <2>1, PopShape
    <2> QED
      BY <1>0, <1>n, <2>1, <2>2, FlowPop
  <1>9. ASSUME UNCHANGED frames, Net(chain', x) = Net(chain, x) PROVE FlowOf(x)'
    <2>1. \A k \in 1 .. n + 1 : Net(World(k)', x) = Net(World(k), x)
      BY <1>9, <1>n DEF World
    <2>2. DOMAIN frames = 1 .. n
      BY <1>0, <1>n DEF TypeOK
    <2> QED
      BY <1>9, <2>1, <2>2 DEF FlowOf
  <1>10. ASSUME NEW token \in Token, SetApprovals(token) PROVE FlowOf(x)'
    <2>1. /\ chain'.log = chain.log /\ chain'.eth = chain.eth
          /\ chain'.feesPaid = chain.feesPaid /\ chain'.held = chain.held
          /\ UNCHANGED frames
      BY <1>0, <1>10 DEF SetApprovals, Chain
    <2>2. Net(chain', x) = Net(chain, x)
      BY <2>1 DEF Net, SettledFees, SettledPulls
    <2> QED
      BY <1>9, <2>1, <2>2
  <1>11. CASE NextBlock
    BY <1>9, <1>11 DEF NextBlock
  <1>12. CASE UNCHANGED vars
    BY <1>9, <1>12 DEF vars
  <1> QED
    BY <1>1, <1>2, <1>3, <1>4, <1>5, <1>6, <1>7, <1>8, <1>10, <1>11, <1>12 DEF Next

(* Past the fee, the payer is the attested swapper or nobody.              *)
LEMMA PayersPush ==
  ASSUME TypeOK, PayersInv, NEW f \in Frame, frames' = Append(frames, f),
         f.pc \in {"pull", "forward"} => PayerIsAttested(f.call)
  PROVE  PayersInv'
  <1>1. PICK n \in Nat : n = Len(frames) /\ DOMAIN frames = 1 .. n
    BY DEF TypeOK
  <1>2. /\ DOMAIN frames' = 1 .. n + 1 /\ frames'[n + 1] = f
        /\ \A k \in 1 .. n : frames'[k] = frames[k]
    BY <1>1, PushFacts DEF TypeOK
  <1>3. \A k \in 1 .. n + 1 : k \in 1 .. n \/ k = n + 1
    OBVIOUS
  <1> QED
    BY <1>1, <1>2, <1>3 DEF PayersInv, PayerIsAttested

LEMMA PayersPop ==
  ASSUME TypeOK, PayersInv, frames # <<>>, frames' = Front(frames)
  PROVE  PayersInv'
  <1>1. PICK n \in Nat : n = Len(frames) /\ DOMAIN frames = 1 .. n
    BY DEF TypeOK
  <1>2. /\ DOMAIN frames' = 1 .. n - 1 /\ \A k \in 1 .. n - 1 : frames'[k] = frames[k]
    BY <1>1, PopFacts DEF TypeOK
  <1>3. \A k \in 1 .. n - 1 : k \in 1 .. n
    OBVIOUS
  <1> QED
    BY <1>1, <1>2, <1>3 DEF PayersInv, PayerIsAttested

LEMMA PayersResume ==
  ASSUME TypeInv, PayersInv, frames # <<>>, Top.pc # "caller",
         NEW pc \in {"fee", "pull", "forward"}, NEW w, Resume(pc, w),
         PayerIsAttested(Top.call)
  PROVE  PayersInv'
  <1>1. PICK n \in Nat : n = Len(frames) /\ DOMAIN frames = 1 .. n
    BY DEF TypeInv, TypeOK
  <1>2. Keeps(n) /\ n \in 1 .. n /\ Top = frames[n]
    BY <1>1, ResumeShape
  <1>3. DOMAIN frames' = 1 .. n /\ frames'[n].call = Top.call
    BY <1>1, <1>2 DEF Resume, Keeps
  <1>4. \A k \in 1 .. n : k = n \/ (k \in 1 .. n - 1 /\ frames'[k] = frames[k])
    BY <1>2 DEF Keeps
  <1> QED
    BY <1>1, <1>2, <1>3, <1>4 DEF PayersInv, PayerIsAttested

LEMMA PayersStep == TypeInv /\ PayersInv /\ [Next]_vars => PayersInv'
  <1> SUFFICES ASSUME TypeInv, PayersInv, [Next]_vars PROVE PayersInv'
    OBVIOUS
  <1>0. TypeOK /\ chain \in Chain
    BY DEF TypeInv, TypeOK
  <1>1. ASSUME NEW c \in Call, EnterWithFee(c) PROVE PayersInv'
    <2>1. [pc |-> "fee", call |-> c, entry |-> chain] \in Frame
      BY <1>0 DEF Frame, SwapFrame
    <2> QED
      BY <1>0, <1>1, <2>1, PayersPush DEF EnterWithFee, Enter
  <1>2. ASSUME NEW c \in Call, EnterFeeless(c) PROVE PayersInv'
    <2>1. [pc |-> PcAfterFee(c), call |-> c, entry |-> chain] \in Frame
      BY <1>0 DEF Frame, SwapFrame, PcAfterFee
    <2> QED
      BY <1>0, <1>2, <2>1, PayersPush DEF EnterFeeless, Enter
  <1>3. CASE FeeReturns
    <2>1. PcAfterFee(Top.call) \in {"fee", "pull", "forward"}
      BY DEF PcAfterFee
    <2> QED
      BY <1>3, <2>1, PayersResume DEF FeeReturns, Suspended
  <1>4. CASE PullReturns
    <2>1. frames # <<>> /\ Top.pc = "pull"
      BY <1>4 DEF PullReturns, Suspended
    <2>2. Top = frames[Len(frames)] /\ Len(frames) \in DOMAIN frames
      BY <2>1, TopCall
    <2>3. PayerIsAttested(Top.call)
      BY <2>1, <2>2 DEF PayersInv
    <2>4. PICK w : Resume("forward", w)
      BY <1>4 DEF PullReturns
    <2> QED
      BY <2>1, <2>3, <2>4, PayersResume
  <1>5. CASE SwapReturns
    BY <1>0, <1>5, PayersPop DEF SwapReturns, Suspended
  <1>6. CASE CallerStarts
    <2>1. [pc |-> "caller", entry |-> chain] \in Frame
      BY <1>0 DEF Frame, CallerFrame
    <2> QED
      BY <1>0, <1>6, <2>1, PayersPush DEF CallerStarts
  <1>7. CASE CallerReturns
    BY <1>0, <1>7, PayersPop DEF CallerReturns, Suspended
  <1>8. CASE Reverts
    BY <1>0, <1>8, PayersPop DEF Reverts
  <1>9. CASE UNCHANGED frames
    BY <1>9 DEF PayersInv, PayerIsAttested
  <1> QED
    BY <1>1, <1>2, <1>3, <1>4, <1>5, <1>6, <1>7, <1>8, <1>9
    DEF Next, SetApprovals, NextBlock, vars

LEMMA FlowInvStep == TypeInv /\ FlowInv /\ [Next]_vars => FlowInv'
  <1> SUFFICES ASSUME TypeInv, FlowInv, [Next]_vars PROVE FlowInv'
    OBVIOUS
  <1>1. PayersInv'
    BY PayersStep DEF FlowInv
  <1>2. ASSUME NEW x \in Account PROVE FlowOf(x)'
    BY FlowStep DEF FlowInv
  <1> QED
    BY <1>1, <1>2 DEF FlowInv

LEMMA FlowInit == Init => FlowInv
  <1> SUFFICES ASSUME Init PROVE FlowInv
    OBVIOUS
  <1>1. /\ frames = <<>> /\ World(1) = chain /\ chain.eth = 0 /\ chain.feesPaid = 0
        /\ chain.log = <<>>
        /\ \A s \in Swapper, t \in Token : chain.held[t][s] = Deposit
    BY RouterAssumption DEF Init, World
  <1>2. SettledFees(chain) = <<>> /\ \A s, t : SettledPulls(chain, s, t) = <<>>
    BY <1>1 DEF SettledFees, SettledPulls
  <1>3. ASSUME NEW x \in Account PROVE Net(chain, x) = 0
    BY <1>1, <1>2, TotalOfEmpty, RouterAssumption DEF Net, Account
  <1> QED
    BY <1>1, <1>3 DEF FlowInv, PayersInv, FlowOf

(* What the open calls have paid adds up, from the bottom of the stack.    *)
LEMMA FeesAddUp ==
  ASSUME TypeInv, FlowInv
  PROVE  FeesMatchSettlements
  <1> DEFINE x == [kind |-> "fees"]
             n == Len(frames)
             g == [k \in 0 .. n |-> Net(World(k + 1), x)]
  <1>1. x \in Account /\ n \in Nat /\ DOMAIN frames = 1 .. n /\ World(n + 1) = chain
    BY DEF Account, TypeInv, TypeOK, World
  <1>2. /\ OpenFees \in Seq(Int) /\ Len(OpenFees) = n
        /\ \A k \in 1 .. n : OpenFees[k] = Share(frames[k], x)
    <2>1. ASSUME NEW k \in 1 .. n
          PROVE  /\ OpenFees[k] \in Int /\ OpenFees[k] = Share(frames[k], x)
      <3>1. CASE frames[k].pc = "caller"
        BY <1>1, <3>1 DEF OpenFees, Share
      <3>2. CASE frames[k].pc # "caller"
        <4>1. frames[k].call \in Call /\ AboveFloor(frames[k].call)
          BY <1>1, <3>2 DEF TypeInv, TypeOK, FramesChecked, Gated, Checked, Frame,
                            SwapFrame, CallerFrame
        <4>2. FeeOf(frames[k].call) \in Int
          BY <4>1, TermsOfCall
        <4> QED
          BY <1>1, <3>2, <4>2 DEF OpenFees, Share, Moved
      <3> QED
        BY <3>1, <3>2
    <2> QED
      BY <1>1, <2>1 DEF OpenFees
  <1>3. g[0] = 0 /\ \A k \in 1 .. n : g[k] = g[k - 1] + OpenFees[k]
    <2>1. FlowOf(x)
      BY <1>1 DEF FlowInv
    <2>2. Net(World(1), x) = 0
      BY <2>1 DEF FlowOf
    <2>3. ASSUME NEW k \in 1 .. n PROVE g[k] = g[k - 1] + OpenFees[k]
      <3>1. k - 1 \in 0 .. n /\ k \in 0 .. n /\ k - 1 + 1 = k
        BY <1>1
      <3>2. Net(World(k + 1), x) = Net(World(k), x) + Share(frames[k], x)
        BY <1>1, <2>1 DEF FlowOf
      <3> HIDE DEF x
      <3> QED
        BY <1>2, <3>1, <3>2
    <2>4. g[0] = Net(World(1), x)
      <3>1. 0 \in 0 .. n /\ 0 + 1 = 1
        BY <1>1
      <3> QED
        BY <3>1
    <2> HIDE DEF g
    <2> QED
      BY <2>2, <2>3, <2>4
  <1>4. g[n] = Net(chain, x)
    BY <1>1
  <1> HIDE DEF g, n
  <1>5. TotalOf(OpenFees) = Net(chain, x)
    BY <1>2, <1>3, <1>4, TotalByRecursion
  <1>6. /\ chain.feesPaid \in Nat /\ TotalOf(SettledFees(chain)) \in Int
        /\ Net(chain, x) = chain.feesPaid - TotalOf(SettledFees(chain))
    BY SettledFeesTyped, TotalTyped DEF TypeInv, TypeOK, Chain, Net
  <1> HIDE DEF x
  <1> QED
    BY <1>5, <1>6 DEF FeesMatchSettlements

LEMMA NothingRetained ==
  ASSUME TypeInv, FlowInv
  PROVE  NoEthRetained /\ ChargedAsAttested
  <1> SUFFICES ASSUME frames = <<>> PROVE NoEthRetained /\ ChargedAsAttested
    BY DEF NoEthRetained, ChargedAsAttested
  <1>1. World(1) = chain /\ chain \in Chain
    BY DEF World, TypeInv, TypeOK
  <1>2. \A x \in Account : Net(chain, x) = 0
    BY <1>1 DEF FlowInv, FlowOf
  <1>3. chain.eth = 0
    <2>1. [kind |-> "eth"] \in Account
      BY DEF Account
    <2> QED
      BY <1>2, <2>1 DEF Net
  <1>4. ASSUME NEW s \in Swapper, NEW t \in Token
        PROVE  chain.held[t][s] = Deposit - TotalOf(SettledPulls(chain, s, t))
    <2> DEFINE x == [kind |-> "held", swapper |-> s, token |-> t]
    <2>1. x \in Account
      BY DEF Account
    <2>2. chain.held[t][s] + TotalOf(SettledPulls(chain, s, t)) - Deposit = 0
      BY <1>2, <2>1 DEF Net
    <2>3. /\ chain.held[t][s] \in Int /\ TotalOf(SettledPulls(chain, s, t)) \in Int
          /\ Deposit \in Int
      <3>1. SettledPulls(chain, s, t) \in Seq(Int)
        BY <1>1, SettledPullsTyped
      <3>2. chain.held[t][s] \in Int
        BY <1>1 DEF Chain
      <3> QED
        BY <3>1, <3>2, TotalTyped, RouterAssumption
    <2> QED
      BY <2>2, <2>3
  <1> QED
    BY <1>3, <1>4 DEF NoEthRetained, ChargedAsAttested

(* Whatever calls nest and revert, no wei of a completed transaction stays *)
(* in the router (TrustSwapRouter.sol, gatedSwap).                         *)
THEOREM EthPassesThrough == Spec => []NoEthRetained
  BY InitTyped, TypeInvStep, FlowInit, FlowInvStep, NothingRetained, PTL DEF Spec

(* FEE_RECIPIENT has been paid the fees of the swaps that settled and of   *)
(* those in progress: a revert takes its fee back.                         *)
THEOREM FeesAccounted == Spec => []FeesMatchSettlements
  BY InitTyped, TypeInvStep, FlowInit, FlowInvStep, FeesAddUp, PTL DEF Spec

(* A swapper has lost what its own settled attestations let the router     *)
(* pull, and nothing else (the payer check before safeTransferFrom).       *)
THEOREM SwappersCharged == Spec => []ChargedAsAttested
  BY InitTyped, TypeInvStep, FlowInit, FlowInvStep, NothingRetained, PTL DEF Spec

----------------------------------------------------------------------------
(***************************************************************************)
(* Terms and the ledger.  Every chain state on the stack extends the       *)
(* committed one, each entry was signed and met the terms of the call that *)
(* made it, and those beyond the committed log are still in time: they are *)
(* of the block that is being made.                                        *)
(***************************************************************************)
ByTerms(s) ==
  /\ SignatureValid(s) /\ s.att \in Attestation /\ s.value \in Value
  /\ AboveFloor(s) /\ UnderCap(s)
  /\ s.fee = FeeOf(s)

Extends(w, base) ==
  /\ \A i \in DOMAIN w.log : ByTerms(w.log[i])
  /\ \A i \in DOMAIN base.log : i \in DOMAIN w.log /\ w.log[i] = base.log[i]
  /\ \A i \in DOMAIN w.log \ DOMAIN base.log : NotExpired(w.log[i])

LogInv == \A k \in Level : Extends(World(k), Committed)

(* After a step within a block every chain state has the log of one that   *)
(* extends what was committed before the step.                             *)
Grown(v, w) == v.log = w.log /\ Extends(w, Committed)
LogGrows ==
  /\ now' = now
  /\ \A k \in Level' : \E w : Grown(World(k)', w)
  /\ Committed'.log = Committed.log \/ Level' = {1}

LEMMA LogGrowsKeeps == LogGrows => LogInv'
  <1> SUFFICES ASSUME LogGrows, NEW k \in Level'
               PROVE  Extends(World(k), Committed)'
    BY DEF LogInv
  <1>1. PICK w : World(k)'.log = w.log /\ Extends(w, Committed)
    BY DEF LogGrows, Grown
  <1>2. CASE Committed'.log = Committed.log
    BY <1>1, <1>2 DEF LogGrows, Extends, NotExpired, ByTerms, SignatureValid,
                      AboveFloor, UnderCap, FeeOf
  <1>3. CASE Level' = {1}
    BY <1>1, <1>3 DEF LogGrows, Extends, NotExpired, Committed, ByTerms, SignatureValid,
                      AboveFloor, UnderCap, FeeOf
  <1> QED
    BY <1>2, <1>3 DEF LogGrows

LEMMA GrowsByPush ==
  ASSUME TypeOK, LogInv, NEW n \in Nat, n = Len(frames), NEW f \in Frame,
         f.entry = chain, frames' = Append(frames, f), chain'.log = chain.log,
         now' = now
  PROVE  LogGrows
  <1>1. /\ Pushes(n, f) /\ Level = 1 .. n + 1 /\ World(n + 1) = chain
    BY PushShape DEF Level, World
  <1>2. Level' = 1 .. n + 2
    BY <1>1 DEF Pushes, Level
  <1>3. ASSUME NEW k \in Level' PROVE \E w : Grown(World(k)', w)
    <2>1. CASE k = n + 2
      <3>1. Grown(World(k)', chain)
        BY <1>1, <2>1 DEF LogInv, Grown, Pushes
      <3> QED
        BY <3>1
    <2>2. CASE k # n + 2
      <3>1. k \in 1 .. n + 1
        BY <1>2, <2>2
      <3>2. Grown(World(k)', World(k))
        BY <1>1, <3>1 DEF LogInv, Grown, Pushes
      <3> QED
        BY <3>2
    <2> QED
      BY <2>1, <2>2
  <1>4. Committed'.log = Committed.log
    BY <1>1 DEF Pushes, Committed
  <1> QED
    BY <1>3, <1>4 DEF LogGrows

LEMMA GrowsByPop ==
  ASSUME TypeOK, LogInv, NEW n \in Nat, n = Len(frames), frames # <<>>,
         frames' = Front(frames), NEW v, Grown(chain', v), now' = now
  PROVE  LogGrows
  <1>1. Pops(n) /\ Level = 1 .. n + 1
    BY PopShape DEF Level
  <1>2. Level' = 1 .. n
    BY <1>1 DEF Pops, Level
  <1>3. ASSUME NEW k \in Level' PROVE \E w : Grown(World(k)', w)
    <2>1. CASE k = n
      BY <1>1, <2>1 DEF Pops
    <2>2. CASE k # n
      <3>1. k \in 1 .. n - 1 /\ k \in Level
        BY <1>1, <1>2, <2>2
      <3>2. Grown(World(k)', World(k))
        BY <1>1, <3>1 DEF LogInv, Grown, Pops
      <3> QED
        BY <3>2
    <2> QED
      BY <2>1, <2>2
  <1>4. Committed'.log = Committed.log \/ Level' = {1}
    <2>1. CASE n = 1
      BY <1>2, <2>1
    <2>2. CASE n # 1
      <3>1. 1 \in 1 .. n - 1
        BY <1>1, <2>2
      <3> QED
        BY <1>1, <3>1 DEF Pops, Committed
    <2> QED
      BY <2>1, <2>2
  <1> QED
    BY <1>3, <1>4 DEF LogGrows

LEMMA GrowsByKeeping ==
  ASSUME TypeOK, LogInv, NEW n \in Nat, n = Len(frames), Keeps(n),
         chain'.log = chain.log, now' = now
  PROVE  LogGrows
  <1>1. Level = 1 .. n + 1 /\ Level' = 1 .. n + 1 /\ World(n + 1) = chain
    BY DEF Level, Keeps, World
  <1>2. ASSUME NEW k \in Level' PROVE World(k)'.log = World(k).log
    <2>1. CASE k = n + 1
      BY <1>1, <2>1 DEF Keeps
    <2>2. CASE k # n + 1
      <3>1. k \in 1 .. n
        BY <1>1, <2>2
      <3> QED
        BY <3>1 DEF Keeps
    <2> QED
      BY <2>1, <2>2
  <1>3. ASSUME NEW k \in Level' PROVE \E w : Grown(World(k)', w)
    <2>1. Grown(World(k)', World(k))
      BY <1>1, <1>2 DEF LogInv, Grown
    <2> QED
      BY <2>1
  <1>4. Committed'.log = Committed.log
    BY <1>1, <1>2 DEF Committed
  <1> QED
    BY <1>3, <1>4 DEF LogGrows

(* The entry a swap adds was checked when its call entered, in this block. *)
LEMMA SettlingExtends ==
  ASSUME NEW w \in Chain, NEW v, NEW c \in Call, Checked(c), NEW base, Extends(w, base),
         v.log = Append(w.log, EntryOf(c))
  PROVE  Extends(v, base)
  <1> DEFINE s == EntryOf(c)
             m == Len(w.log)
  <1>1. w.log \in Seq(Settlement) /\ m \in Nat
    BY DEF Chain
  <1>2. /\ DOMAIN w.log = 1 .. m /\ DOMAIN v.log = 1 .. m + 1
        /\ \A i \in 1 .. m : v.log[i] = w.log[i]
        /\ v.log[m + 1] = s
    BY <1>1
  <1>3. ByTerms(s) /\ NotExpired(s)
    BY DEF EntryOf, Checked, ByTerms, SignatureValid, AboveFloor, UnderCap, NotExpired,
           FeeOf, Call
  <1> HIDE DEF m, s
  <1>4. \A i \in 1 .. m + 1 : i \in 1 .. m \/ i = m + 1
    BY <1>1
  <1> QED
    BY <1>1, <1>2, <1>3, <1>4 DEF Extends

LEMMA LogStep ==
  ASSUME TypeInv, LogInv, [Next]_vars, ~NextBlock
  PROVE  LogGrows
  <1>0. /\ TypeOK /\ chain \in Chain
    BY DEF TypeInv, TypeOK
  <1>n. PICK n \in Nat : n = Len(frames)
    BY DEF TypeInv, TypeOK
  <1>1. Grown(chain, chain)
    BY <1>n DEF LogInv, Grown, Level, World
  <1>2. now' = now
    BY DEF Next, vars, EnterWithFee, EnterFeeless, Enter, FeeReturns, PullReturns, Resume,
           SwapReturns, CallerStarts, CallerReturns, Reverts, SetApprovals
  <1>3. CASE PushesSilently(n)
    BY <1>0, <1>n, <1>2, <1>3, GrowsByPush DEF PushesSilently, Pushes
  <1>4. CASE KeepsSilently(n)
    BY <1>0, <1>n, <1>2, <1>4, GrowsByKeeping DEF KeepsSilently
  <1>5. CASE PopsBack(n)
    <2>1. n \in Level /\ Extends(World(n), Committed)
      BY <1>n, <1>5 DEF PopsBack, Pops, Level, LogInv
    <2>2. Grown(chain', World(n)) \/ Grown(chain', chain)
      BY <1>1, <1>5, <2>1 DEF PopsBack, Grown
    <2> QED
      BY <1>0, <1>n, <1>2, <1>5, <2>2, GrowsByPop DEF PopsBack, Pops
  <1>6. CASE PopsSettling(n)
    <2>1. Grown(chain', chain')
      BY <1>0, <1>1, <1>6, SettlingExtends DEF Grown, PopsSettling
    <2> QED
      BY <1>0, <1>n, <1>2, <1>6, <2>1, GrowsByPop DEF PopsSettling, Pops
  <1> QED
    BY <1>n, <1>3, <1>4, <1>5, <1>6, StepShape

(* The next block comes between transactions: nothing is beyond the        *)
(* committed log then.                                                     *)
LEMMA LogBlock == TypeInv /\ LogInv /\ NextBlock => LogInv' /\ Committed' = Committed
  <1> SUFFICES ASSUME TypeInv, LogInv, NextBlock
               PROVE  LogInv' /\ Committed' = Committed
    OBVIOUS
  <1>1. /\ frames = <<>> /\ frames' = <<>> /\ chain' = chain
        /\ Level = {1} /\ Level' = {1} /\ World(1) = chain /\ World(1)' = chain
    BY DEF NextBlock, Level, World
  <1> QED
    BY <1>1 DEF LogInv, Extends, Committed, ByTerms, SignatureValid, AboveFloor,
                UnderCap, FeeOf

LEMMA LogInvStep == TypeInv /\ LogInv /\ [Next]_vars => LogInv'
  BY LogStep, LogGrowsKeeps, LogBlock

LEMMA LogInit == Init => LogInv
  <1> SUFFICES ASSUME Init PROVE LogInv
    OBVIOUS
  <1>1. Level = {1} /\ World(1) = chain /\ chain.log = <<>>
    BY DEF Init, Level, World
  <1> QED
    BY <1>1 DEF LogInv, Extends, Committed

(* Of two tiers the stricter has the lower cap and the higher fee.         *)
LEMMA StricterTerms ==
  ASSUME NEW a \in Eligible, NEW b \in Eligible, NEW value \in Nat,
         WithinCap(value, StricterTier(a, b))
  PROVE  /\ WithinCap(value, a) /\ WithinCap(value, b)
         /\ Fee(value, StricterTier(a, b)) >= Fee(value, a)
         /\ Fee(value, StricterTier(a, b)) >= Fee(value, b)
  <1>1. ASSUME NEW s \in Eligible, NEW t \in Eligible, s <= t, WithinCap(value, s)
        PROVE  WithinCap(value, t)
    BY <1>1, CapUnitAssumption
    DEF WithinCap, MaxTradeSize, Eligible, Tier, None, Registered, Discoverable, Verified, Full
  <1>2. \A t \in Eligible : FeeBps(t) \in 0 .. 100
    BY DEF FeeBps
  <1>3. ASSUME NEW s \in Eligible, NEW t \in Eligible, s <= t
        PROVE  FeeBps(s) >= FeeBps(t)
    BY <1>3 DEF FeeBps, Eligible, Tier, None, Registered, Discoverable, Verified, Full
  <1>4. ASSUME NEW s \in Eligible, NEW t \in Eligible, s <= t
        PROVE  Fee(value, s) >= Fee(value, t)
    <2>1. FeeBps(s) \in 0 .. 100 /\ FeeBps(t) \in 0 .. 100 /\ FeeBps(s) >= FeeBps(t)
      BY <1>2, <1>3, <1>4
    <2>2. PICK x \in 0 .. 100, y \in 0 .. 100 : x = FeeBps(s) /\ y = FeeBps(t)
      BY <2>1
    <2>3. value * x \in Nat /\ value * y \in Nat /\ value * x >= value * y
      BY <2>1, <2>2
    <2>4. (value * x) \div 10000 >= (value * y) \div 10000
      BY <2>3
    <2> QED
      BY <2>2, <2>4 DEF Fee
  <1>5. /\ StricterTier(a, b) \in Eligible
        /\ StricterTier(a, b) <= a /\ StricterTier(a, b) <= b
    BY DEF StricterTier, Eligible, Tier
  <1> QED
    BY <1>1, <1>4, <1>5

LEMMA LogInvStricter == TypeInv /\ LogInv => StricterWins
  <1> SUFFICES ASSUME TypeInv, LogInv, NEW i \in DOMAIN chain.log
               PROVE  LET s == chain.log[i]
                      IN  \A tier \in {s.att.swapperTier, s.att.recipientTier} :
                            /\ tier # None
                            /\ s.value > 0 => WithinCap(s.value, tier) /\ s.fee >= Fee(s.value, tier)
    BY DEF StricterWins
  <1> DEFINE s == chain.log[i]
  <1>1. PICK n \in Nat : n = Len(frames)
    BY DEF TypeInv, TypeOK
  <1>2. n + 1 \in Level /\ World(n + 1) = chain
    BY <1>1 DEF Level, World
  <1>3. ByTerms(s)
    BY <1>2 DEF LogInv, Extends
  <1>4. /\ s.att \in AttestationType /\ s.value \in Nat
        /\ s.att.swapperTier # None /\ s.att.recipientTier # None
        /\ WithinCap(s.value, EffectiveTier(s.att))
        /\ s.fee = Fee(s.value, EffectiveTier(s.att))
    BY <1>3, RouterAssumption DEF ByTerms, AboveFloor, UnderCap, FeeOf
  <1>5. s.att.swapperTier \in Eligible /\ s.att.recipientTier \in Eligible
    BY <1>4 DEF AttestationType, Eligible
  <1> HIDE DEF s
  <1>6. \A tier \in {s.att.swapperTier, s.att.recipientTier} :
          WithinCap(s.value, tier) /\ s.fee >= Fee(s.value, tier)
    BY <1>4, <1>5, StricterTerms DEF EffectiveTier
  <1> QED
    BY <1>4, <1>6 DEF s

(* Neither side of a settled swap is without a tier, and on the wei it came *)
(* with it kept the cap of each side's tier and paid at least the fee of    *)
(* each (TrustSwapRouter.sol, steps 5 to 8); a pulled input is not wei.     *)
THEOREM StricterSideWins == Spec => []StricterWins
  BY InitTyped, TypeInvStep, LogInit, LogInvStep, LogInvStricter, PTL DEF Spec

----------------------------------------------------------------------------
(***************************************************************************)
(* Refinement.  Committed is the state a reader of the chain sees; a step  *)
(* that completes no transaction is a step of the ledger that settles      *)
(* nothing.                                                                *)
(***************************************************************************)
Entries(w) == {w.log[i] : i \in DOMAIN w.log}

LEMMA GrantedByTerms ==
  ASSUME NEW s, ByTerms(s), NotExpired(s)
  PROVE  Ledger!Grantable(s)
  <1>1. /\ s.att \in AttestationType /\ s.att \in OracleSigned
        /\ s.att.swapperTier # None /\ s.att.recipientTier # None
    BY RouterAssumption DEF ByTerms, SignatureValid, AboveFloor
  <1> DEFINE t == EffectiveTier(s.att)
  <1>2. /\ t \in {s.att.swapperTier, s.att.recipientTier}
        /\ t <= s.att.swapperTier /\ t <= s.att.recipientTier
    BY <1>1 DEF EffectiveTier, StricterTier, AttestationType, Tier
  <1>3. t # None /\ WithinCap(s.value, t) /\ s.fee = Fee(s.value, t)
    BY <1>1, <1>2 DEF ByTerms, UnderCap, FeeOf
  <1> HIDE DEF t
  <1>4. Ledger!Terms(s.att, s.value, s.fee)
    BY <1>2, <1>3 DEF Ledger!Terms, Ledger!None, Ledger!WithinCap, Ledger!Fee,
       Ledger!Full, Ledger!MaxTradeSize, Ledger!Registered, Ledger!Discoverable,
       Ledger!FeeBps, Ledger!Verified, None, WithinCap, Fee, Full, MaxTradeSize,
       Registered, Discoverable, FeeBps, Verified
  <1> QED
    BY <1>1, <1>4 DEF Ledger!Grantable, ByTerms, NotExpired

LEMMA LedgerInit == Init => Ledger!Init
  BY DEF Init, Ledger!Init, Committed, World

LEMMA LedgerStep ==
  TypeInv /\ NonceInv /\ LogInv /\ [Next]_vars => [Ledger!Next]_(Ledger!vars)
  <1> SUFFICES ASSUME TypeInv, NonceInv, LogInv, [Next]_vars
               PROVE  Ledger!Next
    OBVIOUS
  <1>1. CASE NextBlock
    BY <1>1, LogBlock DEF Ledger!Next, Ledger!NextBlock, NextBlock
  <1>2. CASE ~NextBlock
    <2>1. LogGrows
      BY <1>2, LogStep
    <2>2. TypeInv' /\ NonceInv'
      BY TypeInvStep, NonceStep
    <2>3. 1 \in Level'
      BY <2>2 DEF TypeInv, TypeOK, Level
    <2>4. PICK w : Committed'.log = w.log /\ Extends(w, Committed)
      BY <2>1, <2>3 DEF LogGrows, Grown, Committed
    <2>5. Once(Committed)'
      BY <2>2, <2>3 DEF NonceInv, KeysInv, Committed
    <2>6. Entries(Committed) \subseteq Entries(Committed')
      BY <2>4 DEF Entries, Extends
    <2>7. ASSUME NEW s \in Entries(Committed') \ Entries(Committed)
          PROVE  Ledger!Grantable(s)
      <3>1. PICK i \in DOMAIN Committed'.log : s = Committed'.log[i]
        BY DEF Entries
      <3>2. i \in DOMAIN w.log \ DOMAIN Committed.log /\ s = w.log[i]
        BY <2>4, <3>1 DEF Entries, Extends
      <3> QED
        BY <2>4, <3>2, GrantedByTerms DEF Extends
    <2>8. ASSUME NEW s \in Entries(Committed'), NEW t \in Entries(Committed'),
                 Ledger!SameNonce(s, t)
          PROVE  s = t
      <3>1. PICK i \in DOMAIN Committed'.log : s = Committed'.log[i]
        BY DEF Entries
      <3>2. PICK j \in DOMAIN Committed'.log : t = Committed'.log[j]
        BY DEF Entries
      <3>3. NonceKey(s.att) = NonceKey(t.att)
        BY <2>8 DEF Ledger!SameNonce, NonceKey
      <3> QED
        BY <2>5, <3>1, <3>2, <3>3 DEF Once
    <2>9. Ledger!Settle
      BY <2>1, <2>6, <2>7, <2>8 DEF Ledger!Settle, Entries, LogGrows
    <2> QED
      BY <2>9 DEF Ledger!Next
  <1> QED
    BY <1>1, <1>2

(* The router implements the attestation ledger: what nests, reverts and   *)
(* re-enters within a transaction, its outside sees swaps that the oracle  *)
(* signed settle in time, within the terms of both tiers, each nonce once. *)
THEOREM ImplementsLedger == Spec => LedgerSpec
  BY InitTyped, TypeInvStep, NonceInit, NonceStep, LogInit, LogInvStep,
     LedgerInit, LedgerStep, PTL DEF Spec, LedgerSpec, Ledger!Spec
============================================================================
