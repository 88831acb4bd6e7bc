-------------------------- MODULE TrustSwapRouter --------------------------
(***************************************************************************)
(* The on-chain router (packages/contracts/src/TrustSwapRouter.sol).       *)
(*                                                                         *)
(* gatedSwap leaves the contract up to three times: it pays FEE_RECIPIENT, *)
(* calls transferFrom on the input token, and calls the Universal Router.  *)
(* Each of these may run code that calls gatedSwap again, and the contract *)
(* has no re-entrancy lock.  The module therefore keeps the stack of calls *)
(* that have not returned: a gatedSwap frame is suspended in one of its    *)
(* three external calls, a "caller" frame stands for foreign code that may *)
(* call the router several times (the ERC-4337 entry point, a smart        *)
(* account, the code an external call runs), and every frame remembers the *)
(* chain state to restore if it reverts.  The code between two external    *)
(* calls is one action.                                                    *)
(*                                                                         *)
(* A call whose checks fail reverts before it has done anything, so it is  *)
(* a stuttering step: Admissible is the conjunction of those checks.       *)
(***************************************************************************)
EXTENDS TierBucket, Totals, Sequences, SequencesExt

CONSTANTS
  Swapper,        \* accounts the oracle can attest as swapper
  Router,         \* the contract itself, as a holder of tokens
  NoPayer,        \* address(0) in the payer argument
  Token,          \* ERC20 tokens
  Nonce,          \* attestation nonces
  Payload,        \* the payloads callers submit: [payer, tokenIn, amountIn, spend]
  Attestation,    \* the attestations callers submit
  OracleSigned,   \* those that ORACLE_PUBKEY has signed
  Value,          \* the values of msg.value callers send
  Deposit,        \* tokens each swapper starts with
  InitialApprovals, \* the constructor's initialApprovals
  MaxDepth,       \* bound: depth of the call stack
  MaxTime         \* bound: last block timestamp

(* What the caller of gatedSwap passes beside the attestation.  `spend` is *)
(* all the router can tell of universalRouterCalldata: how much of tokenIn *)
(* the Universal Router takes from the router through Permit2.             *)
PayloadType == [payer: Swapper \cup {NoPayer}, tokenIn: Token,
                amountIn: Nat, spend: Nat]

(* calldataHash is the payload itself: keccak256 is taken as injective. *)
AttestationType ==
  [swapper: Swapper, swapperTier: Tier, recipientTier: Tier,
   expiresAt: Nat, nonce: Nonce, calldataHash: PayloadType]

ASSUME RouterAssumption ==
  /\ Router \notin Swapper /\ NoPayer \notin Swapper
  /\ Payload \subseteq PayloadType
  /\ Attestation \subseteq AttestationType
  /\ OracleSigned \subseteq Attestation
  /\ Value \subseteq Nat
  /\ Deposit \in Nat /\ MaxTime \in Nat /\ MaxDepth \in Nat
  /\ InitialApprovals \subseteq Token

VARIABLES
  chain,    \* the state a revert rolls back
  frames,   \* gatedSwap calls in progress, innermost last
  now       \* block.timestamp

vars == <<chain, frames, now>>

Call == [att: Attestation, payload: Payload, value: Value]
Settlement == [att: Attestation, value: Value, fee: Nat]

Chain ==
  [usedNonce: SUBSET (Swapper \X Nonce),
   eth: Int,          \* wei held by the router
   feesPaid: Nat,     \* wei FEE_RECIPIENT has received
   held: [Token -> [Swapper \cup {Router} -> Int]],
   approvalsReady: SUBSET Token,
   log: Seq(Settlement)]   \* GatedSwap events

SwapFrame == [pc: {"fee", "pull", "forward"}, call: Call, entry: Chain]
CallerFrame == [pc: {"caller"}, entry: Chain]
Frame == SwapFrame \cup CallerFrame

TypeOK ==
  /\ chain \in Chain
  /\ frames \in Seq(Frame)
  /\ now \in 0 .. MaxTime

----------------------------------------------------------------------------
(* The terms of one call. *)

NonceKey(att) == <<att.swapper, att.nonce>>
EffectiveTier(att) == StricterTier(att.swapperTier, att.recipientTier)
FeeOf(c) == Fee(c.value, EffectiveTier(c.att))
Pulls(p) == p.payer # NoPayer /\ p.amountIn > 0
(* Mutant: anybody's allowance may be pulled. *)
AnyPayer(c) == TRUE
PayerIsAttested(c) == Pulls(c.payload) => c.payload.payer = c.att.swapper

(* Mutants: a nonce counts as used once its swap is done; the block after  *)
(* the last is still in time; the cap is compared with what the fee leaves.*)
NonceNotLogged(w, c) ==
  \A i \in DOMAIN w.log : NonceKey(w.log[i].att) # NonceKey(c.att)
OneBlockLate(c) == now <= c.att.expiresAt + 1
CapAfterFee(c) == WithinCap(c.value - FeeOf(c), EffectiveTier(c.att))

(* Steps 1 to 7 of gatedSwap, in the state the call finds. *)
SignatureValid(c) == c.att \in OracleSigned
CalldataBound(c)  == c.payload = c.att.calldataHash
NonceFresh(w, c)  == NonceKey(c.att) \notin w.usedNonce
NotExpired(c)     == now <= c.att.expiresAt
AboveFloor(c)     == c.att.swapperTier # None /\ c.att.recipientTier # None
UnderCap(c)       == WithinCap(c.value, EffectiveTier(c.att))

Admissible(w, c) ==
  /\ SignatureValid(c)
  /\ CalldataBound(c)
  /\ NonceFresh(w, c)
  /\ NotExpired(c)
  /\ AboveFloor(c)
  /\ UnderCap(c)

(* Mutants: the fee of the swapper's own tier; no value beside a pull; a   *)
(* sign slip.                                                              *)
PayOwnTierFee(w, c) ==
  LET fee == Fee(c.value, c.att.swapperTier)
  IN  [w EXCEPT !.eth = @ - fee, !.feesPaid = @ + fee]
ForwardUnlessPulled(w, c) ==
  IF Pulls(c.payload) THEN w ELSE [w EXCEPT !.eth = @ - (c.value - FeeOf(c))]
RefundFee(w, c) == [w EXCEPT !.eth = @ - FeeOf(c), !.feesPaid = @ - FeeOf(c)]

(* Effects on the chain state. *)
Accept(w, c) == [w EXCEPT !.usedNonce = @ \cup {NonceKey(c.att)},
                          !.eth = @ + c.value]
PayFee(w, c) == [w EXCEPT !.eth = @ - FeeOf(c), !.feesPaid = @ + FeeOf(c)]
Forward(w, c) == [w EXCEPT !.eth = @ - (c.value - FeeOf(c))]
Credit(balances, who, amount) == [balances EXCEPT ![who] = @ + amount]
Debit(balances, who, amount) == [balances EXCEPT ![who] = @ - amount]
Pull(w, p) ==
  [w EXCEPT !.held[p.tokenIn] =
     Credit(Debit(@, p.payer, p.amountIn), Router, p.amountIn)]
Spend(w, p) == [w EXCEPT !.held[p.tokenIn] = Debit(@, Router, p.spend)]
Emit(w, c) ==
  [w EXCEPT !.log = Append(@, [att |-> c.att, value |-> c.value, fee |-> FeeOf(c)])]

(* Where a call stops next once the fee has been dealt with, and the chain *)
(* state it leaves: forwardValue leaves with the call to Universal Router. *)
PcAfterFee(c) == IF Pulls(c.payload) THEN "pull" ELSE "forward"
ChainAfterFee(w, c) == IF Pulls(c.payload) THEN w ELSE Forward(w, c)

----------------------------------------------------------------------------
Init ==
  /\ chain = [usedNonce |-> {}, eth |-> 0, feesPaid |-> 0,
              held |-> [t \in Token |->
                          [h \in Swapper \cup {Router} |->
                             IF h = Router THEN 0 ELSE Deposit]],
              approvalsReady |-> InitialApprovals,
              log |-> <<>>]
  /\ frames = <<>>
  /\ now = 0

(* gatedSwap called by an account, or by the code an unfinished gatedSwap  *)
(* called out to.                                                          *)
Enter(c, pc, w) ==
  /\ Len(frames) < MaxDepth
  /\ chain' = w
  /\ frames' = Append(frames, [pc |-> pc, call |-> c, entry |-> chain])
  /\ UNCHANGED now

(* Steps 1 to 8: the call stops in FEE_RECIPIENT.call{value: fee}. *)
EnterWithFee(c) ==
  /\ Admissible(chain, c)
  /\ FeeOf(c) > 0
  /\ Enter(c, "fee", PayFee(Accept(chain, c), c))

(* Steps 1 to 9: there is no fee to pay. *)
EnterFeeless(c) ==
  /\ Admissible(chain, c)
  /\ FeeOf(c) = 0
  /\ PayerIsAttested(c)
  /\ Enter(c, PcAfterFee(c), ChainAfterFee(Accept(chain, c), c))

Top == Last(frames)
Suspended(pc) == frames # <<>> /\ Top.pc = pc
Resume(pc, w) ==
  /\ chain' = w
  /\ frames' = [frames EXCEPT ![Len(frames)].pc = pc]
  /\ UNCHANGED now

(* FEE_RECIPIENT accepted the fee. *)
FeeReturns ==
  /\ Suspended("fee")
  /\ PayerIsAttested(Top.call)
  /\ Resume(PcAfterFee(Top.call), ChainAfterFee(chain, Top.call))

(* safeTransferFrom moved the tokens. *)
PullReturns ==
  /\ Suspended("pull")
  /\ LET c == Top.call
         p == c.payload
     IN  /\ chain.held[p.tokenIn][p.payer] >= p.amountIn
         /\ Resume("forward", Forward(Pull(chain, p), c))

(* The Universal Router took its input out of the router; the event is     *)
(* emitted and gatedSwap returns.                                          *)
Spendable(p) ==
  p.spend > 0 => /\ p.tokenIn \in chain.approvalsReady
                 /\ chain.held[p.tokenIn][Router] >= p.spend
SwapReturns ==
  /\ Suspended("forward")
  /\ Spendable(Top.call.payload)
  /\ chain' = Emit(Spend(chain, Top.call.payload), Top.call)
  /\ frames' = Front(frames)
  /\ UNCHANGED now

(* Foreign code that will call the router starts, and ends normally. *)
CallerStarts ==
  /\ Len(frames) < MaxDepth
  /\ frames' = Append(frames, [pc |-> "caller", entry |-> chain])
  /\ UNCHANGED <<chain, now>>
CallerReturns ==
  /\ Suspended("caller")
  /\ frames' = Front(frames)
  /\ UNCHANGED <<chain, now>>

(* Mutant: a used nonce outlives the revert. *)
RevertsButBurns ==
  /\ frames # <<>>
  /\ chain' = [Top.entry EXCEPT !.usedNonce = chain.usedNonce]
  /\ frames' = Front(frames)
  /\ UNCHANGED now

(* The foreign code reverts; an external call of gatedSwap failed; or the  *)
(* payer is not the attested swapper.  The frame takes back all it and the *)
(* calls nested in it did.                                                 *)
Reverts ==
  /\ frames # <<>>
  /\ chain' = Top.entry
  /\ frames' = Front(frames)
  /\ UNCHANGED now

(* setApprovals(token), callable by anyone, in the middle of a swap too. *)
SetApprovals(token) ==
  /\ chain' = [chain EXCEPT !.approvalsReady = @ \cup {token}]
  /\ UNCHANGED <<frames, now>>

(* The next block: every call of a transaction sees one timestamp. *)
NextBlock ==
  /\ frames = <<>>
  /\ now < MaxTime
  /\ now' = now + 1
  /\ UNCHANGED <<chain, frames>>

Next ==
  \/ \E c \in Call : EnterWithFee(c) \/ EnterFeeless(c)
  \/ FeeReturns \/ PullReturns \/ SwapReturns
  \/ CallerStarts \/ CallerReturns \/ Reverts
  \/ \E token \in Token : SetApprovals(token)
  \/ NextBlock

Spec == Init /\ [][Next]_vars

----------------------------------------------------------------------------
(* Chain states of the calls in progress: World(k) is what frame k found,  *)
(* and the last one is the current state.                                  *)
Level == 1 .. Len(frames) + 1
World(k) == IF k <= Len(frames) THEN frames[k].entry ELSE chain

(* The state of the last completed transaction. *)
Committed == World(1)

SettledKeys(w) == {NonceKey(w.log[i].att) : i \in DOMAIN w.log}

(* No (swapper, nonce) pair settles twice, whatever is re-entered and      *)
(* whatever reverts: usedNonce is the router's only replay protection.     *)
SingleUse ==
  \A i, j \in DOMAIN chain.log :
    i # j => NonceKey(chain.log[i].att) # NonceKey(chain.log[j].att)

(* Between transactions the used nonces are exactly those of the settled   *)
(* swaps: a swap that reverted, nested or not, can be sent again.          *)
NonceBurnedIffSettled ==
  frames = <<>> => chain.usedNonce = SettledKeys(chain)

(* The router keeps no wei: all that comes in with a call leaves as fee or *)
(* to the Universal Router before the call ends ("Stops accidental sends   *)
(* from staying stuck on the contract", TrustSwapRouter.sol).              *)
NoEthRetained == frames = <<>> => chain.eth = 0

(* FEE_RECIPIENT has received the fees of the settled swaps and of those   *)
(* of the calls in progress, no less and no more.                          *)
SettledFees(w) == [i \in DOMAIN w.log |-> w.log[i].fee]
OpenFees ==
  [k \in DOMAIN frames |-> IF frames[k].pc = "caller" THEN 0 ELSE FeeOf(frames[k].call)]
FeesMatchSettlements ==
  chain.feesPaid = TotalOf(SettledFees(chain)) + TotalOf(OpenFees)

(* Neither side of a settled swap is without a tier, and of the wei the     *)
(* swap came with (msg.value) it kept under the cap of each side's tier and *)
(* paid at least the fee of each, to the wei.  That is all the contract     *)
(* enforces: a swap that pulls its input brings no wei, and of its terms    *)
(* only the floor binds it here (TrustSwapRouter.sol:207-212), though       *)
(* spec/trust-graded-swap.md:165-167 puts the input under both.             *)
StricterWins ==
  \A i \in DOMAIN chain.log :
    LET s == chain.log[i]
    IN  \A tier \in {s.att.swapperTier, s.att.recipientTier} :
          /\ tier # None
          /\ s.value > 0 => WithinCap(s.value, tier) /\ s.fee >= Fee(s.value, tier)

(* A swapper has lost exactly what the attestations that settled in its    *)
(* name let the router pull: nobody else's call charges it.                *)
AttestedPull(a, swapper, token) ==
  IF a.calldataHash.payer = swapper /\ a.swapper = swapper
       /\ a.calldataHash.tokenIn = token
  THEN a.calldataHash.amountIn ELSE 0
SettledPulls(w, swapper, token) ==
  [i \in DOMAIN w.log |-> AttestedPull(w.log[i].att, swapper, token)]
ChargedAsAttested ==
  frames = <<>> =>
    \A swapper \in Swapper, token \in Token :
      chain.held[token][swapper] =
        Deposit - TotalOf(SettledPulls(chain, swapper, token))

(* "the router holds no tokens except mid-gatedSwap" (the comment on       *)
(* setApprovals).                                                          *)
NoTokensRetained ==
  frames = <<>> => \A token \in Token : chain.held[token][Router] = 0

----------------------------------------------------------------------------
(* What the router promises: an attestation ledger.  Its entries are those *)
(* of the completed transactions.                                          *)
Ledger == INSTANCE AttestationLedger WITH
  settled <- {Committed.log[i] : i \in DOMAIN Committed.log}
LedgerSpec == Ledger!Spec
============================================================================
