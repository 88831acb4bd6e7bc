--------------------------- MODULE DaemonOnChain ---------------------------
(***************************************************************************)
(* The daemon and the user operations it sends (makeKernelSigner.execute   *)
(* in packages/cli/src/commands/agent.ts).  execute sends one operation    *)
(* and waits for its receipt; the wait times out, or the process dies,     *)
(* while the bundler still holds the operation, which may then land after  *)
(* the daemon has counted the attempt as a failure or forgotten it.        *)
(***************************************************************************)
EXTENDS DaemonAgent, Totals

(* What an attempt moves is valued as estimateSwapUsd values it, wherever  *)
(* that can put a value on it: in stable coins, in or out.                 *)
ASSUME EstimateAssumption ==
  /\ \A offer \in PeerIntent : offer.est \in {0, offer.usd}
  /\ \A p \in Policies : \A i \in DOMAIN p.intents : p.intents[i].est \in {0, p.intents[i].usd}

VARIABLES
  op,        \* the operation of the attempt in flight
  floating,  \* operations sent that nobody waits for any more
  landed     \* operations that landed, in order, [attemptAt, at, usd]

onChain == <<op, floating, landed>>
allVars == <<vars, onChain>>

Operation == [attemptAt: Nat, usd: Nat]
Landing == [attemptAt: Nat, usd: Nat, at: Nat]

ChainTypeOK ==
  /\ op \in {"none", "sent", "landed"}
  /\ op # "none" => Swapping
  /\ floating \subseteq Operation
  /\ landed \in Seq(Landing)

InFlight == [attemptAt |-> Current.at, usd |-> Current.usd]
Land(o) ==
  landed' = Append(landed, [attemptAt |-> o.attemptAt, usd |-> o.usd, at |-> now])

(* sendUserOperation was accepted by the bundler. *)
SendUserOperation ==
  /\ Swapping /\ op = "none"
  /\ op' = "sent"
  /\ UNCHANGED <<vars, floating, landed>>

OpLands ==
  /\ op = "sent"
  /\ op' = "landed"
  /\ Land(InFlight)
  /\ UNCHANGED <<vars, floating>>

(* Mutant: the operation is still awaited after its receipt. *)
ReceiptKept ==
  /\ op = "landed"
  /\ SwapEnds(TRUE)
  /\ UNCHANGED onChain

(* The receipt says success, and orchestrate returns its transaction. *)
ReceiptArrives ==
  /\ op = "landed"
  /\ SwapEnds(TRUE)
  /\ op' = "none"
  /\ UNCHANGED <<floating, landed>>

(* Nothing was sent, the operation reverted, or the wait for the receipt   *)
(* timed out; after a crash nobody waits either.                           *)
Abandon(o) ==
  /\ op' = "none"
  /\ floating' \in IF op = "sent" THEN {floating, floating \cup {o}} ELSE {floating}
  /\ UNCHANGED landed
AttemptFails ==
  /\ SwapEnds(FALSE)
  /\ Abandon(InFlight)
Dies ==
  /\ Crash
  /\ Abandon(InFlight)

FloatingLands ==
  \E o \in floating :
    /\ Land(o)
    /\ floating' = floating \ {o}
    /\ UNCHANGED <<vars, op>>

(* The steps of the daemon that are not the end of an attempt. *)
Others ==
  /\ \/ \E file \in Policies : Boot(file)
     \/ LoopStep
     \/ Shutdown \/ Tick \/ Exited
  /\ UNCHANGED onChain

ChainInit == Init /\ op = "none" /\ floating = {} /\ landed = <<>>
ChainNext ==
  \/ Others \/ Dies \/ AttemptFails
  \/ SendUserOperation \/ OpLands \/ ReceiptArrives \/ FloatingLands
ChainSpec == ChainInit /\ [][ChainNext]_allVars

----------------------------------------------------------------------------
(* Dollars moved on chain by attempts of day d, by landings of day d. *)
MovedByAttemptsOf(d) ==
  TotalOf([i \in DOMAIN landed |->
             IF landed[i].attemptAt \div DayLength = d THEN landed[i].usd ELSE 0])
MovedOn(d) ==
  TotalOf([i \in DOMAIN landed |-> IF landed[i].at \div DayLength = d THEN landed[i].usd ELSE 0])

(* The daily counter never runs ahead of the chain: what it holds was      *)
(* moved by attempts of the day it is kept for.                            *)
CounterIsBacked ==
  state.spentUsdToday <= MovedByAttemptsOf(state.dayStart \div DayLength)

(* While every attempt that moved money was counted for what it moved, and *)
(* the process has not been restarted, a day's attempts move less than the *)
(* cap and one swap more: the last is only counted when it is over.        *)
Uncounted(a) ==
  \/ a.est < a.usd
  \/ a.outcome = "failed" /\ \E i \in DOMAIN landed : landed[i].attemptAt = a.at
OvershootIsOneSwap ==
  history # <<>> /\ crashes = 0 /\ (\A i \in DOMAIN history : ~Uncounted(history[i])) =>
    MovedByAttemptsOf(Current.at \div DayLength) < Current.policy.cap + Current.usd

(* "constraints -- hard safety bounds enforced before each intent"         *)
(* (operating-policy.ts): no intent runs on a day that has already seen    *)
(* maxDailySpendUsd move.                                                  *)
DailySpendIsHard ==
  [][Len(history') > Len(history) =>
       MovedOn(now \div DayLength) < policy.cap]_allVars
============================================================================
