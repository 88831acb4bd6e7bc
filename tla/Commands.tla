------------------------------ MODULE Commands ------------------------------
(***************************************************************************)
(* What an operator starts, one at a time: the swap command, the Trading    *)
(* API client under it, and the provisioning script.  `part` says which of  *)
(* them a behavior is of; the others stay in an initial state.              *)
(***************************************************************************)
EXTENDS TradingClient, SwapCommand, ProvisionDaemon

VARIABLE part
startedVars == <<part, clientVars, commandVars, provisionVars>>

Parts == {"client", "command", "provision"}

CommandsInit == part \in Parts /\ ClientInit /\ CommandInit /\ ProvisionInit

CommandsNext ==
  \/ /\ part = "client" /\ ClientNext
     /\ UNCHANGED <<part, commandVars, provisionVars>>
  \/ /\ part = "command" /\ CommandNext
     /\ UNCHANGED <<part, clientVars, provisionVars>>
  \/ /\ part = "provision" /\ ProvisionNext
     /\ UNCHANGED <<part, clientVars, commandVars>>

\* The fairness of ProvisionDaemon's FairProvision.
Prepare(n) == part = "provision" /\ Operator(n)
ProvisionFair ==
  /\ WF_provisionVars(part = "provision" /\ Script)
  /\ WF_provisionVars(part = "provision" /\ Mine)
  /\ SF_provisionVars(part = "provision" /\ DeletePartial)
  /\ \A n \in Names :
       /\ SF_provisionVars(part = "provision" /\ PlainStart(n))
       /\ WF_provisionVars(Shown(n) \notin chain.kernelFunded /\ Prepare(n) /\ Shown(n) \in chain'.kernelFunded)
       /\ WF_provisionVars(Shown(n) \notin chain.ownerFunded /\ Prepare(n) /\ Shown(n) \in chain'.ownerFunded)
       /\ WF_provisionVars(Prepare(n) /\ chain.ens[n].owner # chain'.ens[n].owner)
       /\ WF_provisionVars(Prepare(n) /\ chain'.ens[n].resolver /\ ~chain.ens[n].resolver)

CommandsSpec == CommandsInit /\ [][CommandsNext]_startedVars /\ ProvisionFair
-----------------------------------------------------------------------------
\* The other properties are those of the modules.

(* Each part keeps its state within its types (trading.ts:625, swap.ts:97,  *)
(* provision-daemon.ts:297).                                                *)
CommandsTypeOK == ClientTypeOK /\ CommandTypeOK /\ ProvisionTypeOK

(* Provisioning gets there through crashes (provision-daemon.ts:345).       *)
EventuallyProvisioned == part = "provision" => AllProvisioned
=============================================================================
