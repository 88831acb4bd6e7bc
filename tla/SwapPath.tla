------------------------------ MODULE SwapPath ------------------------------
(***************************************************************************)
(* The parts a swap passes through before it reaches the router, one at a   *)
(* time: the resolver cache, the RiskPolicy record, the oracle and the      *)
(* pipeline.  `part` says which of them a behavior is of; the others stay   *)
(* in an initial state.                                                     *)
(***************************************************************************)
EXTENDS ResolverCache, RiskPolicyRecord, TrustSwapOracle, Orchestrate

VARIABLE part
cacheVars == vars
pathVars == <<part, cacheVars, recordVars, oracleVars, pipelineVars>>

Parts == {"cache", "record", "oracle", "pipeline"}

PathInit == /\ part \in Parts
            /\ Init /\ RecordInit /\ OracleInit /\ PipelineInit
            /\ part # "pipeline" =>
                 /\ world = CHOOSE w \in Worlds : TRUE
                 /\ cached = CHOOSE old \in OldCaches : TRUE

PathNext ==
  \/ /\ part = "cache" /\ Next
     /\ UNCHANGED <<part, recordVars, oracleVars, pipelineVars>>
  \/ /\ part = "record" /\ RecordNext
     /\ UNCHANGED <<part, cacheVars, oracleVars, pipelineVars>>
  \/ /\ part = "oracle" /\ OracleNext
     /\ UNCHANGED <<part, cacheVars, recordVars, pipelineVars>>
  \/ /\ part = "pipeline" /\ PipelineNext
     /\ UNCHANGED <<part, cacheVars, recordVars, oracleVars>>

\* Only the pipeline has to get anywhere.
PathSpec == PathInit /\ [][PathNext]_pathVars /\ WF_pipelineVars(part = "pipeline" /\ Timed)
-----------------------------------------------------------------------------
\* The parts' properties are those of their modules.

(* Each part keeps its state within its types (resolver-cache.ts:39,        *)
(* risk-policy.ts:104, oracle index.ts:82, orchestrate.ts:263).             *)
PathTypeOK == TypeOK /\ RecordTypeOK /\ OracleTypeOK /\ PipelineTypeOK
=============================================================================
