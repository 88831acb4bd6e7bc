---------------------------- MODULE SwapCommand ----------------------------
(***************************************************************************)
(* `tru swap` (packages/cli: index.ts, commands/swap.ts, utils/signer.ts,   *)
(* utils/tokens.ts): one process per invocation, started by an operator     *)
(* who sees nothing of it but its exit code, and may start it again.        *)
(* orchestrate is one step here: it halts, ends a dry run, or has the       *)
(* signer send a transaction (module Orchestrate has the pipeline).         *)
(***************************************************************************)
EXTENDS Integers, Sequences

CONSTANTS Tokens,          \* the tokens there are
          Known,           \* those of KNOWN_TOKENS
          Decimals,        \* the decimals each has
          DefaultDecimals, \* 18 in the code
          Envs,            \* environments: is there an API key, a private key (with its
                           \* 0x or bare), the four NAMERA_ settings, a bundler, a
                           \* session key file, and is the router unset, a placeholder,
                           \* malformed or set
          SwapAmounts, MaxInvocations \* bounds

CommandInputsTyped ==
  /\ Known \subseteq Tokens /\ Decimals \in [Tokens -> Nat] /\ DefaultDecimals \in Nat
  /\ Envs # {} /\ Envs \subseteq [api : BOOLEAN, key : {"unset", "bare", "prefixed"}, nameraEnv : BOOLEAN, bundler : BOOLEAN,
       sessionFile : BOOLEAN, router : {"unset", "placeholder", "malformed", "set"}]
  /\ SwapAmounts \subseteq Nat /\ MaxInvocations \in Nat

ASSUME CommandAssumption == CommandInputsTyped

Kinds == {"local", "namera"}
Spellings == {"symbol", "address"}

VARIABLES process,    \* the process
          sent,   \* what has been sent to the chain, by all of them
          invocations
commandVars == <<process, sent, invocations>>

NoProcess == [pc |-> "down", dryRun |-> FALSE, flags |-> {}, raw |-> 0,
          env |-> CHOOSE e \in Envs : TRUE, kind |-> "none", signer |-> "none", tx |-> 0, exit |-> -1]
CommandInit == process = NoProcess /\ sent = <<>> /\ invocations = 0

-----------------------------------------------------------------------------
\* resolveToken: what an address names is not looked up.
KnownDecimals(token, spelling) == IF spelling = "symbol" THEN Decimals[token] ELSE DefaultDecimals
Resolvable(token, spelling) == spelling = "address" \/ token \in Known

\* parseUnits: an amount in the token's smallest unit.
PowerOfTen(d) == LET power[n \in 0 .. d] == IF n = 0 THEN 1 ELSE 10 * power[n - 1] IN power[d]
Raw(amount, token, spelling) == amount * PowerOfTen(KnownDecimals(token, spelling))

\* The options of index.ts: --dry-run or not; --no-dry-run changes nothing.
DryRun(dryRun, noDryRun) == dryRun

Flags(dryRun, noDryRun) == (IF dryRun THEN {"--dry-run"} ELSE {}) \cup (IF noDryRun THEN {"--no-dry-run"} ELSE {})

Exit(code) == process' = [process EXCEPT !.pc = "down", !.exit = code] /\ UNCHANGED <<sent, invocations>>
Throw == Exit(1)
Go(pc) == process' = [process EXCEPT !.pc = pc] /\ UNCHANGED <<sent, invocations>>

\* What runSwap looks at before it builds anything.
Acceptable(env, token, spelling, amount) == Resolvable(token, spelling) /\ amount # 0 /\ env.api

\* One invocation: flags, token and amount, in some environment.
Invoke == \E dryRun, noDryRun \in BOOLEAN, env \in Envs, token \in Tokens, spelling \in Spellings, amount \in SwapAmounts :
  /\ process.pc = "down" /\ invocations < MaxInvocations /\ invocations' = invocations + 1
  /\ process' = [NoProcess EXCEPT
       !.pc = IF Acceptable(env, token, spelling, amount) THEN "signer" ELSE "rejected",
       !.dryRun = DryRun(dryRun, noDryRun), !.flags = Flags(dryRun, noDryRun), !.env = env,
       !.raw = IF Resolvable(token, spelling) THEN Raw(amount, token, spelling) ELSE 0]
  /\ UNCHANGED sent
Reject == process.pc = "rejected" /\ Throw

DefaultSignerKind(env) == IF env.nameraEnv THEN "namera" ELSE "local"

\* buildSigner, local: the key of the environment, which has to begin with 0x, or for a
\* dry run without one a key of its own.
LocalKey(env, dryRun) == IF env.key = "prefixed" THEN "own"
                         ELSE IF env.key = "unset" /\ dryRun THEN "ephemeral" ELSE "none"

\* buildNameraSigner needs its three variables, the bundler and a session key file.
NameraKey(env) == IF env.nameraEnv /\ env.bundler /\ env.sessionFile THEN "session" ELSE "none"

KeyFor(kind) == IF kind = "namera" THEN NameraKey(process.env) ELSE LocalKey(process.env, process.dryRun)

\* --signer, or the default.
BuildSigner == \E kind \in {"default"} \cup Kinds :
  LET chosen == IF kind = "default" THEN DefaultSignerKind(process.env) ELSE kind IN
  /\ process.pc = "signer"
  /\ IF KeyFor(chosen) = "none" THEN Throw
     ELSE /\ process' = [process EXCEPT !.pc = "router", !.kind = chosen, !.signer = KeyFor(chosen)]
          /\ UNCHANGED <<sent, invocations>>

\* Without a router nothing may be broadcast.
RouterUsable(env, dryRun) == env.router = "set" \/ (dryRun /\ env.router # "malformed")
FindRouter == /\ process.pc = "router"
              /\ IF RouterUsable(process.env, process.dryRun) THEN Go("orchestrate") ELSE Throw

Halted == process.pc = "orchestrate" /\ Exit(1)
DryRunEnds == process.pc = "orchestrate" /\ process.dryRun /\ Exit(0)

\* signer.execute with its one batch.
Broadcast ==
  /\ process.pc = "orchestrate" /\ ~process.dryRun
  /\ sent' = Append(sent, [raw |-> process.raw,
                           signer |-> process.signer, flags |-> process.flags, status |-> "pending"])
  /\ process' = [process EXCEPT !.pc = "sent", !.tx = Len(sent) + 1] /\ UNCHANGED invocations

Lands == \E i \in DOMAIN sent, outcome \in {"landed", "reverted"} :
  sent[i].status = "pending" /\ sent' = [sent EXCEPT ![i].status = outcome] /\ UNCHANGED <<process, invocations>>

\* Mutant: the receipt's success is not looked at.
ExecuteEndsByReceipt ==
  /\ process.pc = "sent"
  /\ IF process.kind = "local" THEN Exit(0)
     ELSE \/ sent[process.tx].status # "pending" /\ Exit(0)
          \/ Exit(1)

\* A local signer is done when the transaction is accepted; the session key's waits
\* for the receipt, which is that of a success or a revert, or times out.
ExecuteEnds ==
  /\ process.pc = "sent"
  /\ IF process.kind = "local" THEN Exit(0)
     ELSE \/ sent[process.tx].status = "landed" /\ Exit(0)
          \/ Exit(1)

CommandNext == \/ Invoke \/ Reject \/ BuildSigner \/ FindRouter \/ Halted \/ DryRunEnds \/ Broadcast \/ Lands \/ ExecuteEnds
CommandSpec == CommandInit /\ [][CommandNext]_commandVars
-----------------------------------------------------------------------------
CommandTypeOK ==
  /\ process.pc \in {"down", "rejected", "signer", "router", "orchestrate", "sent"}
  /\ process.kind \in Kinds \cup {"none"} /\ process.signer \in {"none", "own", "ephemeral", "session"}
  /\ process.exit \in {-1, 0, 1} /\ process.tx \in 0..Len(sent) /\ invocations \in 0..MaxInvocations
  /\ \A i \in DOMAIN sent : sent[i].status \in {"pending", "landed", "reverted"} /\ sent[i].raw > 0
  /\ process.pc = "sent" => process.tx = Len(sent)

(* "Pass --dry-run to opt out": with it nothing is sent, whatever else is   *)
(* asked for (index.ts:114-116, orchestrate's dryRun).                      *)
DryRunSendsNothing == \A i \in DOMAIN sent : "--dry-run" \notin sent[i].flags

(* A key generated for a dry run has no funds and is gone with the process: *)
(* nothing is ever sent in its name (signer.ts:48-58).                      *)
EphemeralNeverSends == \A i \in DOMAIN sent : sent[i].signer # "ephemeral"

(* Exit code 0 of a session key's swap means that it landed; a reverted     *)
(* operation has a receipt as well (signer.ts:166-179).                     *)
SuccessHasLanded ==
  process.exit = 0 /\ process.kind = "namera" /\ process.tx # 0 => sent[process.tx].status = "landed"

(* The command does what it was asked for and says what it did: the three   *)
(* above (index.ts:114, signer.ts:48, 166).                                 *)
CommandKeepsItsWord == DryRunSendsNothing /\ EphemeralNeverSends /\ SuccessHasLanded
=============================================================================
