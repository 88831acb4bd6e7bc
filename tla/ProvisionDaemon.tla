-------------------------- MODULE ProvisionDaemon --------------------------
(***************************************************************************)
(* scripts/provision-daemon.ts: the five phases that give a daemon its      *)
(* owner key, kernel, ENS records, session key and identity record.  The    *)
(* script is run again after every failure and finds out from the files and *)
(* the chain what was done.  The process may die, or a call throw, at any   *)
(* await and between two file writes; the operator does the two funding     *)
(* transfers and the registration whenever they like, and transactions that *)
(* were sent may be mined after the script gave up on them.                 *)
(* A kernel is a function of its owner key (CREATE2), so a key stands for   *)
(* its kernel too.                                                          *)
(***************************************************************************)
EXTENDS Integers, Sequences

CONSTANTS Names,          \* ENS names provisioned on this host
          SlugOf(_),      \* pathsFor: the slug its file names are made from
          Policies,       \* RiskPolicies that the command line can ask for
          Routers,        \* router addresses the environment may name
          Nobody,         \* no owner, no file, no router, no record
          MaxKeys, MaxFailures, MaxMoves   \* bounds

ProvisionInputsTyped ==
  /\ Nobody \notin Names \cup Policies \cup Routers
  /\ MaxKeys \in Nat /\ MaxFailures \in Nat /\ MaxMoves \in Nat

ASSUME ProvisionAssumption == ProvisionInputsTyped

Keys == 1..MaxKeys
NoKey == 0
Slugs == {SlugOf(n) : n \in Names}

VARIABLES files,   \* per slug: keystore, public record, session key, identity record
          chain,   \* ENS: owner, resolver, addr and policy per name; the balances per key
          pending, \* transactions sent by owner keys and not mined yet
          run,     \* the process
          made, failures, moves
provisionVars == <<files, chain, pending, run, made, failures, moves>>

NoFiles == [keystore |-> NoKey, pub |-> NoKey,
            session |-> [key |-> NoKey, router |-> Nobody, valid |-> FALSE],
            identity |-> [name |-> Nobody, key |-> NoKey, policy |-> Nobody, router |-> Nobody]]
NoRun == [pc |-> "none", name |-> Nobody, force |-> FALSE, dry |-> FALSE,
          policy |-> Nobody, router |-> Nobody, key |-> NoKey]

ProvisionInit ==
  /\ files = [s \in Slugs |-> NoFiles]
  /\ chain = [ens |-> [n \in Names |-> [owner |-> NoKey, resolver |-> FALSE, addr |-> NoKey, policy |-> Nobody]],
              kernelFunded |-> {}, ownerFunded |-> {}]
  /\ pending = <<>> /\ run = NoRun
  /\ made = 0 /\ failures = 0 /\ moves = 0

-----------------------------------------------------------------------------
My == files[SlugOf(run.name)]
Over == {"none", "refused", "failed", "done"}
Goto(from, to) == run.pc = from /\ run' = [run EXCEPT !.pc = to]
SaveFiles(f) == files' = [files EXCEPT ![SlugOf(run.name)] = f]
Bounds == <<made, failures, moves>>
\* What the script's own steps leave alone, except where they say otherwise.
OnlyRun == UNCHANGED <<files, chain, pending, Bounds>>

Start(n, force, dry, policy, router) ==
  /\ run.pc \in Over
  /\ run' = [pc |-> "phase1", name |-> n, force |-> force, dry |-> dry,
             policy |-> policy, router |-> router, key |-> NoKey]
  /\ OnlyRun

\* A keystore is never overwritten.
KeystoreBars == My.keystore # NoKey /\ run.force

Partial == (My.keystore # NoKey) # (My.pub # NoKey)

ReuseOwner ==
  /\ run.pc = "phase1" /\ ~Partial /\ My.keystore # NoKey /\ ~run.force
  /\ run' = [run EXCEPT !.pc = "phase2", !.key = My.pub]
  /\ OnlyRun

RefuseOwner ==
  /\ run.pc = "phase1"
  /\ IF Partial THEN Goto("phase1", "refused") ELSE KeystoreBars /\ Goto("phase1", "failed")
  /\ OnlyRun

\* With nothing on disk a dry run goes on with the zero address, any other makes a key.
NewOwner ==
  /\ run.pc = "phase1" /\ ~Partial /\ ~KeystoreBars /\ (My.keystore = NoKey \/ run.force)
  /\ IF run.dry
     THEN run' = [run EXCEPT !.pc = "phase2"] /\ UNCHANGED made
     ELSE /\ made < MaxKeys /\ made' = made + 1
          /\ run' = [run EXCEPT !.pc = "keystore", !.key = made']
  /\ UNCHANGED <<files, chain, pending, failures, moves>>

\* Mutant: the public record goes first.
WritePubFirst ==
  /\ Goto("keystore", "pub") /\ SaveFiles([My EXCEPT !.pub = run.key])
  /\ UNCHANGED <<chain, pending, Bounds>>

WriteKeystore ==
  /\ Goto("keystore", "pub") /\ SaveFiles([My EXCEPT !.keystore = run.key])
  /\ UNCHANGED <<chain, pending, Bounds>>

\* The public record is written; only then are the addresses printed.
WritePub ==
  /\ Goto("pub", "phase2") /\ SaveFiles([My EXCEPT !.pub = run.key])
  /\ UNCHANGED <<chain, pending, Bounds>>

\* Phase 2's three checks.  Balances only grow here, and the owner, read through the
\* wrapper when the name is wrapped, is nobody when the read fails.
Ready == /\ chain.ens[run.name].owner = run.key
         /\ run.key \in chain.kernelFunded /\ run.key \in chain.ownerFunded

VerifyPhase2 ==
  /\ run.pc = "phase2" /\ Goto("phase2", IF run.dry \/ Ready THEN "phase3" ELSE "prompt") /\ OnlyRun

\* ENTER: everything is read again, and must hold now.
VerifyAfterPrompt ==
  /\ run.pc = "prompt" /\ Goto("prompt", IF Ready THEN "phase3" ELSE "failed") /\ OnlyRun

\* Phase 3: dry runs send nothing; a name without a resolver is refused; the keystore
\* must decrypt to the owner; addr is set unless it is right already.
CheckAddr ==
  /\ run.pc = "phase3"
  /\ Goto("phase3", IF run.dry THEN "phase4"
                    ELSE IF ~chain.ens[run.name].resolver THEN "failed"
                    ELSE IF chain.ens[run.name].addr = run.key THEN "setText" ELSE "setAddr")
  /\ OnlyRun

\* The gas estimate refuses what would revert now.
Send(from, to, kind, value) ==
  /\ run.pc = from
  /\ IF chain.ens[run.name].owner # My.keystore THEN Goto(from, "failed") /\ UNCHANGED pending
     ELSE /\ Goto(from, to)
          /\ pending' = Append(pending, [name |-> run.name, from |-> My.keystore, kind |-> kind, value |-> value])
  /\ UNCHANGED <<files, chain, Bounds>>

SendSetAddr == Send("setAddr", "addrSent", "addr", run.key)

\* Sent on every run, whatever the record says.
SendSetText == Send("setText", "textSent", "policy", run.policy)

\* Mutant: the script goes on as soon as a transaction is sent.
ReceiptAtOnce == /\ Goto("addrSent", "setText") \/ Goto("textSent", "phase4")
                 /\ OnlyRun

\* Mutant: only a transaction that succeeded has a receipt.
ReceiptOfSuccess == /\ pending = <<>>
                    /\ Goto("addrSent", "setText") \/ Goto("textSent", "phase4")
                    /\ chain.ens[run.name].addr = run.key /\ OnlyRun

\* waitForTransactionReceipt: the transaction, the last one sent, was mined, however it ended.
Receipt == /\ pending = <<>>
           /\ Goto("addrSent", "setText") \/ Goto("textSent", "phase4")
           /\ OnlyRun

\* Phase 4: an existing key is kept when it is of this kernel and router and not expired.
Reusable ==
  /\ My.session.key = run.key /\ run.key # NoKey /\ ~run.force
  /\ run.router # Nobody /\ My.session.router = run.router /\ My.session.valid

KeepSessionKey ==
  /\ run.pc = "phase4" /\ (Reusable \/ run.dry)
  /\ Goto("phase4", "phase5") /\ OnlyRun

\* The kernel derived from the decrypted key must be the recorded one.
IssueSessionKey ==
  /\ run.pc = "phase4" /\ ~Reusable /\ ~run.dry
  /\ IF run.router = Nobody \/ My.keystore # run.key
     THEN Goto("phase4", "failed") /\ UNCHANGED files
     ELSE /\ Goto("phase4", "phase5")
          /\ SaveFiles([My EXCEPT !.session = [key |-> run.key, router |-> run.router, valid |-> TRUE]])
  /\ UNCHANGED <<chain, pending, Bounds>>

WriteIdentityRecord ==
  /\ Goto("phase5", "done")
  /\ IF run.dry THEN UNCHANGED files
     ELSE SaveFiles([My EXCEPT !.identity = [name |-> run.name, key |-> run.key,
                                             policy |-> run.policy, router |-> run.router]])
  /\ UNCHANGED <<chain, pending, Bounds>>

\* Any await may throw (an endpoint, a password, a setting, a token symbol, a receipt that
\* does not come), and the process may be killed.
Fail == /\ run.pc \notin Over /\ failures < MaxFailures /\ failures' = failures + 1
        /\ run' = [run EXCEPT !.pc = "failed"]
        /\ UNCHANGED <<files, chain, pending, made, moves>>

Script == ReuseOwner \/ RefuseOwner \/ NewOwner \/ WriteKeystore \/ WritePub \/ VerifyPhase2
          \/ VerifyAfterPrompt \/ CheckAddr \/ SendSetAddr \/ SendSetText \/ Receipt
          \/ KeepSessionKey \/ IssueSessionKey \/ WriteIdentityRecord
-----------------------------------------------------------------------------
\* The chain and the operator.

Apply(tx) == IF chain.ens[tx.name].owner # tx.from THEN chain     \* reverts
             ELSE IF tx.kind = "addr" THEN [chain EXCEPT !.ens[tx.name].addr = tx.value]
             ELSE [chain EXCEPT !.ens[tx.name].policy = tx.value]

Mine == /\ pending # <<>> /\ pending' = Tail(pending) /\ chain' = Apply(Head(pending))
        /\ UNCHANGED <<files, run, Bounds>>

\* The addresses that were printed are those of a finished public record.
Shown(n) == files[SlugOf(n)].pub

Operator(n) ==
  /\ Shown(n) # NoKey
  /\ \/ chain' = [chain EXCEPT !.kernelFunded = @ \cup {Shown(n)}]
     \/ chain' = [chain EXCEPT !.ownerFunded = @ \cup {Shown(n)}]
     \/ /\ chain.ens[n].owner # Shown(n)
        /\ \E resolver \in BOOLEAN : chain' = [chain EXCEPT !.ens[n].owner = Shown(n), !.ens[n].resolver = resolver]
     \/ chain' = [chain EXCEPT !.ens[n].resolver = TRUE]
  /\ UNCHANGED <<files, pending, run, Bounds>>

\* What the refusal tells the operator to do.
DeletePartial ==
  /\ run.pc = "refused"
  /\ SaveFiles([My EXCEPT !.keystore = NoKey, !.pub = NoKey])
  /\ run' = NoRun
  /\ UNCHANGED <<chain, pending, Bounds>>

\* The owner of the parent name takes the subname back.
Reassign == \E n \in Names :
  /\ moves < MaxMoves /\ moves' = moves + 1
  /\ chain' = [chain EXCEPT !.ens[n].owner = NoKey]
  /\ UNCHANGED <<files, pending, run, made, failures>>

Expire == \E s \in Slugs :
  /\ files[s].session.valid /\ files' = [files EXCEPT ![s].session.valid = FALSE]
  /\ UNCHANGED <<chain, pending, run, Bounds>>

PlainStart(n) == \E p \in Policies, r \in Routers : Start(n, FALSE, FALSE, p, r)

ProvisionNext ==
  \/ Script \/ Fail \/ Mine \/ DeletePartial \/ Reassign \/ Expire
  \/ \E n \in Names : Operator(n)
  \/ \E n \in Names, force, dry \in BOOLEAN, p \in Policies, r \in Routers \cup {Nobody} :
       Start(n, force, dry, p, r)

ProvisionSpec == ProvisionInit /\ [][ProvisionNext]_provisionVars

\* Calls return, transactions are mined, and the operator does the transfers and the
\* registration, follows the refusal and keeps starting plain runs until one is done.
FairProvision ==
  /\ ProvisionSpec /\ WF_provisionVars(Script) /\ WF_provisionVars(Mine) /\ SF_provisionVars(DeletePartial)
  /\ \A n \in Names :
       /\ SF_provisionVars(PlainStart(n))
       /\ WF_provisionVars(Shown(n) \notin chain.kernelFunded /\ Operator(n) /\ Shown(n) \in chain'.kernelFunded)
       /\ WF_provisionVars(Shown(n) \notin chain.ownerFunded /\ Operator(n) /\ Shown(n) \in chain'.ownerFunded)
       /\ WF_provisionVars(Operator(n) /\ chain.ens[n].owner # chain'.ens[n].owner)
       /\ WF_provisionVars(Operator(n) /\ chain'.ens[n].resolver /\ ~chain.ens[n].resolver)
-----------------------------------------------------------------------------
ProvisionTypeOK ==
  /\ \A s \in Slugs : LET f == files[s] IN
       /\ f.keystore \in 0..made /\ f.pub \in {NoKey, f.keystore}
       /\ f.session.key \in 0..made /\ f.session.router \in Routers \cup {Nobody}
       /\ f.identity.key \in 0..made /\ f.identity.name \in Names \cup {Nobody}
  /\ run.key \in 0..made /\ run.name \in Names \cup {Nobody}
  /\ chain.kernelFunded \cup chain.ownerFunded \subseteq 1..made
  /\ \A i \in 1..Len(pending) : pending[i].from \in Keys

(* No address is ever funded whose owner key is not on disk, whatever the   *)
(* script died of, and following its own advice to delete a half-written    *)
(* pair of files never orphans a funded kernel (provision-daemon.ts:345-366,*)
(* 401-425).                                                                *)
FundsRecoverable == \A k \in chain.kernelFunded \cup chain.ownerFunded :
  \E s \in Slugs : files[s].keystore = k

(* A run that ends well leaves a session key of the kernel it recorded,     *)
(* pinned to the router it was configured with, whatever earlier runs left  *)
(* on disk (provision-daemon.ts:716-741, 868-922).                          *)
SessionFitsRecord == run.pc = "done" /\ ~run.dry =>
  /\ My.session.key = My.identity.key /\ My.keystore = My.identity.key
  /\ My.session.router = run.router /\ My.identity.router = run.router

(* "The end-state is infra/identities/daemon.json matching the live         *)
(* on-chain state" (provision-daemon.ts:26-28): so long as nobody took the  *)
(* subname away, the records on chain are the recorded ones even after      *)
(* earlier runs died with transactions in flight.                           *)
Matches == LET id == My.identity IN
  chain.ens[id.name].addr = id.key /\ chain.ens[id.name].policy = id.policy
RecordMatchesChain == run.pc = "done" /\ ~run.dry /\ moves = 0 => Matches

(* What the script leaves on disk goes with the chain, wherever a run dies: *)
(* the three above (provision-daemon.ts:401, 716, 868).                     *)
DiskMatchesChain == FundsRecoverable /\ SessionFitsRecord /\ RecordMatchesChain

(* Provisioning gets there in the end, through crashes at any point, with   *)
(* an operator who does as told.                                            *)
AllProvisioned == \A n \in Names : <>(files[SlugOf(n)].identity.name = n)
=============================================================================
