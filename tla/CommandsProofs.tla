--------------------------- MODULE CommandsProofs ---------------------------
(***************************************************************************)
(* What the commands that an operator starts keep, for all tokens, names,  *)
(* policies, keys and environments: the provisioning script, the swap      *)
(* command, and the Trading API client.                                    *)
(***************************************************************************)
EXTENDS Commands, TotalsProofs, SequenceTheorems, TLAPS

-----------------------------------------------------------------------------
(***************************************************************************)
(* The provisioning script (scripts/provision-daemon.ts), whatever it dies *)
(* of and however often it is started again, for names that may share a    *)
(* slug.                                                                   *)
(***************************************************************************)
Stages == Over \cup {"phase1", "keystore", "pub", "phase2", "prompt", "phase3", "setAddr",
                     "addrSent", "setText", "textSent", "phase4", "phase5"}
AnyPolicy == Policies \cup {Nobody}
AnyRouter == Routers \cup {Nobody}
FileRec(m) ==
  [keystore : 0..m, pub : 0..m, session : [key : 0..m, router : AnyRouter, valid : BOOLEAN],
   identity : [name : Names \cup {Nobody}, key : 0..m, policy : AnyPolicy, router : AnyRouter]]
RunRec(m) == [pc : Stages, name : Names \cup {Nobody}, force : BOOLEAN, dry : BOOLEAN,
              policy : AnyPolicy, router : AnyRouter, key : 0..m]
Entry == [owner : Nat, resolver : BOOLEAN, addr : Nat, policy : AnyPolicy]
ChainRec(m) == [ens : [Names -> Entry], kernelFunded : SUBSET (1..m), ownerFunded : SUBSET (1..m)]
Tx == [name : Names, from : Keys, kind : {"addr"}, value : Nat]
        \cup [name : Names, from : Keys, kind : {"policy"}, value : AnyPolicy]

\* A funded key is in a finished pair of files.
FundedInv == \A k \in chain.kernelFunded \cup chain.ownerFunded :
  \E s \in Slugs : files[s].keystore = k /\ files[s].pub = k

\* Whatever waits to be mined was sent by the owner that is shown for its name, and
\* is accepted as long as nobody took the name away.
TxInv ==
  /\ \A i \in 1..Len(pending) :
       /\ pending[i].from = Shown(pending[i].name)
       /\ pending[i].kind = "addr" => pending[i].value = Shown(pending[i].name)
  /\ moves = 0 => /\ \A n \in Names : chain.ens[n].owner \in {NoKey, Shown(n)}
                  /\ \A i \in 1..Len(pending) :
                       chain.ens[pending[i].name].owner = pending[i].from

SharedInv ==
  /\ made \in 0..MaxKeys /\ failures \in Nat /\ moves \in Nat
  /\ files \in [Slugs -> FileRec(made)] /\ chain \in ChainRec(made) /\ pending \in Seq(Tx)
  /\ \A s \in Slugs : files[s].pub \in {NoKey, files[s].keystore}
  /\ FundedInv /\ TxInv

\* What a run has on disk by the time it is at a stage.
AfterPhase1 == {"phase2", "prompt", "phase3", "setAddr", "addrSent", "setText", "textSent",
                "phase4", "phase5", "done"}
Owned(r) == r.key # NoKey /\ files[SlugOf(r.name)].keystore = r.key /\ files[SlugOf(r.name)].pub = r.key
DiskInv(r) ==
  LET f == files[SlugOf(r.name)] IN
  /\ r.pc # "none" => r.name \in Names
  /\ r.pc = "refused" => f.pub = NoKey
  /\ r.pc \in {"keystore", "pub"} =>
       /\ r.key # NoKey /\ ~r.dry /\ f.pub = NoKey
       /\ f.keystore = IF r.pc = "pub" THEN r.key ELSE NoKey
  /\ r.pc \in AfterPhase1 /\ ~r.dry => Owned(r)
  /\ r.pc \in {"prompt", "setAddr", "addrSent", "setText", "textSent"} => ~r.dry
  /\ r.pc \in {"phase5", "done"} /\ ~r.dry => f.session.key = r.key /\ f.session.router = r.router
  /\ r.pc = "done" /\ ~r.dry =>
       f.identity = [name |-> r.name, key |-> r.key, policy |-> r.policy, router |-> r.router]

\* What it has sent: the last transaction is its own; once it is mined the record is the
\* one that was asked for, and addr stays what it is.
LastIs(r, kind, value) ==
  LET tx == pending[Len(pending)] IN
  pending # <<>> => tx.name = r.name /\ tx.kind = kind /\ tx.value = value
OnChain(r) == chain.ens[r.name]
SentInv(r) ==
  /\ r.pc = "addrSent" => /\ LastIs(r, "addr", r.key)
                          /\ pending = <<>> /\ moves = 0 => OnChain(r).addr = r.key
  /\ r.pc = "textSent" => /\ LastIs(r, "policy", r.policy)
                          /\ pending = <<>> /\ moves = 0 => OnChain(r).policy = r.policy
  /\ r.pc \in {"setText", "textSent", "phase4", "phase5", "done"} /\ ~r.dry /\ moves = 0 =>
       OnChain(r).addr = r.key
  /\ r.pc \in {"phase4", "phase5", "done"} /\ ~r.dry =>
       pending = <<>> /\ (moves = 0 => OnChain(r).policy = r.policy)

RunInv == run \in RunRec(made) /\ DiskInv(run) /\ SentInv(run)

ProvisionInv == SharedInv /\ RunInv

-----------------------------------------------------------------------------
\* The files of a run's slug, which are there for each name.
LEMMA MyFiles ==
  ASSUME SharedInv, NEW n \in Names
  PROVE  /\ SlugOf(n) \in Slugs /\ files[SlugOf(n)] \in FileRec(made)
         /\ files[SlugOf(n)].pub \in {NoKey, files[SlugOf(n)].keystore}
  BY DEF SharedInv, Slugs

\* Nothing but the run moves.
LEMMA OnlyRunInv ==
  ASSUME SharedInv, UNCHANGED <<files, chain, pending, made, moves>>, failures' \in Nat
  PROVE  SharedInv'
<1>1. FundedInv' BY DEF SharedInv, FundedInv
<1>2. TxInv' BY DEF SharedInv, TxInv, Shown
<1> QED BY <1>1, <1>2 DEF SharedInv, FileRec, ChainRec, Entry

LEMMA RunMoves ==
  ASSUME SharedInv, NEW r, UNCHANGED <<files, chain, pending, made, moves>>, run' = r,
         r \in RunRec(made), DiskInv(r), SentInv(r)
  PROVE  RunInv'
<1>1. (run \in RunRec(made))' OBVIOUS
<1>2. DiskInv(run)' BY DEF DiskInv, Owned
<1>3. SentInv(run)' BY DEF SentInv, LastIs, OnChain
<1> QED BY <1>1, <1>2, <1>3 DEF RunInv, RunRec

\* A run that has just begun, or is over without a success, has promised nothing.
LEMMA IdleRun ==
  ASSUME NEW r, r.pc \in {"none", "phase1", "failed"}, r.pc # "none" => r.name \in Names
  PROVE  DiskInv(r) /\ SentInv(r)
  BY DEF DiskInv, SentInv, AfterPhase1

\* A run goes on to its next stage; the rest of its record is as it was.
LEMMA Went ==
  ASSUME run \in RunRec(made), NEW from, NEW to \in Stages, Goto(from, to)
  PROVE  /\ run' \in RunRec(made) /\ run.pc = from /\ run'.pc = to /\ run'.name = run.name
         /\ run'.dry = run.dry /\ run'.key = run.key /\ run'.policy = run.policy
         /\ run'.router = run.router
  BY DEF Goto, RunRec

\* A run begins, or phase 1 takes what is on disk, refuses it, or makes a key.
LEMMA BeginInv ==
  ASSUME ProvisionInputsTyped, ProvisionInv, NEW n \in Names, NEW force \in BOOLEAN, NEW dry \in BOOLEAN,
         NEW p \in Policies, NEW r \in AnyRouter, Start(n, force, dry, p, r)
  PROVE  ProvisionInv'
<1> DEFINE next == [pc |-> "phase1", name |-> n, force |-> force, dry |-> dry,
                    policy |-> p, router |-> r, key |-> NoKey]
<1>1. run' = next /\ UNCHANGED <<files, chain, pending, made, failures, moves>>
  BY DEF Start, OnlyRun, Bounds
<1>2. SharedInv' BY <1>1, OnlyRunInv DEF ProvisionInv, SharedInv
<1>3. next \in RunRec(made) /\ next.pc = "phase1" /\ next.name \in Names
  BY DEF RunRec, Stages, Over, AnyPolicy, ProvisionInv, SharedInv, NoKey, ProvisionInputsTyped
<1> HIDE DEF next
<1>4. DiskInv(next) /\ SentInv(next) BY <1>3, IdleRun
<1> QED BY <1>1, <1>2, <1>3, <1>4, RunMoves DEF ProvisionInv

LEMMA FailInv == ASSUME ProvisionInputsTyped, ProvisionInv, Fail PROVE ProvisionInv'
<1> DEFINE next == [run EXCEPT !.pc = "failed"]
<1>1. /\ run' = next /\ UNCHANGED <<files, chain, pending, made, moves>>
      /\ failures' = failures + 1 /\ run.pc \notin Over
  BY DEF Fail
<1>2. SharedInv' BY <1>1, OnlyRunInv DEF ProvisionInv, SharedInv
<1>3. next \in RunRec(made) /\ next.pc = "failed" /\ next.name = run.name
  BY DEF RunRec, Stages, Over, ProvisionInv, RunInv
<1>4. run.name \in Names BY <1>1 DEF ProvisionInv, RunInv, DiskInv, Over
<1> HIDE DEF next
<1>5. DiskInv(next) /\ SentInv(next) BY <1>3, <1>4, IdleRun
<1> QED BY <1>1, <1>2, <1>3, <1>5, RunMoves DEF ProvisionInv

LEMMA ReuseInv == ASSUME ProvisionInputsTyped, ProvisionInv, ReuseOwner PROVE ProvisionInv'
<1> DEFINE next == [run EXCEPT !.pc = "phase2", !.key = My.pub]
<1>1. /\ run' = next /\ UNCHANGED <<files, chain, pending, made, failures, moves>>
      /\ run.pc = "phase1" /\ ~Partial /\ My.keystore # NoKey
  BY DEF ReuseOwner, OnlyRun, Bounds
<1>2. SharedInv' BY <1>1, OnlyRunInv DEF ProvisionInv, SharedInv
<1>3. run.name \in Names /\ run \in RunRec(made) BY <1>1 DEF ProvisionInv, RunInv, DiskInv
<1>4. My \in FileRec(made) /\ My.pub \in {NoKey, My.keystore}
  BY <1>3, MyFiles DEF My, ProvisionInv
<1>5. My.pub = My.keystore /\ My.pub # NoKey BY <1>1, <1>4 DEF Partial
<1>6. /\ next \in RunRec(made) /\ next.pc = "phase2" /\ next.name = run.name /\ next.key = My.pub
  BY <1>3, <1>4 DEF RunRec, Stages, Over, FileRec
<1> HIDE DEF next
<1>7. DiskInv(next) BY <1>3, <1>5, <1>6 DEF DiskInv, Owned, My, AfterPhase1
<1>8. SentInv(next) BY <1>6 DEF SentInv
<1> QED BY <1>1, <1>2, <1>6, <1>7, <1>8, RunMoves DEF ProvisionInv

LEMMA RefuseInv == ASSUME ProvisionInputsTyped, ProvisionInv, RefuseOwner PROVE ProvisionInv'
<1>1. /\ UNCHANGED <<files, chain, pending, made, failures, moves>> /\ run.pc = "phase1"
      /\ \/ Partial /\ Goto("phase1", "refused")
         \/ Goto("phase1", "failed")
  BY DEF RefuseOwner, OnlyRun, Bounds
<1>2. SharedInv' BY <1>1, OnlyRunInv DEF ProvisionInv, SharedInv
<1>3. run.name \in Names /\ run \in RunRec(made) BY <1>1 DEF ProvisionInv, RunInv, DiskInv
<1>4. CASE Goto("phase1", "failed")
  <2>1. run' \in RunRec(made) /\ run'.pc = "failed" /\ run'.name = run.name
    BY <1>3, <1>4, Went DEF Stages, Over
  <2>2. DiskInv(run') /\ SentInv(run') BY <1>3, <2>1, IdleRun
  <2> QED BY <1>1, <1>2, <2>1, <2>2, RunMoves DEF ProvisionInv
<1>5. CASE Partial /\ Goto("phase1", "refused")
  <2>1. run' \in RunRec(made) /\ run'.pc = "refused" /\ run'.name = run.name
    BY <1>3, <1>5, Went DEF Stages, Over
  <2>2. My.pub \in {NoKey, My.keystore} BY <1>3, MyFiles DEF My, ProvisionInv
  <2>3. My.pub = NoKey BY <1>5, <2>2 DEF Partial
  <2>4. DiskInv(run') BY <1>3, <2>1, <2>3 DEF DiskInv, My, AfterPhase1
  <2>5. SentInv(run') BY <2>1 DEF SentInv
  <2> QED BY <1>1, <1>2, <2>1, <2>4, <2>5, RunMoves DEF ProvisionInv
<1> QED BY <1>1, <1>4, <1>5

LEMMA NewOwnerInv == ASSUME ProvisionInputsTyped, ProvisionInv, NewOwner PROVE ProvisionInv'
<1>1. /\ UNCHANGED <<files, chain, pending, failures, moves>> /\ run.pc = "phase1"
      /\ ~Partial /\ ~KeystoreBars /\ (My.keystore = NoKey \/ run.force)
  BY DEF NewOwner
<1>2. run.name \in Names /\ run \in RunRec(made) BY <1>1 DEF ProvisionInv, RunInv, DiskInv
<1>3. My.keystore = NoKey /\ My.pub = NoKey
  <2>1. My.pub \in {NoKey, My.keystore} BY <1>2, MyFiles DEF My, ProvisionInv
  <2> QED BY <1>1, <2>1 DEF KeystoreBars
<1>4. CASE run.dry
  <2> DEFINE next == [run EXCEPT !.pc = "phase2"]
  <2>1. run' = next /\ made' = made BY <1>1, <1>4 DEF NewOwner
  <2>2. SharedInv' BY <1>1, <2>1, OnlyRunInv DEF ProvisionInv, SharedInv
  <2>3. next \in RunRec(made) /\ next.pc = "phase2" /\ next.name = run.name /\ next.dry
    BY <1>2, <1>4 DEF RunRec, Stages, Over
  <2> HIDE DEF next
  <2>4. DiskInv(next) BY <1>2, <2>3 DEF DiskInv
  <2>5. SentInv(next) BY <2>3 DEF SentInv
  <2> QED BY <1>1, <2>1, <2>2, <2>3, <2>4, <2>5, RunMoves DEF ProvisionInv
<1>5. CASE ~run.dry
  <2> DEFINE m == made'  next == [run EXCEPT !.pc = "keystore", !.key = m]
  <2>1. run' = next /\ made < MaxKeys /\ m = made + 1 BY <1>1, <1>5 DEF NewOwner
  <2>2. made \in 0..MaxKeys BY DEF ProvisionInv, SharedInv
  <2>3. made' \in 0..MaxKeys /\ made' # NoKey /\ 0..made \subseteq 0..made' /\ 1..made \subseteq 1..made'
    BY <2>1, <2>2 DEF NoKey, ProvisionInputsTyped
  <2>4. files' \in [Slugs -> FileRec(made')]
    BY <1>1, <2>3 DEF ProvisionInv, SharedInv, FileRec
  <2>5. chain' \in ChainRec(made') BY <1>1, <2>3 DEF ProvisionInv, SharedInv, ChainRec
  <2>6. FundedInv' BY <1>1 DEF ProvisionInv, SharedInv, FundedInv
  <2>7. TxInv' BY <1>1 DEF ProvisionInv, SharedInv, TxInv, Shown
  <2>8. SharedInv' BY <1>1, <2>3, <2>4, <2>5, <2>6, <2>7 DEF ProvisionInv, SharedInv, FileRec, ChainRec, Entry
  <2>15. m \in 0..m BY <2>2, <2>3
  <2> HIDE DEF m
  <2>9. next \in RunRec(m) /\ next.pc = "keystore" /\ next.name = run.name /\ next.key = m /\ ~next.dry
    BY <1>2, <1>5, <2>3, <2>15 DEF RunRec, Stages, m
  <2> USE DEF m
  <2> HIDE DEF next
  <2>10. DiskInv(next) BY <1>2, <1>3, <2>3, <2>9 DEF DiskInv, My, AfterPhase1
  <2>11. SentInv(next) BY <2>9 DEF SentInv
  <2>12. DiskInv(run)' BY <1>1, <2>1, <2>10 DEF DiskInv, Owned
  <2>13. SentInv(run)' BY <1>1, <2>1, <2>11 DEF SentInv, LastIs, OnChain
  <2>14. (run \in RunRec(made))' BY <2>1, <2>9 DEF RunRec
  <2> QED BY <2>8, <2>12, <2>13, <2>14 DEF ProvisionInv, RunInv, RunRec
<1> QED BY <1>4, <1>5

-----------------------------------------------------------------------------
\* Where a run that is under way stands.
LEMMA UnderWay ==
  ASSUME ProvisionInv, run.pc # "none"
  PROVE  /\ run.name \in Names /\ run \in RunRec(made) /\ SlugOf(run.name) \in Slugs
         /\ My \in FileRec(made) /\ My.pub \in {NoKey, My.keystore}
<1>1. run.name \in Names /\ run \in RunRec(made) BY DEF ProvisionInv, RunInv, DiskInv
<1> QED BY <1>1, MyFiles DEF My, ProvisionInv

\* A step that only moves the run.
LEMMA RunOnly ==
  ASSUME ProvisionInputsTyped, ProvisionInv, OnlyRun,
         run' \in RunRec(made), DiskInv(run'), SentInv(run')
  PROVE  ProvisionInv'
<1>1. UNCHANGED <<files, chain, pending, made, failures, moves>> BY DEF OnlyRun, Bounds
<1>2. SharedInv' BY <1>1, OnlyRunInv DEF ProvisionInv, SharedInv
<1> QED BY <1>1, <1>2, RunMoves DEF ProvisionInv

LEMMA WriteKeystoreInv ==
  ASSUME ProvisionInputsTyped, ProvisionInv, WriteKeystore PROVE ProvisionInv'
<1> DEFINE s == SlugOf(run.name)  f == [My EXCEPT !.keystore = run.key]
<1>1. /\ Goto("keystore", "pub") /\ files' = [files EXCEPT ![s] = f]
      /\ UNCHANGED <<chain, pending, made, failures, moves>> /\ run.pc = "keystore"
  BY DEF WriteKeystore, SaveFiles, Bounds, Goto
<1>2. /\ run.name \in Names /\ run \in RunRec(made) /\ s \in Slugs
      /\ My \in FileRec(made)
  BY <1>1, UnderWay
<1>3. run.key # NoKey /\ ~run.dry /\ My.pub = NoKey /\ My = files[s]
  BY <1>1 DEF ProvisionInv, RunInv, DiskInv, My
<1>4. f \in FileRec(made) /\ f.keystore = run.key /\ f.pub = NoKey
  BY <1>2, <1>3 DEF FileRec, RunRec
<1> HIDE DEF f
<1>5. files \in [Slugs -> FileRec(made)] BY DEF ProvisionInv, SharedInv
<1>6. files' \in [Slugs -> FileRec(made)] /\ files'[s] = f /\ \A t \in Slugs \ {s} : files'[t] = files[t]
  BY <1>1, <1>2, <1>4, <1>5
<1>7. \A t \in Slugs : files'[t].pub = files[t].pub BY <1>3, <1>4, <1>6
<1>8. \A t \in Slugs : files'[t].pub \in {NoKey, files'[t].keystore}
  BY <1>4, <1>6 DEF ProvisionInv, SharedInv
<1>9. FundedInv'
  <2> SUFFICES ASSUME NEW k \in chain.kernelFunded \cup chain.ownerFunded
               PROVE  \E t \in Slugs : files'[t].keystore = k /\ files'[t].pub = k
    BY <1>1 DEF FundedInv
  <2>1. PICK t \in Slugs : files[t].keystore = k /\ files[t].pub = k
    BY DEF ProvisionInv, SharedInv, FundedInv
  <2>2. k # NoKey BY DEF ProvisionInv, SharedInv, ChainRec, NoKey
  <2>3. t # s BY <1>3, <2>1, <2>2
  <2> QED BY <1>6, <2>1, <2>3
<1>10. \A n \in Names : SlugOf(n) \in Slugs BY DEF Slugs
<1>11. \A n \in Names : Shown(n)' = Shown(n) BY <1>7, <1>10 DEF Shown
<1>12. \A i \in 1..Len(pending) : pending[i].name \in Names BY DEF ProvisionInv, SharedInv, Tx
<1>13. TxInv' BY <1>1, <1>11, <1>12 DEF ProvisionInv, SharedInv, TxInv
<1>14. SharedInv' BY <1>1, <1>6, <1>8, <1>9, <1>13 DEF ProvisionInv, SharedInv
<1>15. /\ run' \in RunRec(made) /\ run'.pc = "pub" /\ run'.name = run.name
       /\ run'.dry = run.dry /\ run'.key = run.key
  BY <1>1, <1>2, Went DEF Stages
<1>16. DiskInv(run)' BY <1>2, <1>3, <1>4, <1>6, <1>15 DEF DiskInv, AfterPhase1
<1>17. SentInv(run)' BY <1>15 DEF SentInv
<1> QED BY <1>1, <1>14, <1>15, <1>16, <1>17 DEF ProvisionInv, RunInv, RunRec

LEMMA WritePubInv ==
  ASSUME ProvisionInputsTyped, ProvisionInv, WritePub PROVE ProvisionInv'
<1> DEFINE s == SlugOf(run.name)  f == [My EXCEPT !.pub = run.key]
<1>1. /\ Goto("pub", "phase2") /\ files' = [files EXCEPT ![s] = f]
      /\ UNCHANGED <<chain, pending, made, failures, moves>> /\ run.pc = "pub"
  BY DEF WritePub, SaveFiles, Bounds, Goto
<1>2. /\ run.name \in Names /\ run \in RunRec(made) /\ s \in Slugs
      /\ My \in FileRec(made)
  BY <1>1, UnderWay
<1>3. run.key # NoKey /\ ~run.dry /\ My.pub = NoKey /\ My = files[s] /\ My.keystore = run.key
  BY <1>1 DEF ProvisionInv, RunInv, DiskInv, My
<1>4. f \in FileRec(made) /\ f.keystore = run.key /\ f.pub = run.key
  BY <1>2, <1>3 DEF FileRec, RunRec
<1> HIDE DEF f
<1>5. files \in [Slugs -> FileRec(made)] BY DEF ProvisionInv, SharedInv
<1>6. files' \in [Slugs -> FileRec(made)] /\ files'[s] = f /\ \A t \in Slugs \ {s} : files'[t] = files[t]
  BY <1>1, <1>2, <1>4, <1>5
<1>8. \A t \in Slugs : files'[t].pub \in {NoKey, files'[t].keystore}
  BY <1>4, <1>6 DEF ProvisionInv, SharedInv
<1>9. FundedInv'
  <2> SUFFICES ASSUME NEW k \in chain.kernelFunded \cup chain.ownerFunded
               PROVE  \E t \in Slugs : files'[t].keystore = k /\ files'[t].pub = k
    BY <1>1 DEF FundedInv
  <2>1. PICK t \in Slugs : files[t].keystore = k /\ files[t].pub = k
    BY DEF ProvisionInv, SharedInv, FundedInv
  <2>2. k # NoKey BY DEF ProvisionInv, SharedInv, ChainRec, NoKey
  <2>3. t # s BY <1>3, <2>1, <2>2
  <2> QED BY <1>6, <2>1, <2>3
<1>10. \A n \in Names : SlugOf(n) \in Slugs BY DEF Slugs
\* Nobody was shown the address before, so nothing was sent from it and no name is its.
<1>11. \A n \in Names : Shown(n)' = Shown(n) \/ Shown(n) = NoKey
  BY <1>3, <1>6, <1>10 DEF Shown
<1>12. \A i \in 1..Len(pending) : pending[i].name \in Names /\ pending[i].from # NoKey
  BY DEF ProvisionInv, SharedInv, Tx, Keys, NoKey
<1>13. TxInv'
  <2>1. TxInv BY DEF ProvisionInv, SharedInv
  <2>2. \A i \in 1..Len(pending) : pending[i].from = Shown(pending[i].name) BY <2>1 DEF TxInv
  <2>3. \A i \in 1..Len(pending) : Shown(pending[i].name)' = Shown(pending[i].name)
    BY <1>1, <1>11, <1>12, <2>2
  <2>4. ASSUME moves = 0, NEW n \in Names PROVE chain.ens[n].owner \in {NoKey, Shown(n)'}
    <3>1. chain.ens[n].owner \in {NoKey, Shown(n)} BY <2>1, <2>4 DEF TxInv
    <3> QED BY <1>11, <3>1
  <2>5. \A i \in 1..Len(pending) : pending[i].kind = "addr" => pending[i].value = Shown(pending[i].name)
    BY <2>1 DEF TxInv
  <2>6. moves = 0 => \A i \in 1..Len(pending) : chain.ens[pending[i].name].owner = pending[i].from
    BY <2>1 DEF TxInv
  <2> QED BY <1>1, <2>2, <2>3, <2>4, <2>5, <2>6 DEF TxInv
<1>14. SharedInv' BY <1>1, <1>6, <1>8, <1>9, <1>13 DEF ProvisionInv, SharedInv
<1>15. /\ run' \in RunRec(made) /\ run'.pc = "phase2" /\ run'.name = run.name
       /\ run'.dry = run.dry /\ run'.key = run.key
  BY <1>1, <1>2, Went DEF Stages
<1>16. DiskInv(run)' BY <1>2, <1>3, <1>4, <1>6, <1>15 DEF DiskInv, AfterPhase1, Owned
<1>17. SentInv(run)' BY <1>15 DEF SentInv
<1> QED BY <1>1, <1>14, <1>15, <1>16, <1>17 DEF ProvisionInv, RunInv, RunRec

LEMMA VerifyInv ==
  ASSUME ProvisionInputsTyped, ProvisionInv, VerifyPhase2 \/ VerifyAfterPrompt PROVE ProvisionInv'
<1>1. run.pc \in {"phase2", "prompt"} /\ OnlyRun
  BY DEF VerifyPhase2, VerifyAfterPrompt
<1>2. /\ run.name \in Names /\ run \in RunRec(made) BY <1>1, UnderWay
<1>3. PICK to \in {"phase3", "prompt", "failed"} :
        Goto(run.pc, to) /\ (run.dry /\ run.pc = "phase2" => to = "phase3")
  BY DEF VerifyPhase2, VerifyAfterPrompt, Goto
<1>4. /\ run' \in RunRec(made) /\ run'.pc = to /\ run'.name = run.name
      /\ run'.dry = run.dry /\ run'.key = run.key
  BY <1>2, <1>3, Went DEF Stages, Over
<1>5. ~run.dry => Owned(run) BY <1>1 DEF ProvisionInv, RunInv, DiskInv, AfterPhase1
<1>6. run.pc = "prompt" => ~run.dry BY DEF ProvisionInv, RunInv, DiskInv
<1>7. Owned(run) => Owned(run') BY <1>4 DEF Owned
<1>8. DiskInv(run') BY <1>1, <1>2, <1>3, <1>4, <1>5, <1>6, <1>7 DEF DiskInv, AfterPhase1
<1>9. SentInv(run') BY <1>4 DEF SentInv
<1> QED BY <1>1, <1>4, <1>8, <1>9, RunOnly

LEMMA CheckAddrInv ==
  ASSUME ProvisionInputsTyped, ProvisionInv, CheckAddr PROVE ProvisionInv'
<1>1. run.pc = "phase3" /\ OnlyRun BY DEF CheckAddr
<1>2. /\ run.name \in Names /\ run \in RunRec(made) BY <1>1, UnderWay
<1>3. PICK to \in {"phase4", "failed", "setText", "setAddr"} :
        /\ Goto("phase3", to) /\ (run.dry <=> to = "phase4")
        /\ to = "setText" => chain.ens[run.name].addr = run.key
  BY DEF CheckAddr
<1>4. /\ run' \in RunRec(made) /\ run'.pc = to /\ run'.name = run.name
      /\ run'.dry = run.dry /\ run'.key = run.key
  BY <1>2, <1>3, Went DEF Stages, Over
<1>5. ~run.dry => Owned(run) BY <1>1 DEF ProvisionInv, RunInv, DiskInv, AfterPhase1
<1>7. Owned(run) => Owned(run') BY <1>4 DEF Owned
<1>8. DiskInv(run') BY <1>2, <1>3, <1>4, <1>5, <1>7 DEF DiskInv, AfterPhase1
<1>9. SentInv(run') BY <1>3, <1>4 DEF SentInv, OnChain
<1> QED BY <1>1, <1>4, <1>8, <1>9, RunOnly

LEMMA ReceiptInv ==
  ASSUME ProvisionInputsTyped, ProvisionInv, Receipt PROVE ProvisionInv'
<1>1. pending = <<>> /\ OnlyRun BY DEF Receipt
<1>2. PICK to \in {"setText", "phase4"} :
        Goto(IF to = "setText" THEN "addrSent" ELSE "textSent", to)
  BY DEF Receipt
<1>3. run.pc = (IF to = "setText" THEN "addrSent" ELSE "textSent") BY <1>2 DEF Goto
<1>4. run.name \in Names /\ run \in RunRec(made) BY <1>3, UnderWay
<1>5. /\ run' \in RunRec(made) /\ run'.pc = to /\ run'.name = run.name
      /\ run'.dry = run.dry /\ run'.key = run.key /\ run'.policy = run.policy
  BY <1>2, <1>4, Went DEF Stages, Over
<1>6. ~run.dry /\ Owned(run) BY <1>3 DEF ProvisionInv, RunInv, DiskInv, AfterPhase1
<1>7. Owned(run') BY <1>5, <1>6 DEF Owned
<1>8. DiskInv(run') BY <1>4, <1>5, <1>6, <1>7 DEF DiskInv, AfterPhase1
<1>9. /\ moves = 0 => OnChain(run).addr = run.key
      /\ to = "phase4" /\ moves = 0 => OnChain(run).policy = run.policy
  BY <1>1, <1>3, <1>6 DEF ProvisionInv, RunInv, SentInv
<1>10. SentInv(run') BY <1>1, <1>5, <1>9 DEF SentInv, OnChain
<1> QED BY <1>1, <1>5, <1>8, <1>10, RunOnly

LEMMA KeepSessionKeyInv ==
  ASSUME ProvisionInputsTyped, ProvisionInv, KeepSessionKey PROVE ProvisionInv'
<1>1. OnlyRun /\ Goto("phase4", "phase5") /\ (Reusable \/ run.dry) /\ run.pc = "phase4"
  BY DEF KeepSessionKey
<1>2. run.name \in Names /\ run \in RunRec(made) BY <1>1, UnderWay
<1>3. /\ run' \in RunRec(made) /\ run'.pc = "phase5" /\ run'.name = run.name /\ run'.dry = run.dry
      /\ run'.key = run.key /\ run'.policy = run.policy /\ run'.router = run.router
  BY <1>1, <1>2, Went DEF Stages, Over
<1>4. ~run.dry => Owned(run) BY <1>1 DEF ProvisionInv, RunInv, DiskInv, AfterPhase1
<1>5. Owned(run) => Owned(run') BY <1>3 DEF Owned
<1>6. ~run.dry => My.session.key = run.key /\ My.session.router = run.router
  BY <1>1 DEF Reusable
<1>7. DiskInv(run') BY <1>2, <1>3, <1>4, <1>5, <1>6 DEF DiskInv, AfterPhase1, My
<1>8. ~run.dry => pending = <<>> /\ (moves = 0 => OnChain(run).policy = run.policy)
  BY <1>1 DEF ProvisionInv, RunInv, SentInv
<1>9. ~run.dry /\ moves = 0 => OnChain(run).addr = run.key
  BY <1>1 DEF ProvisionInv, RunInv, SentInv
<1>10. SentInv(run') BY <1>3, <1>8, <1>9 DEF SentInv, OnChain
<1> QED BY <1>1, <1>3, <1>7, <1>10, RunOnly

\* A transaction is sent by the owner that is shown, or not at all.
LEMMA SendInv ==
  ASSUME ProvisionInputsTyped, ProvisionInv, SendSetAddr \/ SendSetText PROVE ProvisionInv'
<1>1. PICK k \in {"addr", "policy"} :
        LET from == IF k = "addr" THEN "setAddr" ELSE "setText"
            to == IF k = "addr" THEN "addrSent" ELSE "textSent"
            value == IF k = "addr" THEN run.key ELSE run.policy
        IN Send(from, to, k, value)
  BY DEF SendSetAddr, SendSetText
<1> DEFINE from == IF k = "addr" THEN "setAddr" ELSE "setText"
           to == IF k = "addr" THEN "addrSent" ELSE "textSent"
           value == IF k = "addr" THEN run.key ELSE run.policy
           tx == [name |-> run.name, from |-> My.keystore, kind |-> k, value |-> value]
<1>2. /\ run.pc = from /\ UNCHANGED <<files, chain, made, failures, moves>>
      /\ \/ Goto(from, "failed") /\ UNCHANGED pending
         \/ /\ chain.ens[run.name].owner = My.keystore /\ Goto(from, to)
            /\ pending' = Append(pending, tx)
  BY <1>1 DEF Send, Bounds
<1>3. run.pc # "none" BY <1>2
<1>4. run.name \in Names /\ run \in RunRec(made) /\ My \in FileRec(made) BY <1>3, UnderWay
<1>5. CASE Goto(from, "failed") /\ UNCHANGED pending
  <2>1. OnlyRun BY <1>2, <1>5 DEF OnlyRun, Bounds
  <2>2. run' \in RunRec(made) /\ run'.pc = "failed" /\ run'.name = run.name
    BY <1>4, <1>5, Went DEF Stages, Over
  <2>3. DiskInv(run') /\ SentInv(run') BY <1>4, <2>2, IdleRun
  <2> QED BY <2>1, <2>2, <2>3, RunOnly
<1>6. CASE /\ chain.ens[run.name].owner = My.keystore /\ Goto(from, to)
           /\ pending' = Append(pending, tx)
  <2>1. to \in Stages BY DEF Stages
  <2>2. /\ run' \in RunRec(made) /\ run'.pc = to /\ run'.name = run.name /\ run'.dry = run.dry
        /\ run'.key = run.key /\ run'.policy = run.policy /\ run'.router = run.router
    BY <1>4, <1>6, <2>1, Went
  <2>3. ~run.dry /\ Owned(run) BY <1>2 DEF ProvisionInv, RunInv, DiskInv, AfterPhase1
  <2>4. run.key # NoKey /\ My.keystore = run.key /\ Shown(run.name) = run.key
    BY <2>3 DEF Owned, My, Shown
  <2>5. made \in 0..MaxKeys /\ run.key \in 0..made /\ run.policy \in AnyPolicy
    BY <1>4 DEF ProvisionInv, SharedInv, RunRec
  <2>6. run.key \in Keys /\ run.key \in Nat
    BY <2>4, <2>5 DEF Keys, NoKey, ProvisionInputsTyped
  <2>7. tx \in Tx BY <1>4, <2>4, <2>5, <2>6 DEF Tx
  <2>8. /\ tx.name = run.name /\ tx.from = run.key /\ tx.kind = k
        /\ k = "addr" => tx.value = run.key
        /\ k = "policy" => tx.value = run.policy
    BY <2>4
  <2> HIDE DEF tx
  <2>9. pending \in Seq(Tx) BY DEF ProvisionInv, SharedInv
  <2>10. /\ pending' \in Seq(Tx) /\ Len(pending') = Len(pending) + 1
         /\ pending'[Len(pending')] = tx /\ pending' # <<>>
         /\ \A i \in 1..Len(pending) : pending'[i] = pending[i]
    BY <1>6, <2>7, <2>9
  <2>11. \A i \in 1..Len(pending') : i \in 1..Len(pending) \/ pending'[i] = tx
    BY <2>9, <2>10
  <2>12. TxInv BY DEF ProvisionInv, SharedInv
  <2>13. \A n \in Names : Shown(n)' = Shown(n) BY <1>2 DEF Shown
  <2>14. \A i \in 1..Len(pending') : pending'[i].name \in Names
    BY <2>10 DEF Tx
  <2>15. ASSUME NEW i \in 1..Len(pending')
         PROVE  /\ pending'[i].from = Shown(pending'[i].name)
                /\ pending'[i].kind = "addr" => pending'[i].value = Shown(pending'[i].name)
    <3>1. CASE i \in 1..Len(pending) BY <2>10, <2>12, <3>1 DEF TxInv
    <3>2. CASE pending'[i] = tx BY <2>4, <2>8, <3>2
    <3> QED BY <2>11, <3>1, <3>2
  <2>16. ASSUME moves = 0, NEW i \in 1..Len(pending')
         PROVE  chain.ens[pending'[i].name].owner = pending'[i].from
    <3>1. CASE i \in 1..Len(pending) BY <2>10, <2>12, <2>16, <3>1 DEF TxInv
    <3>2. CASE pending'[i] = tx BY <1>6, <2>4, <2>8, <3>2
    <3> QED BY <2>11, <3>1, <3>2
  <2>17. TxInv' BY <1>2, <2>12, <2>13, <2>14, <2>15, <2>16 DEF TxInv
  <2>18. FundedInv' BY <1>2 DEF ProvisionInv, SharedInv, FundedInv
  <2>19. SharedInv' BY <1>2, <2>10, <2>17, <2>18 DEF ProvisionInv, SharedInv
  <2>20. Owned(run)' BY <1>2, <2>2, <2>3 DEF Owned
  <2>21. run'.pc \in {"addrSent", "textSent"} BY <2>2
  <2>22. DiskInv(run)' BY <1>4, <2>2, <2>3, <2>20, <2>21 DEF DiskInv
  <2>23. k = "addr" => LastIs(run, "addr", run.key)' BY <2>2, <2>8, <2>10 DEF LastIs
  <2>24. k # "addr" => LastIs(run, "policy", run.policy)' BY <2>2, <2>8, <2>10 DEF LastIs
  <2>25. k # "addr" /\ moves = 0 => OnChain(run).addr = run.key
    BY <1>2, <2>3 DEF ProvisionInv, RunInv, SentInv
  <2>26. SentInv(run)' BY <1>2, <2>2, <2>10, <2>23, <2>24, <2>25 DEF SentInv, OnChain
  <2> QED BY <1>2, <2>2, <2>19, <2>22, <2>26 DEF ProvisionInv, RunInv, RunRec
<1> QED BY <1>2, <1>5, <1>6

\* A step that writes other files than the owner's.
LEMMA SameOwners ==
  ASSUME SharedInv, files' \in [Slugs -> FileRec(made)],
         \A t \in Slugs : files'[t].keystore = files[t].keystore /\ files'[t].pub = files[t].pub,
         UNCHANGED <<chain, pending, made, failures, moves>>
  PROVE  SharedInv' /\ \A n \in Names : Shown(n)' = Shown(n)
<1>1. \A t \in Slugs : files'[t].pub \in {NoKey, files'[t].keystore} BY DEF SharedInv
<1>2. FundedInv' BY DEF SharedInv, FundedInv
<1>3. \A n \in Names : SlugOf(n) \in Slugs BY DEF Slugs
<1>4. \A n \in Names : Shown(n)' = Shown(n) BY <1>3 DEF Shown
<1>5. \A i \in 1..Len(pending) : pending[i].name \in Names BY DEF SharedInv, Tx
<1>6. TxInv' BY <1>4, <1>5 DEF SharedInv, TxInv
<1> QED BY <1>1, <1>2, <1>4, <1>6 DEF SharedInv

LEMMA IssueSessionKeyInv ==
  ASSUME ProvisionInputsTyped, ProvisionInv, IssueSessionKey PROVE ProvisionInv'
<1> DEFINE s == SlugOf(run.name)
           new == [key |-> run.key, router |-> run.router, valid |-> TRUE]
           f == [My EXCEPT !.session = new]
<1>1. /\ run.pc = "phase4" /\ ~run.dry /\ UNCHANGED <<chain, pending, made, failures, moves>>
      /\ \/ Goto("phase4", "failed") /\ UNCHANGED files
         \/ Goto("phase4", "phase5") /\ files' = [files EXCEPT ![s] = f]
  BY DEF IssueSessionKey, SaveFiles, Bounds
<1>2. /\ run.name \in Names /\ run \in RunRec(made) /\ s \in Slugs
      /\ My \in FileRec(made)
  BY <1>1, UnderWay
<1>3. CASE Goto("phase4", "failed") /\ UNCHANGED files
  <2>1. OnlyRun BY <1>1, <1>3 DEF OnlyRun, Bounds
  <2>2. run' \in RunRec(made) /\ run'.pc = "failed" /\ run'.name = run.name
    BY <1>2, <1>3, Went DEF Stages, Over
  <2>3. DiskInv(run') /\ SentInv(run') BY <1>2, <2>2, IdleRun
  <2> QED BY <2>1, <2>2, <2>3, RunOnly
<1>4. CASE Goto("phase4", "phase5") /\ files' = [files EXCEPT ![s] = f]
  <2>1. /\ f \in FileRec(made) /\ f.keystore = My.keystore /\ f.pub = My.pub
        /\ f.session.key = run.key /\ f.session.router = run.router /\ My = files[s]
    BY <1>2 DEF FileRec, RunRec, My
  <2> HIDE DEF f
  <2>2. files \in [Slugs -> FileRec(made)] /\ SharedInv BY DEF ProvisionInv, SharedInv
  <2>3. files' \in [Slugs -> FileRec(made)] /\ files'[s] = f /\ \A t \in Slugs \ {s} : files'[t] = files[t]
    BY <1>2, <1>4, <2>1, <2>2
  <2>4. \A t \in Slugs : files'[t].keystore = files[t].keystore /\ files'[t].pub = files[t].pub
    BY <2>1, <2>3
  <2>5. SharedInv' BY <1>1, <2>2, <2>3, <2>4, SameOwners
  <2>6. /\ run' \in RunRec(made) /\ run'.pc = "phase5" /\ run'.name = run.name /\ run'.dry = run.dry
        /\ run'.key = run.key /\ run'.policy = run.policy /\ run'.router = run.router
    BY <1>2, <1>4, Went DEF Stages, Over
  <2>7. Owned(run) BY <1>1 DEF ProvisionInv, RunInv, DiskInv, AfterPhase1
  <2>8. Owned(run)' BY <1>2, <2>4, <2>6, <2>7 DEF Owned
  <2>9. DiskInv(run)' BY <1>2, <2>1, <2>3, <2>6, <2>8 DEF DiskInv
  <2>10. pending = <<>> /\ (moves = 0 => OnChain(run).policy = run.policy)
    BY <1>1 DEF ProvisionInv, RunInv, SentInv
  <2>11. moves = 0 => OnChain(run).addr = run.key
    BY <1>1 DEF ProvisionInv, RunInv, SentInv
  <2>12. SentInv(run)' BY <1>1, <2>6, <2>10, <2>11 DEF SentInv, OnChain
  <2> QED BY <1>1, <2>5, <2>6, <2>9, <2>12 DEF ProvisionInv, RunInv, RunRec
<1> QED BY <1>1, <1>3, <1>4

LEMMA WriteIdentityInv ==
  ASSUME ProvisionInputsTyped, ProvisionInv, WriteIdentityRecord PROVE ProvisionInv'
<1> DEFINE s == SlugOf(run.name)
           id == [name |-> run.name, key |-> run.key, policy |-> run.policy, router |-> run.router]
           f == [My EXCEPT !.identity = id]
<1>1. /\ Goto("phase5", "done") /\ run.pc = "phase5" /\ UNCHANGED <<chain, pending, made, failures, moves>>
      /\ IF run.dry THEN UNCHANGED files ELSE files' = [files EXCEPT ![s] = f]
  BY DEF WriteIdentityRecord, SaveFiles, Bounds, Goto
<1>2. /\ run.name \in Names /\ run \in RunRec(made) /\ s \in Slugs
      /\ My \in FileRec(made)
  BY <1>1, UnderWay
<1>3. /\ run' \in RunRec(made) /\ run'.pc = "done" /\ run'.name = run.name /\ run'.dry = run.dry
      /\ run'.key = run.key /\ run'.policy = run.policy /\ run'.router = run.router
  BY <1>1, <1>2, Went DEF Stages, Over
<1>4. CASE run.dry
  <2>1. OnlyRun BY <1>1, <1>4 DEF OnlyRun, Bounds
  <2>2. DiskInv(run') BY <1>2, <1>3, <1>4 DEF DiskInv
  <2>3. SentInv(run') BY <1>3, <1>4 DEF SentInv
  <2> QED BY <1>3, <2>1, <2>2, <2>3, RunOnly
<1>5. CASE ~run.dry
  <2>1. /\ f \in FileRec(made) /\ f.keystore = My.keystore /\ f.pub = My.pub
        /\ f.session = My.session /\ f.identity = id /\ My = files[s]
    BY <1>2 DEF FileRec, RunRec, My
  <2> HIDE DEF f
  <2>2. files \in [Slugs -> FileRec(made)] /\ SharedInv BY DEF ProvisionInv, SharedInv
  <2>3. files' \in [Slugs -> FileRec(made)] /\ files'[s] = f /\ \A t \in Slugs \ {s} : files'[t] = files[t]
    BY <1>1, <1>2, <1>5, <2>1, <2>2
  <2>4. \A t \in Slugs : files'[t].keystore = files[t].keystore /\ files'[t].pub = files[t].pub
    BY <2>1, <2>3
  <2>5. SharedInv' BY <1>1, <2>2, <2>3, <2>4, SameOwners
  <2>6. Owned(run) /\ My.session.key = run.key /\ My.session.router = run.router
    BY <1>1, <1>5, <2>1 DEF ProvisionInv, RunInv, DiskInv, AfterPhase1
  <2>7. Owned(run)' BY <1>2, <1>3, <2>4, <2>6 DEF Owned
  <2>8. DiskInv(run)' BY <1>2, <1>3, <2>1, <2>3, <2>6, <2>7 DEF DiskInv
  <2>10. pending = <<>> /\ (moves = 0 => OnChain(run).policy = run.policy)
    BY <1>1, <1>5 DEF ProvisionInv, RunInv, SentInv
  <2>11. moves = 0 => OnChain(run).addr = run.key
    BY <1>1, <1>5 DEF ProvisionInv, RunInv, SentInv
  <2>12. SentInv(run)' BY <1>1, <1>3, <2>10, <2>11 DEF SentInv, OnChain
  <2> QED BY <1>1, <1>3, <2>5, <2>8, <2>12 DEF ProvisionInv, RunInv, RunRec
<1> QED BY <1>4, <1>5

LEMMA ExpireInv ==
  ASSUME ProvisionInputsTyped, ProvisionInv, Expire PROVE ProvisionInv'
<1>1. PICK s \in Slugs : files' = [files EXCEPT ![s].session.valid = FALSE]
  BY DEF Expire
<1>2. UNCHANGED <<chain, pending, run, made, failures, moves>> BY DEF Expire, Bounds
<1>3. files \in [Slugs -> FileRec(made)] /\ SharedInv /\ run \in RunRec(made)
  BY DEF ProvisionInv, SharedInv, RunInv
<1>4. files' \in [Slugs -> FileRec(made)] BY <1>1, <1>3 DEF FileRec
<1>5. \A t \in Slugs : /\ files'[t].keystore = files[t].keystore /\ files'[t].pub = files[t].pub
                       /\ files'[t].session.key = files[t].session.key
                       /\ files'[t].session.router = files[t].session.router
                       /\ files'[t].identity = files[t].identity
  BY <1>1, <1>3 DEF FileRec
<1>6. SharedInv' BY <1>2, <1>3, <1>4, <1>5, SameOwners
<1>7. run.pc # "none" => SlugOf(run.name) \in Slugs BY UnderWay
<1>8. Owned(run) /\ run.pc # "none" => Owned(run)' BY <1>2, <1>5, <1>7 DEF Owned
<1>9. DiskInv(run)' BY <1>2, <1>5, <1>7, <1>8 DEF ProvisionInv, RunInv, DiskInv, AfterPhase1
<1>10. SentInv(run)' BY <1>2 DEF ProvisionInv, RunInv, SentInv, LastIs, OnChain
<1> QED BY <1>2, <1>3, <1>6, <1>9, <1>10 DEF ProvisionInv, RunInv, RunRec

\* Nothing was shown of a half-written pair, so nothing hangs on it.
LEMMA DeletePartialInv ==
  ASSUME ProvisionInputsTyped, ProvisionInv, DeletePartial PROVE ProvisionInv'
<1> DEFINE s == SlugOf(run.name)  f == [My EXCEPT !.keystore = NoKey, !.pub = NoKey]
<1>1. /\ run.pc = "refused" /\ files' = [files EXCEPT ![s] = f]
      /\ run' = NoRun /\ UNCHANGED <<chain, pending, made, failures, moves>>
  BY DEF DeletePartial, SaveFiles, Bounds
<1>2. /\ run.name \in Names /\ run \in RunRec(made) /\ s \in Slugs
      /\ My \in FileRec(made)
  BY <1>1, UnderWay
<1>3. My.pub = NoKey /\ My = files[s] BY <1>1 DEF ProvisionInv, RunInv, DiskInv, My
<1>4. made \in Nat BY DEF ProvisionInv, SharedInv
<1>5. f \in FileRec(made) /\ f.keystore = NoKey /\ f.pub = NoKey
  BY <1>2, <1>3, <1>4 DEF FileRec, NoKey
<1> HIDE DEF f
<1>6. files \in [Slugs -> FileRec(made)] BY DEF ProvisionInv, SharedInv
<1>7. files' \in [Slugs -> FileRec(made)] /\ files'[s] = f /\ \A t \in Slugs \ {s} : files'[t] = files[t]
  BY <1>1, <1>2, <1>5, <1>6
<1>8. \A t \in Slugs : files'[t].pub = files[t].pub BY <1>3, <1>5, <1>7
<1>9. \A t \in Slugs : files'[t].pub \in {NoKey, files'[t].keystore}
  BY <1>5, <1>7 DEF ProvisionInv, SharedInv
<1>10. FundedInv'
  <2> SUFFICES ASSUME NEW k \in chain.kernelFunded \cup chain.ownerFunded
               PROVE  \E t \in Slugs : files'[t].keystore = k /\ files'[t].pub = k
    BY <1>1 DEF FundedInv
  <2>1. PICK t \in Slugs : files[t].keystore = k /\ files[t].pub = k
    BY DEF ProvisionInv, SharedInv, FundedInv
  <2>2. k # NoKey BY DEF ProvisionInv, SharedInv, ChainRec, NoKey
  <2>3. t # s BY <1>3, <2>1, <2>2
  <2> QED BY <1>7, <2>1, <2>3
<1>11. \A n \in Names : SlugOf(n) \in Slugs BY DEF Slugs
<1>12. \A n \in Names : Shown(n)' = Shown(n) BY <1>8, <1>11 DEF Shown
<1>13. \A i \in 1..Len(pending) : pending[i].name \in Names BY DEF ProvisionInv, SharedInv, Tx
<1>14. TxInv' BY <1>1, <1>12, <1>13 DEF ProvisionInv, SharedInv, TxInv
<1>15. SharedInv' BY <1>1, <1>7, <1>9, <1>10, <1>14 DEF ProvisionInv, SharedInv
<1>16. run' \in RunRec(made) /\ run'.pc = "none"
  BY <1>1, <1>4 DEF RunRec, NoRun, Stages, Over, AnyPolicy, AnyRouter, NoKey
<1>17. DiskInv(run)' BY <1>16 DEF DiskInv, AfterPhase1
<1>18. SentInv(run)' BY <1>16 DEF SentInv
<1> QED BY <1>1, <1>15, <1>16, <1>17, <1>18 DEF ProvisionInv, RunInv, RunRec

-----------------------------------------------------------------------------
\* What the chain and the operator do.
LEMMA ReassignInv ==
  ASSUME ProvisionInputsTyped, ProvisionInv, Reassign PROVE ProvisionInv'
<1>1. PICK n \in Names : chain' = [chain EXCEPT !.ens[n].owner = NoKey]
  BY DEF Reassign
<1>2. moves' = moves + 1 /\ UNCHANGED <<files, pending, run, made, failures>> BY DEF Reassign
<1>3. moves \in Nat /\ chain \in ChainRec(made) /\ run \in RunRec(made)
  BY DEF ProvisionInv, SharedInv, RunInv
<1>4. moves' \in Nat /\ moves' # 0 BY <1>2, <1>3
<1>5. chain' \in ChainRec(made) /\ chain'.kernelFunded = chain.kernelFunded
      /\ chain'.ownerFunded = chain.ownerFunded
  BY <1>1, <1>3 DEF ChainRec, Entry, NoKey
<1>6. FundedInv' BY <1>2, <1>5 DEF ProvisionInv, SharedInv, FundedInv
<1>7. TxInv' BY <1>2, <1>4 DEF ProvisionInv, SharedInv, TxInv, Shown
<1>8. SharedInv' BY <1>2, <1>4, <1>5, <1>6, <1>7 DEF ProvisionInv, SharedInv
<1>9. DiskInv(run)' BY <1>2 DEF ProvisionInv, RunInv, DiskInv, Owned
<1>10. SentInv(run)' BY <1>2, <1>4 DEF ProvisionInv, RunInv, SentInv, LastIs
<1> QED BY <1>2, <1>3, <1>8, <1>9, <1>10 DEF ProvisionInv, RunInv, RunRec

\* The operator funds an address that was shown, registers the name for it, or gives the
\* name a resolver; addr and policy stay what they are.
LEMMA OperatorInv ==
  ASSUME ProvisionInputsTyped, ProvisionInv, NEW n \in Names, Operator(n) PROVE ProvisionInv'
<1>1. Shown(n) # NoKey /\ UNCHANGED <<files, pending, run, made, failures, moves>>
  BY DEF Operator, Bounds
<1>2. chain \in ChainRec(made) /\ run \in RunRec(made) /\ files \in [Slugs -> FileRec(made)]
      /\ TxInv /\ FundedInv /\ made \in Nat
  BY DEF ProvisionInv, SharedInv, RunInv
<1>3. SlugOf(n) \in Slugs /\ files[SlugOf(n)].keystore = Shown(n) /\ files[SlugOf(n)].pub = Shown(n)
  BY <1>1, MyFiles DEF Shown, ProvisionInv
<1>4. Shown(n) \in 1..made /\ Shown(n) \in Nat
  BY <1>1, <1>2, <1>3 DEF FileRec, NoKey
<1>5. /\ chain' \in ChainRec(made)
      /\ chain'.kernelFunded \subseteq chain.kernelFunded \cup {Shown(n)}
      /\ chain'.ownerFunded \subseteq chain.ownerFunded \cup {Shown(n)}
      /\ \A m \in Names : /\ chain'.ens[m].addr = chain.ens[m].addr
                          /\ chain'.ens[m].policy = chain.ens[m].policy
                          /\ \/ chain'.ens[m].owner = chain.ens[m].owner
                             \/ m = n /\ chain'.ens[m].owner = Shown(n) /\ chain.ens[n].owner # Shown(n)
  <2>1. CASE chain' = [chain EXCEPT !.kernelFunded = @ \cup {Shown(n)}]
    BY <1>2, <1>4, <2>1 DEF ChainRec
  <2>2. CASE chain' = [chain EXCEPT !.ownerFunded = @ \cup {Shown(n)}]
    BY <1>2, <1>4, <2>2 DEF ChainRec
  <2>3. CASE chain' = [chain EXCEPT !.ens[n].resolver = TRUE]
    BY <1>2, <1>4, <2>3 DEF ChainRec, Entry
  <2>4. CASE \E resolver \in BOOLEAN :
               /\ chain.ens[n].owner # Shown(n)
               /\ chain' = [chain EXCEPT !.ens[n].owner = Shown(n), !.ens[n].resolver = resolver]
    <3>1. PICK resolver \in BOOLEAN :
            chain' = [chain EXCEPT !.ens[n].owner = Shown(n), !.ens[n].resolver = resolver]
      BY <2>4
    <3>2. chain'.kernelFunded = chain.kernelFunded /\ chain'.ownerFunded = chain.ownerFunded
      BY <1>2, <3>1 DEF ChainRec
    <3>3. chain.ens \in [Names -> Entry] BY <1>2 DEF ChainRec
    <3> DEFINE e == [owner |-> Shown(n), resolver |-> resolver, addr |-> chain.ens[n].addr,
                     policy |-> chain.ens[n].policy]
    <3>4. chain'.ens = [chain.ens EXCEPT ![n] = e]
      BY <1>2, <3>1, <3>3 DEF ChainRec, Entry
    <3>5. e \in Entry /\ e.owner = Shown(n) /\ e.addr = chain.ens[n].addr /\ e.policy = chain.ens[n].policy
      BY <1>4, <3>3 DEF Entry
    <3> HIDE DEF e
    <3>6. chain'.ens \in [Names -> Entry] BY <3>3, <3>4, <3>5
    <3>7. chain' \in ChainRec(made) BY <1>2, <3>1, <3>6 DEF ChainRec
    <3> QED BY <2>4, <3>2, <3>3, <3>4, <3>5, <3>7
  <2> QED BY <2>1, <2>2, <2>3, <2>4 DEF Operator
<1>6. FundedInv' BY <1>1, <1>2, <1>3, <1>5 DEF FundedInv
<1>7. \A i \in 1..Len(pending) : pending[i].name \in Names BY DEF ProvisionInv, SharedInv, Tx
<1>8. TxInv'
  <2>1. \A m \in Names : Shown(m)' = Shown(m) BY <1>1 DEF Shown
  <2>2. \A i \in 1..Len(pending) :
          /\ pending[i].from = Shown(pending[i].name)
          /\ pending[i].kind = "addr" => pending[i].value = Shown(pending[i].name)
    BY <1>2 DEF TxInv
  <2>3. moves = 0 => \A m \in Names : chain'.ens[m].owner \in {NoKey, Shown(m)}
    BY <1>2, <1>5 DEF TxInv
  <2>4. ASSUME moves = 0, NEW i \in 1..Len(pending)
        PROVE  chain'.ens[pending[i].name].owner = pending[i].from
    BY <1>2, <1>5, <1>7, <2>2, <2>4 DEF TxInv
  <2> QED BY <1>1, <1>7, <2>1, <2>2, <2>3, <2>4 DEF TxInv
<1>9. SharedInv' BY <1>1, <1>5, <1>6, <1>8 DEF ProvisionInv, SharedInv
<1>10. DiskInv(run)' BY <1>1 DEF ProvisionInv, RunInv, DiskInv, Owned
<1>11. run.pc # "none" => run.name \in Names BY DEF ProvisionInv, RunInv, DiskInv
<1>12. run.pc # "none" => OnChain(run)'.addr = OnChain(run).addr /\ OnChain(run)'.policy = OnChain(run).policy
  BY <1>1, <1>5, <1>11 DEF OnChain
<1>13. SentInv(run)' BY <1>1, <1>12 DEF ProvisionInv, RunInv, SentInv, LastIs
<1> QED BY <1>1, <1>2, <1>9, <1>10, <1>13 DEF ProvisionInv, RunInv, RunRec

\* The first transaction is mined.
LEMMA MineInv ==
  ASSUME ProvisionInputsTyped, ProvisionInv, Mine PROVE ProvisionInv'
<1> DEFINE tx == Head(pending)
<1>1. /\ pending # <<>> /\ pending' = Tail(pending) /\ chain' = Apply(tx)
      /\ UNCHANGED <<files, run, made, failures, moves>>
  BY DEF Mine, Bounds
<1>2. /\ chain \in ChainRec(made) /\ run \in RunRec(made) /\ pending \in Seq(Tx)
      /\ TxInv /\ FundedInv /\ made \in Nat
  BY DEF ProvisionInv, SharedInv, RunInv
<1>3. tx = pending[1] /\ tx \in Tx /\ 1 \in 1..Len(pending) BY <1>1, <1>2
<1>4. /\ pending' \in Seq(Tx) /\ Len(pending') = Len(pending) - 1
      /\ \A i \in 1..Len(pending') : i + 1 \in 1..Len(pending) /\ pending'[i] = pending[i + 1]
      /\ pending' # <<>> => pending'[Len(pending')] = pending[Len(pending)]
      /\ pending' = <<>> => pending[Len(pending)] = tx
  <2>1. pending' \in Seq(Tx) /\ Len(pending') = Len(pending) - 1 BY <1>1, <1>2
  <2>2. \A i \in 1..Len(pending') : i + 1 \in 1..Len(pending) /\ pending'[i] = pending[i + 1]
    BY <1>1, <1>2
  <2>3. Len(pending) \in Nat /\ Len(pending') \in Nat BY <1>2, <2>1
  <2>4. ASSUME pending' # <<>> PROVE pending'[Len(pending')] = pending[Len(pending)]
    <3>1. Len(pending') # 0 BY <2>1, <2>4, EmptySeq
    <3>2. Len(pending') \in 1..Len(pending') BY <2>3, <3>1
    <3>3. Len(pending') + 1 = Len(pending) BY <2>1, <2>3
    <3> QED BY <2>2, <3>2, <3>3
  <2>5. ASSUME pending' = <<>> PROVE pending[Len(pending)] = tx
    <3>1. Len(pending) = 1 BY <2>1, <2>3, <2>5
    <3> QED BY <1>3, <3>1
  <2> QED BY <2>1, <2>2, <2>4, <2>5
<1>5. /\ tx.name \in Names /\ tx.from = Shown(tx.name)
      /\ tx.kind = "addr" => tx.value = Shown(tx.name) /\ tx.value \in Nat
      /\ tx.kind # "addr" => tx.value \in AnyPolicy
      /\ moves = 0 => chain.ens[tx.name].owner = tx.from
  BY <1>2, <1>3 DEF TxInv, Tx
<1> HIDE DEF tx
<1>6. /\ chain' \in ChainRec(made)
      /\ chain'.kernelFunded = chain.kernelFunded /\ chain'.ownerFunded = chain.ownerFunded
      /\ \A n \in Names : /\ chain'.ens[n].owner = chain.ens[n].owner
                          /\ n # tx.name => chain'.ens[n] = chain.ens[n]
      /\ tx.kind = "addr" => chain'.ens[tx.name].policy = chain.ens[tx.name].policy
      /\ tx.kind # "addr" => chain'.ens[tx.name].addr = chain.ens[tx.name].addr
      /\ moves = 0 => IF tx.kind = "addr" THEN chain'.ens[tx.name].addr = tx.value
                                          ELSE chain'.ens[tx.name].policy = tx.value
  <2>1. CASE chain.ens[tx.name].owner # tx.from
    <3>1. chain' = chain /\ moves # 0 BY <1>1, <1>5, <2>1 DEF Apply
    <3> QED BY <1>2, <3>1
  <2>2. CASE chain.ens[tx.name].owner = tx.from /\ tx.kind = "addr"
    <3>1. chain' = [chain EXCEPT !.ens[tx.name].addr = tx.value] BY <1>1, <2>2 DEF Apply
    <3> QED BY <1>2, <1>5, <2>2, <3>1 DEF ChainRec, Entry
  <2>3. CASE chain.ens[tx.name].owner = tx.from /\ tx.kind # "addr"
    <3>1. chain' = [chain EXCEPT !.ens[tx.name].policy = tx.value] BY <1>1, <2>3 DEF Apply
    <3> QED BY <1>2, <1>5, <2>3, <3>1 DEF ChainRec, Entry
  <2> QED BY <2>1, <2>2, <2>3
<1>7. FundedInv' BY <1>1, <1>2, <1>6 DEF FundedInv
<1>8. \A n \in Names : Shown(n)' = Shown(n) BY <1>1 DEF Shown
<1>9. \A i \in 1..Len(pending') : pending'[i].name \in Names BY <1>4 DEF Tx
<1>10. TxInv'
  <2>1. \A i \in 1..Len(pending') :
          /\ pending'[i].from = Shown(pending'[i].name)
          /\ pending'[i].kind = "addr" => pending'[i].value = Shown(pending'[i].name)
    BY <1>2, <1>4 DEF TxInv
  <2>2. moves = 0 => \A n \in Names : chain'.ens[n].owner \in {NoKey, Shown(n)}
    BY <1>2, <1>6 DEF TxInv
  <2>3. moves = 0 => \A i \in 1..Len(pending') : chain'.ens[pending'[i].name].owner = pending'[i].from
    BY <1>2, <1>4, <1>6, <1>9 DEF TxInv
  <2> QED BY <1>1, <1>8, <1>9, <2>1, <2>2, <2>3 DEF TxInv
<1>11. SharedInv' BY <1>1, <1>4, <1>6, <1>7, <1>10 DEF ProvisionInv, SharedInv
<1>12. DiskInv(run)' BY <1>1 DEF ProvisionInv, RunInv, DiskInv, Owned
<1>13. run.pc # "none" => run.name \in Names BY DEF ProvisionInv, RunInv, DiskInv
<1>14. SentInv(run) BY DEF ProvisionInv, RunInv
<1>15. run.pc = "addrSent" =>
         LastIs(run, "addr", run.key)' /\ (pending' = <<>> /\ moves = 0 => OnChain(run)'.addr = run.key)
  BY <1>1, <1>4, <1>6, <1>14 DEF SentInv, LastIs, OnChain
<1>16. run.pc = "textSent" =>
         LastIs(run, "policy", run.policy)' /\ (pending' = <<>> /\ moves = 0 => OnChain(run)'.policy = run.policy)
  BY <1>1, <1>4, <1>6, <1>14 DEF SentInv, LastIs, OnChain
<1>17. ASSUME run.pc \in {"setText", "textSent", "phase4", "phase5", "done"}, ~run.dry, moves = 0
       PROVE  OnChain(run)'.addr = run.key
  <2>1. OnChain(run).addr = run.key BY <1>14, <1>17 DEF SentInv
  <2>2. Owned(run) BY <1>17 DEF ProvisionInv, RunInv, DiskInv, AfterPhase1
  <2>3. Shown(run.name) = run.key BY <2>2 DEF Owned, Shown
  <2> QED BY <1>1, <1>5, <1>6, <1>13, <1>17, <2>1, <2>3 DEF OnChain
<1>18. run.pc \in {"phase4", "phase5", "done"} => run.dry
  BY <1>1, <1>14 DEF SentInv
<1>19. SentInv(run)' BY <1>1, <1>15, <1>16, <1>17, <1>18 DEF SentInv, OnChain
<1> QED BY <1>1, <1>2, <1>11, <1>12, <1>19 DEF ProvisionInv, RunInv, RunRec

-----------------------------------------------------------------------------
LEMMA ProvisionStarts == ProvisionInputsTyped /\ ProvisionInit => ProvisionInv
<1> SUFFICES ASSUME ProvisionInputsTyped, ProvisionInit PROVE ProvisionInv OBVIOUS
<1>1. NoFiles \in FileRec(0) /\ NoFiles.pub = NoKey
  BY DEF NoFiles, FileRec, NoKey, AnyRouter, AnyPolicy
<1>2. files \in [Slugs -> FileRec(made)] /\ \A s \in Slugs : files[s].pub = NoKey
  BY <1>1 DEF ProvisionInit
<1>3. chain \in ChainRec(made) BY DEF ProvisionInit, ChainRec, Entry, NoKey, AnyPolicy
<1>4. pending \in Seq(Tx) /\ Len(pending) = 0 BY DEF ProvisionInit
<1>5. FundedInv BY DEF ProvisionInit, FundedInv
<1>6. TxInv BY <1>4 DEF ProvisionInit, TxInv
<1>7. SharedInv BY <1>2, <1>3, <1>4, <1>5, <1>6 DEF ProvisionInit, SharedInv, ProvisionInputsTyped
<1>8. run \in RunRec(made) /\ run.pc = "none"
  BY DEF ProvisionInit, RunRec, NoRun, Stages, Over, AnyPolicy, AnyRouter, NoKey
<1>9. DiskInv(run) /\ SentInv(run) BY <1>8, IdleRun
<1> QED BY <1>7, <1>8, <1>9 DEF ProvisionInv, RunInv

LEMMA ProvisionGoesOn ==
  ProvisionInputsTyped /\ ProvisionInv /\ [ProvisionNext]_provisionVars => ProvisionInv'
<1> SUFFICES ASSUME ProvisionInputsTyped, ProvisionInv, [ProvisionNext]_provisionVars
             PROVE  ProvisionInv'
  OBVIOUS
<1>1. CASE Script
  BY <1>1, ReuseInv, RefuseInv, NewOwnerInv, WriteKeystoreInv, WritePubInv, VerifyInv, CheckAddrInv,
     SendInv, ReceiptInv, KeepSessionKeyInv, IssueSessionKeyInv, WriteIdentityInv DEF Script
<1>2. CASE Fail \/ Mine \/ DeletePartial \/ Reassign \/ Expire
  BY <1>2, FailInv, MineInv, DeletePartialInv, ReassignInv, ExpireInv
<1>3. CASE \E n \in Names : Operator(n) BY <1>3, OperatorInv
<1>4. CASE \E n \in Names, force, dry \in BOOLEAN, p \in Policies, r \in Routers \cup {Nobody} :
             Start(n, force, dry, p, r)
  BY <1>4, BeginInv DEF AnyRouter
<1>5. CASE UNCHANGED provisionVars
  <2>1. UNCHANGED <<files, chain, pending, run, made, failures, moves>> BY <1>5 DEF provisionVars
  <2>2. OnlyRun /\ run' = run BY <2>1 DEF OnlyRun, Bounds
  <2>3. run' \in RunRec(made) /\ DiskInv(run') /\ SentInv(run') BY <2>2 DEF ProvisionInv, RunInv
  <2> QED BY <2>2, <2>3, RunOnly
<1> QED BY <1>1, <1>2, <1>3, <1>4, <1>5 DEF ProvisionNext

LEMMA ProvisionInvariant == ProvisionSpec => []ProvisionInv
<1>1. ProvisionInit => ProvisionInv BY ProvisionStarts, ProvisionAssumption
<1>2. ProvisionInv /\ [ProvisionNext]_provisionVars => ProvisionInv'
  BY ProvisionGoesOn, ProvisionAssumption
<1> QED BY <1>1, <1>2, PTL DEF ProvisionSpec

LEMMA ProvisionTypes == ProvisionInv => ProvisionTypeOK
<1> SUFFICES ASSUME ProvisionInv PROVE ProvisionTypeOK OBVIOUS
<1>1. ASSUME NEW s \in Slugs
      PROVE  LET f == files[s] IN
             /\ f.keystore \in 0..made /\ f.pub \in {NoKey, f.keystore}
             /\ f.session.key \in 0..made /\ f.session.router \in Routers \cup {Nobody}
             /\ f.identity.key \in 0..made /\ f.identity.name \in Names \cup {Nobody}
  <2>1. files[s] \in FileRec(made) BY DEF ProvisionInv, SharedInv
  <2> QED BY <2>1 DEF ProvisionInv, SharedInv, FileRec, AnyRouter
<1>2. run.key \in 0..made /\ run.name \in Names \cup {Nobody}
  BY DEF ProvisionInv, RunInv, RunRec
<1>3. chain.kernelFunded \cup chain.ownerFunded \subseteq 1..made
  BY DEF ProvisionInv, SharedInv, ChainRec
<1>4. \A i \in 1..Len(pending) : pending[i].from \in Keys
  BY DEF ProvisionInv, SharedInv, Tx
<1> QED BY <1>1, <1>2, <1>3, <1>4 DEF ProvisionTypeOK

(* The files, the funds and what waits to be mined are those of keys that   *)
(* the script made (provision-daemon.ts:345-425).                           *)
THEOREM ProvisionTyped == ProvisionSpec => []ProvisionTypeOK
  BY ProvisionTypes, ProvisionInvariant, PTL

(* Wherever the script dies and however often it is started again: no funds *)
(* go to an owner key that is not on disk, a session key fits the record it *)
(* was issued for, and what a run recorded is what the chain says as long   *)
(* as nobody took the name away (provision-daemon.ts:401, 716, 868).        *)
THEOREM DiskAndChainAgree == ProvisionSpec => []DiskMatchesChain
<1>1. ProvisionInv => DiskMatchesChain
  <2> SUFFICES ASSUME ProvisionInv PROVE DiskMatchesChain OBVIOUS
  <2>1. FundsRecoverable BY DEF ProvisionInv, SharedInv, FundedInv, FundsRecoverable
  <2>2. ASSUME run.pc = "done", ~run.dry
        PROVE  /\ My.session.key = run.key /\ My.keystore = run.key /\ My.session.router = run.router
               /\ My.identity.key = run.key /\ My.identity.router = run.router
               /\ My.identity.name = run.name /\ My.identity.policy = run.policy
    BY <2>2 DEF ProvisionInv, RunInv, DiskInv, My, Owned, AfterPhase1
  <2>3. SessionFitsRecord BY <2>2 DEF SessionFitsRecord
  <2>4. RecordMatchesChain
    BY <2>2 DEF RecordMatchesChain, Matches, ProvisionInv, RunInv, SentInv, OnChain
  <2> QED BY <2>1, <2>3, <2>4 DEF DiskMatchesChain
<1> QED BY <1>1, ProvisionInvariant, PTL

-----------------------------------------------------------------------------
(***************************************************************************)
(* The client of the Trading API (packages/core/src/trading.ts), whatever  *)
(* it is asked and the API answers.                                        *)
(***************************************************************************)
Requests == {"none", "value", "quote", "swap", "other"}
Holding == /\ held \in Quotes \cup {NoQuote} /\ live \in BOOLEAN /\ calls \in 0..MaxCalls
           /\ live => held # NoQuote
           /\ held # NoQuote => QuoteValid(held)
Asking == /\ call.kind \in Requests
          /\ call.kind = "value" => call.amount # 0
          /\ PermitIsSigned
Answered == /\ last.error \in {"none"} \cup Errors
            /\ NothingStaleIsSent /\ ValueWasQuoted
ClientInv == Holding /\ Asking /\ Answered

\* A result is that of the request under way.
LEMMA OkIs ==
  ASSUME NEW kind, NEW got
  PROVE  /\ Ok(kind, got).kind = kind /\ Ok(kind, got).error = "none" /\ Ok(kind, got).got = got
         /\ Ok(kind, got).amount = call.amount /\ Ok(kind, got).live = live
  BY DEF Ok
LEMMA ErrIs ==
  ASSUME NEW kind, NEW e PROVE Err(kind, e).kind = kind /\ Err(kind, e).error = e
  BY DEF Err

\* No request is under way any more.
LEMMA NoRequest == ASSUME call' = Idle PROVE Asking'
  BY DEF Asking, Idle, PermitIsSigned, Requests

\* An error promises nothing.
LEMMA ErrorKeeps ==
  ASSUME ClientInv, NEW e \in Errors, ReturnError(e) PROVE ClientInv'
<1>1. call' = Idle /\ last' = Err(call.kind, e) /\ UNCHANGED <<held, live, calls>>
  BY DEF ReturnError, Return
<1>2. Holding' BY <1>1 DEF ClientInv, Holding
<1>3. e # "none" BY DEF Errors, Codes
<1>4. last'.error = e BY <1>1, ErrIs
<1>5. Answered' BY <1>3, <1>4 DEF Answered, NothingStaleIsSent, ValueWasQuoted
<1> QED BY <1>1, <1>2, <1>5, NoRequest DEF ClientInv

LEMMA BeginKeeps ==
  ASSUME ClientInputsTyped, ClientInv, NEW kind \in Requests, NEW amount, NEW body, Begin(kind, amount, body),
         kind = "value" => amount # 0,
         kind = "swap" => /\ body.permit => body.signature /\ ~IsUniswapX(body.quote)
                          /\ body.signature => body.permit \/ IsUniswapX(body.quote)
  PROVE  ClientInv'
<1>1. /\ call' = [kind |-> kind, amount |-> amount, body |-> body]
      /\ UNCHANGED <<held, live, last>> /\ calls < MaxCalls /\ calls' = calls + 1
  BY DEF Begin
<1>2. call'.kind = kind /\ call'.amount = amount /\ call'.body = body BY <1>1
<1>3. calls' \in 0..MaxCalls BY <1>1 DEF ClientInv, Holding, ClientInputsTyped
<1>4. Holding' BY <1>1, <1>3 DEF ClientInv, Holding
<1>5. Asking' BY <1>2 DEF Asking, PermitIsSigned
<1>6. Answered' BY <1>1 DEF ClientInv, Answered, NothingStaleIsSent, ValueWasQuoted
<1> QED BY <1>4, <1>5, <1>6 DEF ClientInv

LEMMA AtOnceKeeps ==
  ASSUME ClientInputsTyped, ClientInv, NEW result, AtOnce(result),
         result.kind \notin {"swap", "value"}, result.error \in {"none"} \cup Errors
  PROVE  ClientInv'
<1>1. last' = result /\ UNCHANGED <<held, live, call>> /\ calls < MaxCalls /\ calls' = calls + 1
  BY DEF AtOnce
<1>2. calls' \in 0..MaxCalls BY <1>1 DEF ClientInv, Holding, ClientInputsTyped
<1>3. Holding' BY <1>1, <1>2 DEF ClientInv, Holding
<1>4. Asking' BY <1>1 DEF ClientInv, Asking, PermitIsSigned
<1>5. Answered' BY <1>1 DEF Answered, NothingStaleIsSent, ValueWasQuoted
<1> QED BY <1>3, <1>4, <1>5 DEF ClientInv

\* What the caller asks.
LEMMA RequestKeeps ==
  ASSUME ClientInputsTyped, ClientInv, Value \/ AskQuote \/ AskSwap \/ AskOther \/ BadInput
  PROVE  ClientInv'
<1>1. CASE Value
  <2>1. PICK amount \in Amounts, isUsdc \in BOOLEAN :
          IF isUsdc \/ amount = 0 THEN AtOnce([Ok("usdc", NoQuote) EXCEPT !.amount = amount])
                                  ELSE Begin("value", amount, Idle.body)
    BY <1>1 DEF Value
  <2>2. CASE isUsdc \/ amount = 0
    <3> DEFINE result == [Ok("usdc", NoQuote) EXCEPT !.amount = amount]
    <3>1. result.kind = "usdc" /\ result.error = "none" BY DEF Ok
    <3>2. AtOnce(result) BY <2>1, <2>2
    <3> HIDE DEF result
    <3> QED BY <3>1, <3>2, AtOnceKeeps
  <2>3. CASE ~(isUsdc \/ amount = 0)
    <3>1. Begin("value", amount, Idle.body) /\ amount # 0 BY <2>1, <2>3
    <3> QED BY <3>1, BeginKeeps DEF Requests
  <2> QED BY <2>2, <2>3
<1>2. CASE AskQuote \/ AskOther BY <1>2, BeginKeeps DEF AskQuote, AskOther, Requests
<1>3. CASE AskSwap
  <2>1. PICK signature \in BOOLEAN : held # NoQuote /\ Begin("swap", 1, Prepared(held, signature))
    BY <1>3 DEF AskSwap
  <2> DEFINE body == Prepared(held, signature)
  <2>2. /\ body.permit => body.signature /\ ~IsUniswapX(body.quote)
        /\ body.signature => body.permit \/ IsUniswapX(body.quote)
    <3>1. held.permit \in BOOLEAN BY <2>1 DEF ClientInv, Holding, Quotes
    <3>2. /\ body.quote = held
          /\ body.signature = (signature /\ (IsUniswapX(held) \/ held.permit))
          /\ body.permit = (signature /\ ~IsUniswapX(held) /\ held.permit)
      BY DEF Prepared
    <3> HIDE DEF body
    <3> QED BY <3>1, <3>2
  <2> HIDE DEF body
  <2> QED BY <2>1, <2>2, BeginKeeps DEF Requests, body
<1>4. CASE BadInput
  <2>1. PICK kind \in {"quote", "other"} : AtOnce(Err(kind, "input")) BY <1>4 DEF BadInput
  <2>2. Err(kind, "input").kind = kind /\ Err(kind, "input").error \in Errors BY ErrIs DEF Errors
  <2> QED BY <2>1, <2>2, AtOnceKeeps
<1> QED BY <1>1, <1>2, <1>3, <1>4

\* What the API answers, or does not.
LEMMA AnswerKeeps ==
  ASSUME ClientInputsTyped, ClientInv,
         NetworkFails \/ Refused \/ ValueAnswered \/ QuoteAnswered \/ SwapAnswered \/ OtherAnswered
  PROVE  ClientInv'
<1>0. "network" \in Errors /\ "invalid" \in Errors /\ "expired" \in Errors BY DEF Errors, Codes
<1>1. CASE NetworkFails BY <1>0, <1>1, ErrorKeeps DEF NetworkFails
<1>2. CASE Refused
  <2>1. CASE ReturnError("invalid") BY <1>0, <2>1, ErrorKeeps
  <2>2. CASE \E status \in {400, 429, 500}, code \in Codes : ReturnError(HttpError(status, code))
    <3>1. PICK status \in {400, 429, 500}, code \in Codes : ReturnError(HttpError(status, code)) BY <2>2
    <3>2. HttpError(status, code) \in Errors BY DEF HttpError, Errors
    <3> QED BY <3>1, <3>2, ErrorKeeps
  <2> QED BY <1>2, <2>1, <2>2 DEF Refused
<1>3. CASE ValueAnswered
  <2>1. PICK quote \in Quotes :
          /\ call.kind = "value"
          /\ IF QuoteValid(quote) /\ quote.output >= 0 THEN Return(Ok("value", quote)) /\ UNCHANGED <<held, live>>
             ELSE ReturnError("invalid")
    BY <1>3 DEF ValueAnswered
  <2>2. CASE ReturnError("invalid") BY <1>0, <2>2, ErrorKeeps
  <2>3. CASE quote.output >= 0 /\ Return(Ok("value", quote)) /\ UNCHANGED <<held, live>>
    <3>1. call' = Idle /\ last' = Ok("value", quote) /\ UNCHANGED <<held, live, calls>>
      BY <2>3 DEF Return
    <3>2. quote.output \in Amounts BY <2>3 DEF Quotes
    <3>3. /\ last'.kind = "value" /\ last'.error = "none" /\ last'.got = quote
          /\ last'.amount = call.amount
      BY <3>1, OkIs
    <3>4. call.amount # 0 BY <2>1 DEF ClientInv, Asking
    <3>5. Holding' BY <3>1 DEF ClientInv, Holding
    <3>6. Answered' BY <3>2, <3>3, <3>4 DEF Answered, NothingStaleIsSent, ValueWasQuoted
    <3> QED BY <3>1, <3>5, <3>6, NoRequest DEF ClientInv
  <2> QED BY <2>1, <2>2, <2>3
<1>4. CASE QuoteAnswered
  <2>1. PICK quote \in Quotes :
          /\ call.kind = "quote"
          /\ IF QuoteValid(quote) THEN Return(Ok("quote", quote)) /\ held' = quote /\ live' = TRUE
             ELSE ReturnError("invalid")
    BY <1>4 DEF QuoteAnswered
  <2>2. CASE ReturnError("invalid") BY <1>0, <2>2, ErrorKeeps
  <2>3. CASE QuoteValid(quote) /\ Return(Ok("quote", quote)) /\ held' = quote /\ live' = TRUE
    <3>1. call' = Idle /\ last' = Ok("quote", quote) /\ UNCHANGED calls BY <2>3 DEF Return
    <3>2. last'.kind = "quote" /\ last'.error = "none" BY <3>1, OkIs
    <3>3. quote # NoQuote BY DEF Quotes, NoQuote, ClientInputsTyped
    <3>4. QuoteValid(held)' BY <2>3 DEF QuoteValid, IsUniswapX
    <3>5. Holding' BY <2>3, <3>1, <3>3, <3>4 DEF ClientInv, Holding
    <3>6. Answered' BY <3>2 DEF Answered, NothingStaleIsSent, ValueWasQuoted
    <3> QED BY <3>1, <3>5, <3>6, NoRequest DEF ClientInv
  <2> QED BY <2>1, <2>2, <2>3
<1>5. CASE SwapAnswered
  <2>1. PICK swap \in Swaps :
          /\ call.kind = "swap" /\ (~live => ~swap.data)
          /\ IF SwapError(swap) = "none" THEN Return(Ok("swap", call.body.quote)) /\ UNCHANGED <<held, live>>
             ELSE ReturnError(SwapError(swap))
    BY <1>5 DEF SwapAnswered
  <2>2. CASE SwapError(swap) # "none"
    <3>1. SwapError(swap) \in Errors BY <1>0, <2>2 DEF SwapError
    <3> QED BY <2>1, <2>2, <3>1, ErrorKeeps
  <2>3. CASE SwapError(swap) = "none"
    <3>1. swap.data BY <2>3 DEF SwapError
    <3>2. live BY <2>1, <3>1 DEF Swaps
    <3>3. call' = Idle /\ last' = Ok("swap", call.body.quote) /\ UNCHANGED <<held, live, calls>>
      BY <2>1, <2>3 DEF Return
    <3>4. last'.kind = "swap" /\ last'.error = "none" /\ last'.live = live BY <3>3, OkIs
    <3>5. Holding' BY <3>3 DEF ClientInv, Holding
    <3>6. Answered' BY <3>2, <3>4 DEF Answered, NothingStaleIsSent, ValueWasQuoted
    <3> QED BY <3>3, <3>5, <3>6, NoRequest DEF ClientInv
  <2> QED BY <2>2, <2>3
<1>6. CASE OtherAnswered
  <2>1. call' = Idle /\ last' = Ok("other", NoQuote) /\ UNCHANGED <<held, live, calls>>
    BY <1>6 DEF OtherAnswered, Return
  <2>2. last'.kind = "other" /\ last'.error = "none" BY <2>1, OkIs
  <2>3. Holding' BY <2>1 DEF ClientInv, Holding
  <2>4. Answered' BY <2>2 DEF Answered, NothingStaleIsSent, ValueWasQuoted
  <2> QED BY <2>1, <2>3, <2>4, NoRequest DEF ClientInv
<1> QED BY <1>1, <1>2, <1>3, <1>4, <1>5, <1>6

LEMMA ClientStarts == ClientInit => ClientInv
<1> SUFFICES ASSUME ClientInit PROVE ClientInv OBVIOUS
<1>1. Holding
  <2>1. calls \in 0..MaxCalls BY ClientAssumption DEF ClientInit, ClientInputsTyped
  <2> QED BY <2>1 DEF ClientInit, Holding
<1>2. Asking BY DEF ClientInit, Asking, Idle, PermitIsSigned, Requests
<1>3. Answered BY DEF ClientInit, Answered, NothingStaleIsSent, ValueWasQuoted
<1> QED BY <1>1, <1>2, <1>3 DEF ClientInv

LEMMA ClientSteps == ClientInv /\ [ClientNext]_clientVars => ClientInv'
<1> SUFFICES ASSUME ClientInv, [ClientNext]_clientVars PROVE ClientInv' OBVIOUS
<1>1. CASE QuoteExpires
  <2>1. live' = FALSE /\ UNCHANGED <<held, call, last, calls>> BY <1>1 DEF QuoteExpires
  <2>2. Holding' BY <2>1 DEF ClientInv, Holding
  <2>3. Asking' BY <2>1 DEF ClientInv, Asking, PermitIsSigned
  <2>4. Answered' BY <2>1 DEF ClientInv, Answered, NothingStaleIsSent, ValueWasQuoted
  <2> QED BY <2>2, <2>3, <2>4 DEF ClientInv
<1>2. CASE UNCHANGED clientVars
  <2>1. UNCHANGED <<held, live, call, last, calls>> BY <1>2 DEF clientVars
  <2>2. Holding' BY <2>1 DEF ClientInv, Holding
  <2>3. Asking' BY <2>1 DEF ClientInv, Asking, PermitIsSigned
  <2>4. Answered' BY <2>1 DEF ClientInv, Answered, NothingStaleIsSent, ValueWasQuoted
  <2> QED BY <2>2, <2>3, <2>4 DEF ClientInv
<1> QED BY <1>1, <1>2, RequestKeeps, AnswerKeeps, ClientAssumption DEF ClientNext

LEMMA ClientInvariant == ClientSpec => []ClientInv
  BY ClientStarts, ClientSteps, PTL DEF ClientSpec

LEMMA ClientTypes == ClientInv => ClientTypeOK
  BY DEF ClientInv, Holding, Asking, Answered, ClientTypeOK, QuoteValid, Requests

(* What is held and asked is what trading.ts could have been given          *)
(* (trading.ts:625).                                                        *)
THEOREM ClientTyped == ClientSpec => []ClientTypeOK
  BY ClientTypes, ClientInvariant, PTL

(* Whatever the API answers and however late, calldata is only ever made    *)
(* from a quote it honoured at that moment, a signature goes with its permit*)
(* or an auction, and a value was quoted (trading.ts:472, 576, 625).        *)
THEOREM OnlyHonoredQuotes == ClientSpec => []QuotesAreHonored
<1>1. ClientInv => QuotesAreHonored BY DEF ClientInv, Asking, Answered, QuotesAreHonored
<1> QED BY <1>1, ClientInvariant, PTL

-----------------------------------------------------------------------------
(***************************************************************************)
(* The swap command (packages/cli), for all environments, tokens, flags and *)
(* amounts.                                                                *)
(***************************************************************************)
CommandStages == {"down", "rejected", "signer", "router", "orchestrate", "sent"}
RawValues == {Raw(a, t, s) : a \in SwapAmounts, t \in Tokens, s \in Spellings} \cup {0}
Signers == {"none", "own", "ephemeral", "session"}
Process == [pc : CommandStages, dryRun : BOOLEAN, flags : SUBSET {"--dry-run", "--no-dry-run"},
            raw : RawValues, env : Envs, kind : Kinds \cup {"none"}, signer : Signers,
            tx : Nat, exit : {-1, 0, 1}]
Sends == [raw : RawValues, signer : Signers, flags : SUBSET {"--dry-run", "--no-dry-run"},
          status : {"pending", "landed", "reverted"}]

\* The process knows that it is a dry run, and has a key of its own only then.
ProcessInv(p) ==
  /\ p \in Process
  /\ "--dry-run" \in p.flags <=> p.dryRun
  /\ p.signer = "ephemeral" => p.dryRun
  /\ p.pc # "down" => p.exit = -1
  /\ p.pc \notin {"sent", "down"} => p.tx = 0
  /\ p.pc = "sent" => p.tx = Len(sent)
SentTyped == sent \in Seq(Sends) /\ process.tx \in 0..Len(sent)
CommandInv == /\ ProcessInv(process) /\ SentTyped
              /\ DryRunSendsNothing /\ EphemeralNeverSends /\ SuccessHasLanded

\* Nothing is sent, and the process does not claim that anything landed.
LEMMA ProcessMoves ==
  ASSUME CommandInv, UNCHANGED sent, NEW p, process' = p, ProcessInv(p), p.tx \in 0..Len(sent),
         p.exit = 0 /\ p.kind = "namera" /\ p.tx # 0 => sent[p.tx].status = "landed"
  PROVE  CommandInv'
<1>1. ProcessInv(process)' BY DEF ProcessInv
<1>2. SentTyped' BY DEF CommandInv, SentTyped
<1>3. DryRunSendsNothing' /\ EphemeralNeverSends'
  BY DEF CommandInv, DryRunSendsNothing, EphemeralNeverSends
<1>4. SuccessHasLanded' BY DEF SuccessHasLanded
<1> QED BY <1>1, <1>2, <1>3, <1>4 DEF CommandInv

LEMMA ExitKeeps ==
  ASSUME CommandInv, NEW code \in {0, 1}, Exit(code),
         code = 0 /\ process.kind = "namera" /\ process.tx # 0 => sent[process.tx].status = "landed"
  PROVE  CommandInv'
<1> DEFINE p == [process EXCEPT !.pc = "down", !.exit = code]
<1>1. process' = p /\ UNCHANGED sent BY DEF Exit
<1>2. process \in Process BY DEF CommandInv, ProcessInv
<1>3. /\ p \in Process /\ p.pc = "down" /\ p.exit = code /\ p.tx = process.tx /\ p.kind = process.kind
      /\ p.flags = process.flags /\ p.dryRun = process.dryRun /\ p.signer = process.signer
  BY <1>2 DEF Process, CommandStages
<1> HIDE DEF p
<1>4. ProcessInv(p) BY <1>3 DEF CommandInv, ProcessInv
<1>5. p.tx \in 0..Len(sent) BY <1>3 DEF CommandInv, SentTyped
<1> QED BY <1>1, <1>3, <1>4, <1>5, ProcessMoves

LEMMA InvokeKeeps == ASSUME CommandInputsTyped, CommandInv, Invoke PROVE CommandInv'
<1>1. PICK dryRun, noDryRun \in BOOLEAN, env \in Envs, token \in Tokens, spelling \in Spellings, amount \in SwapAmounts :
        /\ process.pc = "down" /\ invocations < MaxInvocations /\ invocations' = invocations + 1
        /\ process' = [NoProcess EXCEPT
             !.pc = IF Acceptable(env, token, spelling, amount) THEN "signer" ELSE "rejected",
             !.dryRun = DryRun(dryRun, noDryRun), !.flags = Flags(dryRun, noDryRun), !.env = env,
             !.raw = IF Resolvable(token, spelling) THEN Raw(amount, token, spelling) ELSE 0]
        /\ UNCHANGED sent
  BY DEF Invoke
<1> DEFINE raw == IF Resolvable(token, spelling) THEN Raw(amount, token, spelling) ELSE 0
           flags == Flags(dryRun, noDryRun)
           pc == IF Acceptable(env, token, spelling, amount) THEN "signer" ELSE "rejected"
           p == [pc |-> pc, dryRun |-> dryRun, flags |-> flags, raw |-> raw, env |-> env,
                 kind |-> "none", signer |-> "none", tx |-> 0, exit |-> -1]
<1>2. process' = p BY <1>1 DEF NoProcess, DryRun
<1>3. UNCHANGED sent BY DEF Invoke
<1>4. raw \in RawValues BY DEF RawValues
<1>5. flags \in SUBSET {"--dry-run", "--no-dry-run"} /\ ("--dry-run" \in flags <=> dryRun) BY DEF Flags
<1>6. pc \in {"signer", "rejected"} OBVIOUS
<1> HIDE DEF raw, flags, pc
<1>7. p \in Process BY <1>4, <1>5, <1>6 DEF Process, CommandStages, Signers
<1>8. ProcessInv(p) BY <1>5, <1>6, <1>7 DEF ProcessInv
<1>9. p.tx \in 0..Len(sent) /\ p.exit # 0 BY DEF CommandInv, SentTyped
<1> HIDE DEF p
<1> QED BY <1>2, <1>3, <1>8, <1>9, ProcessMoves

LEMMA BuildKeeps == ASSUME CommandInv, BuildSigner \/ FindRouter PROVE CommandInv'
<1>1. process \in Process BY DEF CommandInv, ProcessInv
<1>2. CASE BuildSigner
  <2>1. PICK kind \in Kinds :
          IF KeyFor(kind) = "none" THEN Throw
          ELSE /\ process' = [process EXCEPT !.pc = "router", !.kind = kind, !.signer = KeyFor(kind)]
               /\ UNCHANGED sent
    BY <1>2 DEF BuildSigner, DefaultSignerKind, Kinds
  <2>2. process.pc = "signer" BY <1>2 DEF BuildSigner
  <2>3. CASE KeyFor(kind) = "none" BY <2>1, <2>3, ExitKeeps DEF Throw
  <2>4. CASE KeyFor(kind) # "none"
    <3> DEFINE p == [process EXCEPT !.pc = "router", !.kind = kind, !.signer = KeyFor(kind)]
    <3>1. process' = p /\ UNCHANGED sent BY <2>1, <2>4
    <3>2. KeyFor(kind) \in Signers /\ (KeyFor(kind) = "ephemeral" => process.dryRun)
      BY DEF KeyFor, NameraKey, LocalKey, Signers
    <3>3. /\ p \in Process /\ p.pc = "router" /\ p.exit = process.exit /\ p.tx = process.tx
          /\ p.flags = process.flags /\ p.dryRun = process.dryRun /\ p.signer = KeyFor(kind)
      BY <1>1, <3>2 DEF Process, CommandStages
    <3> HIDE DEF p
    <3>4. ProcessInv(p) BY <2>2, <3>2, <3>3 DEF CommandInv, ProcessInv
    <3>5. p.tx \in 0..Len(sent) /\ p.exit # 0 BY <2>2, <3>3 DEF CommandInv, SentTyped, ProcessInv
    <3> QED BY <3>1, <3>4, <3>5, ProcessMoves
  <2> QED BY <2>3, <2>4
<1>3. CASE FindRouter
  <2>1. process.pc = "router" /\ (Go("orchestrate") \/ Throw) BY <1>3 DEF FindRouter
  <2>2. CASE Throw BY <2>2, ExitKeeps DEF Throw
  <2>3. CASE Go("orchestrate")
    <3> DEFINE p == [process EXCEPT !.pc = "orchestrate"]
    <3>1. process' = p /\ UNCHANGED sent BY <2>3 DEF Go
    <3>3. /\ p \in Process /\ p.pc = "orchestrate" /\ p.exit = process.exit /\ p.tx = process.tx
          /\ p.flags = process.flags /\ p.dryRun = process.dryRun /\ p.signer = process.signer
      BY <1>1 DEF Process, CommandStages
    <3> HIDE DEF p
    <3>4. ProcessInv(p) BY <2>1, <3>3 DEF CommandInv, ProcessInv
    <3>5. p.tx \in 0..Len(sent) /\ p.exit # 0 BY <2>1, <3>3 DEF CommandInv, SentTyped, ProcessInv
    <3> QED BY <3>1, <3>4, <3>5, ProcessMoves
  <2> QED BY <2>1, <2>2, <2>3
<1> QED BY <1>2, <1>3

LEMMA BroadcastKeeps == ASSUME CommandInv, Broadcast PROVE CommandInv'
<1> DEFINE tx == [raw |-> process.raw, signer |-> process.signer, flags |-> process.flags, status |-> "pending"]
           n == Len(sent) + 1
           p == [process EXCEPT !.pc = "sent", !.tx = n]
<1>1. process.pc = "orchestrate" /\ ~process.dryRun /\ sent' = Append(sent, tx) /\ process' = p
  BY DEF Broadcast
<1>2. process \in Process /\ process.exit = -1 /\ sent \in Seq(Sends)
  BY <1>1 DEF CommandInv, ProcessInv, SentTyped
<1>3. tx \in Sends BY <1>2 DEF Sends, Process
<1>4. "--dry-run" \notin tx.flags /\ tx.signer # "ephemeral" BY <1>1 DEF CommandInv, ProcessInv
<1> HIDE DEF tx
<1>5. /\ sent' \in Seq(Sends) /\ Len(sent') = Len(sent) + 1 /\ Len(sent) \in Nat
      /\ \A i \in DOMAIN sent' : sent'[i] = tx \/ (i \in DOMAIN sent /\ sent'[i] = sent[i])
  BY <1>1, <1>2, <1>3
<1>12. n \in Nat /\ n = Len(sent') BY <1>5
<1> HIDE DEF n
<1>6. /\ p \in Process /\ p.pc = "sent" /\ p.exit = -1 /\ p.tx = n
      /\ p.flags = process.flags /\ p.dryRun = process.dryRun /\ p.signer = process.signer
  BY <1>2, <1>12 DEF Process, CommandStages
<1> HIDE DEF p
<1>7. ProcessInv(process)' BY <1>1, <1>6, <1>12 DEF CommandInv, ProcessInv
<1>8. SentTyped' BY <1>1, <1>5, <1>6, <1>12 DEF SentTyped
<1>9. DryRunSendsNothing' BY <1>4, <1>5 DEF CommandInv, DryRunSendsNothing
<1>10. EphemeralNeverSends' BY <1>4, <1>5 DEF CommandInv, EphemeralNeverSends
<1>11. SuccessHasLanded' BY <1>1, <1>6 DEF SuccessHasLanded
<1> QED BY <1>7, <1>8, <1>9, <1>10, <1>11 DEF CommandInv

LEMMA LandsKeeps == ASSUME CommandInv, Lands PROVE CommandInv'
<1>1. PICK i \in DOMAIN sent, outcome \in {"landed", "reverted"} :
        sent[i].status = "pending" /\ sent' = [sent EXCEPT ![i].status = outcome]
  BY DEF Lands
<1>2. process' = process BY DEF Lands
<1>3. sent \in Seq(Sends) /\ process.tx \in 0..Len(sent) BY DEF CommandInv, SentTyped
<1> DEFINE s == [sent[i] EXCEPT !.status = outcome]
<1>4. sent[i] \in Sends BY <1>3
<1>5. s \in Sends /\ s.flags = sent[i].flags /\ s.signer = sent[i].signer BY <1>4 DEF Sends
<1> HIDE DEF s
<1>6. sent' = [sent EXCEPT ![i] = s] BY <1>1, <1>3 DEF s
<1>7. /\ sent' \in Seq(Sends) /\ Len(sent') = Len(sent) /\ DOMAIN sent' = DOMAIN sent
      /\ sent'[i] = s /\ \A j \in DOMAIN sent : j # i => sent'[j] = sent[j]
  BY <1>3, <1>5, <1>6
<1>8. ProcessInv(process)' BY <1>2, <1>7 DEF CommandInv, ProcessInv
<1>9. SentTyped' BY <1>2, <1>3, <1>7 DEF SentTyped
<1>10. DryRunSendsNothing' BY <1>5, <1>7 DEF CommandInv, DryRunSendsNothing
<1>11. EphemeralNeverSends' BY <1>5, <1>7 DEF CommandInv, EphemeralNeverSends
<1>12. SuccessHasLanded'
  <2> SUFFICES ASSUME process.exit = 0, process.kind = "namera", process.tx # 0
               PROVE  sent'[process.tx].status = "landed"
    BY <1>2 DEF SuccessHasLanded
  <2>1. sent[process.tx].status = "landed" BY DEF CommandInv, SuccessHasLanded
  <2>2. process.tx \in DOMAIN sent BY <1>3
  <2> QED BY <1>1, <1>7, <2>1, <2>2
<1> QED BY <1>8, <1>9, <1>10, <1>11, <1>12 DEF CommandInv

LEMMA CommandStarts == CommandInit => CommandInv
<1> SUFFICES ASSUME CommandInit PROVE CommandInv OBVIOUS
<1>1. (CHOOSE e \in Envs : TRUE) \in Envs BY CommandAssumption DEF CommandInputsTyped
<1>2. process \in Process
  BY <1>1 DEF CommandInit, NoProcess, Process, CommandStages, RawValues, Signers
<1>3. ProcessInv(process) BY <1>2 DEF CommandInit, NoProcess, ProcessInv
<1>4. SentTyped BY DEF CommandInit, NoProcess, SentTyped
<1>5. DryRunSendsNothing /\ EphemeralNeverSends /\ SuccessHasLanded
  BY DEF CommandInit, NoProcess, DryRunSendsNothing, EphemeralNeverSends, SuccessHasLanded
<1> QED BY <1>3, <1>4, <1>5 DEF CommandInv

LEMMA CommandSteps == CommandInv /\ [CommandNext]_commandVars => CommandInv'
<1> SUFFICES ASSUME CommandInv, [CommandNext]_commandVars PROVE CommandInv' OBVIOUS
<1>1. CASE Reject BY <1>1, ExitKeeps DEF Reject, Throw
<1>2. CASE Halted BY <1>2, ExitKeeps DEF Halted
<1>3. CASE DryRunEnds
  <2>1. process.tx = 0 /\ Exit(0) BY <1>3 DEF DryRunEnds, CommandInv, ProcessInv
  <2> QED BY <2>1, ExitKeeps
<1>4. CASE ExecuteEnds
  <2>1. \/ Exit(1)
        \/ Exit(0) /\ (process.kind = "local" \/ sent[process.tx].status = "landed")
    BY <1>4 DEF ExecuteEnds
  <2> QED BY <2>1, ExitKeeps
<1>5. CASE UNCHANGED commandVars
  <2>1. UNCHANGED <<process, sent>> BY <1>5 DEF commandVars
  <2> QED BY <2>1, ProcessMoves DEF CommandInv, SentTyped, SuccessHasLanded
<1> QED BY <1>1, <1>2, <1>3, <1>4, <1>5, InvokeKeeps, BuildKeeps, BroadcastKeeps, LandsKeeps,
           CommandAssumption DEF CommandNext

(* Whatever the environment and the flags, and however often the command is *)
(* started: a dry run and the key it makes for itself send nothing, and a   *)
(* session key's success has landed (index.ts:114, signer.ts:48, 166).      *)
THEOREM CommandsKeepTheirWord == CommandSpec => []CommandKeepsItsWord
<1>1. CommandInv => CommandKeepsItsWord BY DEF CommandInv, CommandKeepsItsWord
<1> QED BY <1>1, CommandStarts, CommandSteps, PTL DEF CommandSpec

-----------------------------------------------------------------------------
\* A power of ten is a positive number, by its least exponent for which it were not.
LEMMA PowerOfTenPositive ==
  ASSUME NEW d \in Nat
  PROVE  PowerOfTen(d) \in Nat \ {0}
<1> DEFINE Upto(f, m) == f \in [0 .. m -> Int] /\ f[0] = 1 /\ \A n \in 1 .. m : f[n] = 10 * f[n - 1]
           Eq(f) == f = [n \in 0 .. d |-> IF n = 0 THEN 1 ELSE 10 * f[n - 1]]
           T == {m \in 0 .. d : ~ \E f : Upto(f, m)}
<1>1. T = {}
  <2> SUFFICES ASSUME T # {} PROVE FALSE OBVIOUS
  <2>1. PICK m \in T : \A k \in T : m <= k
    <3>1. T \subseteq Nat OBVIOUS
    <3> HIDE DEF T
    <3> QED BY <3>1, LeastNat
  <2>2. m # 0
    <3>1. Upto([i \in 0 .. 0 |-> 1], 0) OBVIOUS
    <3> QED BY <3>1
  <2>3. m \in Nat /\ m - 1 \in 0 .. d /\ m - 1 \notin T
    <3>1. m \in 0 .. d BY <2>1
    <3> HIDE DEF T
    <3> QED BY <2>1, <2>2, <3>1
  <2>4. PICK f : Upto(f, m - 1) BY <2>3
  <2> DEFINE g == [i \in 0 .. m |-> IF i = m THEN 10 * f[m - 1] ELSE f[i]]
  <2>5. g \in [0 .. m -> Int]
    <3>1. f[m - 1] \in Int BY <2>2, <2>3, <2>4
    <3>2. \A i \in 0 .. m : i # m => f[i] \in Int BY <2>3, <2>4
    <3> QED BY <3>1, <3>2
  <2>6. g[m] = 10 * f[m - 1] /\ \A i \in 0 .. m - 1 : g[i] = f[i] BY <2>3
  <2> HIDE DEF g
  <2>7. g[0] = 1 BY <2>2, <2>3, <2>4, <2>6
  <2>8. ASSUME NEW n \in 1 .. m PROVE g[n] = 10 * g[n - 1]
    <3>1. CASE n = m BY <2>2, <2>3, <2>6, <3>1
    <3>2. CASE n # m
      <4>1. n \in 1 .. m - 1 /\ n \in 0 .. m - 1 /\ n - 1 \in 0 .. m - 1 BY <2>3, <3>2
      <4>2. f[n] = 10 * f[n - 1] BY <2>4, <4>1
      <4> QED BY <2>6, <4>1, <4>2
    <3> QED BY <3>1, <3>2
  <2>9. Upto(g, m) BY <2>5, <2>7, <2>8
  <2> QED BY <2>1, <2>9
<1>2. PICK f : Upto(f, d)
  <2>1. d \in 0 .. d OBVIOUS
  <2> QED BY <1>1, <2>1
<1> DEFINE power == CHOOSE h : Eq(h)
<1>3. Eq(f)
  <2>1. f \in [0 .. d -> Int] /\ f[0] = 1 /\ \A n \in 1 .. d : f[n] = 10 * f[n - 1] BY <1>2
  <2>2. \A n \in 0 .. d : f[n] = IF n = 0 THEN 1 ELSE 10 * f[n - 1] BY <2>1
  <2> QED BY <2>1, <2>2
<1>4. Eq(power) BY <1>3
<1>5. PowerOfTen(d) = power[d] BY DEF PowerOfTen
<1> HIDE DEF power
<1>6. power[0] = 1 /\ \A n \in 1 .. d : power[n] = 10 * power[n - 1] BY <1>4
<1> DEFINE U == {m \in 0 .. d : power[m] \notin Nat \ {0}}
<1>7. U = {}
  <2> SUFFICES ASSUME U # {} PROVE FALSE OBVIOUS
  <2>1. PICK m \in U : \A k \in U : m <= k
    <3>1. U \subseteq Nat OBVIOUS
    <3> HIDE DEF U
    <3> QED BY <3>1, LeastNat
  <2>2. m \in 0 .. d /\ power[m] \notin Nat \ {0} BY <2>1
  <2>3. m \in 1 .. d /\ m - 1 \in 0 .. d /\ m - 1 < m BY <1>6, <2>2
  <2>4. m - 1 \notin U BY <2>1, <2>3
  <2>5. power[m - 1] \in Nat \ {0} BY <2>3, <2>4
  <2> QED BY <1>6, <2>2, <2>3, <2>5
<1>8. d \in 0 .. d /\ d \notin U BY <1>7
<1> QED BY <1>5, <1>8

\* Times a positive amount.
LEMMA TimesPositive == ASSUME NEW a \in Nat \ {0}, NEW b \in Nat \ {0} PROVE a * b > 0
  OBVIOUS

LEMMA RawPositive ==
  ASSUME CommandInputsTyped, NEW amount \in SwapAmounts, amount # 0, NEW token \in Tokens,
         NEW spelling \in Spellings
  PROVE  Raw(amount, token, spelling) > 0
<1>1. KnownDecimals(token, spelling) \in Nat BY DEF CommandInputsTyped, KnownDecimals
<1>2. amount \in Nat \ {0} BY DEF CommandInputsTyped
<1> QED BY <1>1, <1>2, PowerOfTenPositive, TimesPositive DEF Raw

\* What a process is to send is more than nothing from the moment it is accepted.
AmountInv ==
  /\ invocations \in 0..MaxInvocations
  /\ process.pc \in {"signer", "router", "orchestrate"} => process.raw > 0
  /\ \A i \in DOMAIN sent : sent[i].raw > 0

\* A step that sends nothing and takes no new amount.
LEMMA AmountStays ==
  ASSUME AmountInv, UNCHANGED <<sent, invocations>>, NEW p, process' = p,
         p.pc \in {"signer", "router", "orchestrate"} =>
           p.raw = process.raw /\ process.pc \in {"signer", "router", "orchestrate"}
  PROVE  AmountInv'
  BY DEF AmountInv

LEMMA ExitAmount ==
  ASSUME CommandInv, AmountInv, NEW code, Exit(code)
  PROVE  AmountInv'
<1> DEFINE p == [process EXCEPT !.pc = "down", !.exit = code]
<1>1. process' = p /\ UNCHANGED <<sent, invocations>> BY DEF Exit
<1>2. process \in Process BY DEF CommandInv, ProcessInv
<1>3. p.pc = "down" BY <1>2 DEF Process
<1> HIDE DEF p
<1> QED BY <1>1, <1>3, AmountStays

LEMMA InvokeAmount == ASSUME CommandInputsTyped, AmountInv, Invoke PROVE AmountInv'
<1>1. PICK dryRun, noDryRun \in BOOLEAN, env \in Envs, token \in Tokens, spelling \in Spellings, amount \in SwapAmounts :
        /\ process.pc = "down" /\ invocations < MaxInvocations /\ invocations' = invocations + 1
        /\ process' = [NoProcess EXCEPT
             !.pc = IF Acceptable(env, token, spelling, amount) THEN "signer" ELSE "rejected",
             !.dryRun = DryRun(dryRun, noDryRun), !.flags = Flags(dryRun, noDryRun), !.env = env,
             !.raw = IF Resolvable(token, spelling) THEN Raw(amount, token, spelling) ELSE 0]
        /\ UNCHANGED sent
  BY DEF Invoke
<1>2. UNCHANGED sent /\ invocations' \in 0..MaxInvocations
  BY <1>1 DEF AmountInv, CommandInputsTyped
<1>3. /\ process'.pc = IF Acceptable(env, token, spelling, amount) THEN "signer" ELSE "rejected"
      /\ process'.raw = IF Resolvable(token, spelling) THEN Raw(amount, token, spelling) ELSE 0
  BY <1>1 DEF NoProcess
<1>4. ASSUME process'.pc \in {"signer", "router", "orchestrate"} PROVE process'.raw > 0
  <2>1. Acceptable(env, token, spelling, amount) BY <1>3, <1>4
  <2>2. Resolvable(token, spelling) /\ amount # 0 BY <2>1 DEF Acceptable
  <2> QED BY <1>3, <2>2, RawPositive
<1> QED BY <1>2, <1>4 DEF AmountInv

LEMMA BuildAmount == ASSUME CommandInv, AmountInv, BuildSigner \/ FindRouter PROVE AmountInv'
<1>1. process \in Process BY DEF CommandInv, ProcessInv
<1>2. CASE Exit(1) BY <1>2, ExitAmount
<1>3. CASE ~ Exit(1)
  <2>1. /\ process'.raw = process.raw /\ process.pc \in {"signer", "router"}
        /\ UNCHANGED <<sent, invocations>>
    BY <1>1, <1>3 DEF BuildSigner, FindRouter, Go, Throw, Process
  <2> QED BY <2>1, AmountStays
<1> QED BY <1>2, <1>3

LEMMA BroadcastAmount == ASSUME CommandInv, AmountInv, Broadcast PROVE AmountInv'
<1> DEFINE tx == [raw |-> process.raw, signer |-> process.signer, flags |-> process.flags, status |-> "pending"]
<1>1. process.pc = "orchestrate" /\ sent' = Append(sent, tx) /\ UNCHANGED invocations BY DEF Broadcast
<1>2. process \in Process /\ sent \in Seq(Sends) BY DEF CommandInv, ProcessInv, SentTyped
<1>3. process'.pc = "sent" BY <1>2 DEF Broadcast, Process
<1>4. tx.raw > 0 BY <1>1 DEF AmountInv
<1>5. \A i \in DOMAIN sent' : sent'[i] = tx \/ (i \in DOMAIN sent /\ sent'[i] = sent[i])
  <2> HIDE DEF tx
  <2> QED BY <1>1, <1>2
<1> HIDE DEF tx
<1> QED BY <1>1, <1>3, <1>4, <1>5 DEF AmountInv

LEMMA LandsAmount == ASSUME CommandInv, AmountInv, Lands PROVE AmountInv'
<1>1. PICK i \in DOMAIN sent, outcome \in {"landed", "reverted"} :
        sent' = [sent EXCEPT ![i].status = outcome]
  BY DEF Lands
<1>2. UNCHANGED <<process, invocations>> BY DEF Lands
<1>3. sent \in Seq(Sends) BY DEF CommandInv, SentTyped
<1> DEFINE s == [sent[i] EXCEPT !.status = outcome]
<1>4. s.raw = sent[i].raw BY <1>3 DEF Sends
<1> HIDE DEF s
<1>5. sent' = [sent EXCEPT ![i] = s] BY <1>1 DEF s
<1>6. \A j \in DOMAIN sent' : j \in DOMAIN sent /\ sent'[j] = IF j = i THEN s ELSE sent[j]
  BY <1>3, <1>5
<1> QED BY <1>2, <1>4, <1>6 DEF AmountInv

LEMMA AmountSteps == CommandInv /\ AmountInv /\ [CommandNext]_commandVars => AmountInv'
<1> SUFFICES ASSUME CommandInv, AmountInv, [CommandNext]_commandVars PROVE AmountInv' OBVIOUS
<1>1. CASE Reject \/ Halted \/ DryRunEnds \/ ExecuteEnds
  <2>1. Exit(0) \/ Exit(1) BY <1>1 DEF Reject, Throw, Halted, DryRunEnds, ExecuteEnds
  <2> QED BY <2>1, ExitAmount
<1>2. CASE UNCHANGED commandVars BY <1>2 DEF commandVars, AmountInv
<1> QED BY <1>1, <1>2, InvokeAmount, BuildAmount, BroadcastAmount, LandsAmount, CommandAssumption
        DEF CommandNext

LEMMA AmountStarts == CommandInit => AmountInv
  BY CommandAssumption DEF CommandInit, CommandInputsTyped, NoProcess, AmountInv

LEMMA CommandTypes == CommandInv /\ AmountInv => CommandTypeOK
<1> SUFFICES ASSUME CommandInv, AmountInv PROVE CommandTypeOK OBVIOUS
<1>1. process \in Process BY DEF CommandInv, ProcessInv
<1>2. \A i \in DOMAIN sent : sent[i].status \in {"pending", "landed", "reverted"}
  <2>1. sent \in Seq(Sends) BY DEF CommandInv, SentTyped
  <2>2. \A i \in DOMAIN sent : sent[i] \in Sends BY <2>1
  <2> QED BY <2>2 DEF Sends
<1>3. process.pc = "sent" => process.tx = Len(sent) BY DEF CommandInv, ProcessInv
<1>4. process.tx \in 0..Len(sent) BY DEF CommandInv, SentTyped
<1> QED BY <1>1, <1>2, <1>3, <1>4 DEF Process, CommandStages, Signers, AmountInv, CommandTypeOK

(* Whatever token, spelling and amount it is started with, what the command *)
(* sends is more than nothing, and its state is one that swap.ts can be in  *)
(* (swap.ts:41-58, 97).                                                     *)
THEOREM CommandTyped == CommandSpec => []CommandTypeOK
  BY CommandStarts, CommandSteps, AmountStarts, AmountSteps, CommandTypes, PTL DEF CommandSpec

-----------------------------------------------------------------------------
(***************************************************************************)
(* The three together, as module Commands composes them: a step is one of   *)
(* one part, and leaves the others where they were.                        *)
(***************************************************************************)
StartedInv == ClientInv /\ CommandInv /\ AmountInv /\ ProvisionInv

LEMMA StartedStarts == CommandsInit => StartedInv
<1> SUFFICES ASSUME CommandsInit PROVE StartedInv OBVIOUS
<1>1. ClientInit /\ CommandInit /\ ProvisionInit BY DEF CommandsInit
<1> QED BY <1>1, ClientStarts, CommandStarts, AmountStarts, ProvisionStarts, ProvisionAssumption
        DEF StartedInv

\* What a step of the whole is to each part.
LEMMA CommandsStepsApart ==
  ASSUME [CommandsNext]_startedVars
  PROVE  [ClientNext]_clientVars /\ [CommandNext]_commandVars /\ [ProvisionNext]_provisionVars
<1>1. CASE UNCHANGED startedVars BY <1>1 DEF startedVars
<1>2. CASE CommandsNext BY <1>2 DEF CommandsNext
<1> QED BY <1>1, <1>2

LEMMA StartedSteps == StartedInv /\ [CommandsNext]_startedVars => StartedInv'
<1> SUFFICES ASSUME StartedInv, [CommandsNext]_startedVars PROVE StartedInv' OBVIOUS
<1>1. ClientInv' BY CommandsStepsApart, ClientSteps DEF StartedInv
<1>2. CommandInv' BY CommandsStepsApart, CommandSteps DEF StartedInv
<1>3. AmountInv' BY CommandsStepsApart, AmountSteps DEF StartedInv
<1>4. ProvisionInv' BY CommandsStepsApart, ProvisionGoesOn, ProvisionAssumption DEF StartedInv
<1> QED BY <1>1, <1>2, <1>3, <1>4 DEF StartedInv

LEMMA StartedInvariant == CommandsSpec => []StartedInv
  BY StartedStarts, StartedSteps, PTL DEF CommandsSpec

(* Whatever the other parts do, each keeps its state within its types       *)
(* (trading.ts:625, swap.ts:97, provision-daemon.ts:297).                   *)
THEOREM CommandsTyped == CommandsSpec => []CommandsTypeOK
<1>1. StartedInv => CommandsTypeOK
  BY ClientTypes, CommandTypes, ProvisionTypes DEF StartedInv, CommandsTypeOK
<1> QED BY <1>1, StartedInvariant, PTL

(* Taken together the three behave as each does by itself, so that what is  *)
(* proved of one alone holds of it here (trading.ts:625, index.ts:114,      *)
(* provision-daemon.ts:345).                                                *)
THEOREM CommandsAreTheirParts == CommandsSpec => ClientSpec /\ CommandSpec /\ ProvisionSpec
<1>1. CommandsInit => ClientInit /\ CommandInit /\ ProvisionInit BY DEF CommandsInit
<1>2. [CommandsNext]_startedVars =>
        [ClientNext]_clientVars /\ [CommandNext]_commandVars /\ [ProvisionNext]_provisionVars
  BY CommandsStepsApart
<1> QED BY <1>1, <1>2, PTL DEF CommandsSpec, ClientSpec, CommandSpec, ProvisionSpec
=============================================================================
