---------------------------- MODULE PeerExchange ----------------------------
(***************************************************************************)
(* How daemons find each other's intents: a daemon polls its peers one      *)
(* after the other (packages/cli/src/commands/agent-peer-poll.ts), each     *)
(* through the agent-endpoint record of its name, and the peer's status     *)
(* server answers from the policy it has in memory (commands/agent.ts).     *)
(* Peers stop, stall, edit their policies and move while they are polled.   *)
(* The record is set by scripts/set-agent-endpoint.ts.  What a poll hands   *)
(* over is what PollReturns of DaemonAgent takes.                           *)
(***************************************************************************)
EXTENDS Integers, Sequences, SequencesExt

CONSTANTS PeerNames,          \* peers with a name that normalizes
          BadName,        \* a name that does not
          Hosts,          \* daemons' status servers
          Stranger,       \* a host that is no daemon
          Pairs,          \* token pairs
          MyPolicies,     \* [peers : Seq, max : Nat, pairs : SUBSET Pairs]: of the daemon that polls
          PeerPolicies,   \* [listen : BOOLEAN, intents : Seq([pair, enabled])]
          FirstEndpoints, \* what the records may be at first
          Settable,       \* what the script may set the record of ScriptName to
          ScriptName,
          MaxPeerEdits, MaxPolls, MaxScripts  \* bounds
None == [host |-> "none", path |-> "none"]
Endpoints == [host : Hosts \cup {Stranger}, path : {"base", "slash", "intents"}] \cup {None}

ExchangeInputsTyped ==
  /\ BadName \notin PeerNames /\ Stranger \notin Hosts /\ "none" \notin Hosts /\ ScriptName \in PeerNames
  /\ MyPolicies \subseteq [peers : Seq(PeerNames \cup {BadName}), max : Nat, pairs : SUBSET Pairs]
  /\ PeerPolicies \subseteq [listen : BOOLEAN, intents : Seq([pair : Pairs, enabled : BOOLEAN])]
  /\ FirstEndpoints \subseteq [PeerNames -> Endpoints] /\ Settable \subseteq Endpoints
  /\ MaxPeerEdits \in Nat /\ MaxPolls \in Nat /\ MaxScripts \in Nat
ASSUME ExchangeAssumption == ExchangeInputsTyped

VARIABLES mine,     \* the polling daemon's policy
          server,   \* host -> [up, policy, boot]: boot is the policy it was started with
          endpoint, \* name -> the record
          poll, results,
          script, mempool, peerEdits, polls, scripts
theRest == <<server, endpoint, script, mempool, peerEdits, scripts>>
exchangeVars == <<mine, server, endpoint, poll, results, script, mempool, peerEdits, polls, scripts>>

Idle == [pc |-> "idle", todo |-> <<>>, at |-> None, reply |-> [kind |-> "none"], live |-> {}]
NoScript == [pc |-> "idle", want |-> None, tx |-> 0, told |-> "nothing"]
ExchangeInit == /\ mine \in MyPolicies /\ endpoint \in FirstEndpoints
        /\ \E p \in PeerPolicies : server = [h \in Hosts |-> [up |-> TRUE, policy |-> p, boot |-> p]]
        /\ poll = Idle /\ results = <<>>
        /\ script = NoScript /\ mempool = <<>> /\ peerEdits = 0 /\ polls = 0 /\ scripts = 0

\* buildIntentsResponse: the enabled intents, in the policy's order.
Listed(policy) == LET on == SelectSeq(policy.intents, LAMBDA intent : intent.enabled)
                  IN  [i \in DOMAIN on |-> on[i].pair]
LiveIn(policy) == IF policy.listen THEN ToSet(Listed(policy)) ELSE {}
Live(peer) == IF peer \in Hosts THEN LiveIn(server[peer].policy) ELSE {}

-----------------------------------------------------------------------------
\* The status server.

\* Mutant: the policy is taken when the server starts.
BootPolicy(s) == s.boot

\* `() => policy`: whatever the daemon's last reload left.
ServedPolicy(s) == s.policy

\* GET /intents; an unknown path, and no `listen` block, are a 404.
ServerAnswer(peer, path) ==
  LET policy == ServedPolicy(server[peer]) IN
  IF path \in {"base", "slash"} /\ policy.listen THEN [kind |-> "ok", pairs |-> Listed(policy)]
  ELSE [kind |-> "fetch-failed"]

\* The base URL with trailing slashes stripped, and /intents after it.
Serve == /\ poll.pc = "fetching" /\ poll.reply.kind = "none"
         /\ poll.at.host \in Hosts => server[poll.at.host].up
         /\ \E answer \in IF poll.at.host \in Hosts THEN {ServerAnswer(poll.at.host, poll.at.path)}
                          ELSE {[kind |-> "fetch-failed"], [kind |-> "parse-failed"]} :
              poll' = [poll EXCEPT !.reply = answer]
         /\ UNCHANGED <<mine, results, polls, theRest>>

-----------------------------------------------------------------------------
\* pollPeers.

Reload == \E policy \in MyPolicies : /\ poll.pc = "idle" /\ peerEdits < MaxPeerEdits /\ peerEdits' = peerEdits + 1 /\ mine' = policy
                                     /\ UNCHANGED <<poll, results, polls, server, endpoint, script, mempool, scripts>>

StartPoll == /\ poll.pc = "idle" /\ polls < MaxPolls /\ polls' = polls + 1
             /\ poll' = [Idle EXCEPT !.pc = "resolving", !.todo = mine.peers]
             /\ results' = <<>> /\ UNCHANGED <<mine, theRest>>

\* evaluatePeerIntent: the pair is all that is compared.
Matches(pair) == pair \in mine.pairs

\* Of what a peer lists the first maxConcurrentIntents are evaluated: the matches, each
\* at its place in the list.
PollResult(kind, pairs) ==
  [peer |-> Head(poll.todo), kind |-> kind, live |-> poll.live,
   offers |-> [i \in {j \in 1..mine.max : j \in DOMAIN pairs /\ Matches(pairs[j])} |-> pairs[i]]]

Record(kind, pairs) ==
  /\ results' = Append(results, PollResult(kind, pairs))
  /\ poll' = [Idle EXCEPT !.pc = "resolving", !.todo = Tail(poll.todo)]
  /\ UNCHANGED <<mine, polls, theRest>>

\* resolveAgentEndpoint: a failing read is a missing record; normalizing may throw.
Resolve ==
  /\ poll.pc = "resolving" /\ poll.todo # <<>> /\ Head(poll.todo) # BadName
  /\ \E read \in {endpoint[Head(poll.todo)], None} :
       IF read = None THEN Record("no-endpoint", <<>>)
       ELSE /\ poll' = [poll EXCEPT !.pc = "fetching", !.at = read, !.live = Live(read.host)]
            /\ UNCHANGED <<mine, results, polls, theRest>>
NormalizeThrows ==
  /\ poll.pc = "resolving" /\ poll.todo # <<>> /\ Head(poll.todo) = BadName
  /\ poll' = Idle /\ results' = <<>> /\ UNCHANGED <<mine, polls, theRest>>

\* The reply is parsed and evaluated.
Receive ==
  /\ poll.pc = "fetching" /\ poll.reply.kind # "none"
  /\ Record(poll.reply.kind, IF poll.reply.kind = "ok" THEN poll.reply.pairs ELSE <<>>)
ConnectionFails ==
  /\ poll.pc = "fetching" /\ poll.reply.kind = "none"
  /\ poll.at.host \in Hosts => ~server[poll.at.host].up
  /\ Record("fetch-failed", <<>>)
\* controller.abort(), with the reply under way or without.
AbortFires == poll.pc = "fetching" /\ Record("fetch-failed", <<>>)

EndPoll == /\ poll.pc = "resolving" /\ poll.todo = <<>>
           /\ poll' = Idle /\ UNCHANGED <<mine, results, polls, theRest>>
-----------------------------------------------------------------------------
\* The peers: an edit of the policy is in force at once, listed pairs stay in `live`.
EditPeer(peer, new) ==
  /\ peerEdits < MaxPeerEdits /\ peerEdits' = peerEdits + 1 /\ server' = [server EXCEPT ![peer] = new]
  /\ poll' = IF poll.at.host = peer THEN [poll EXCEPT !.live = @ \cup LiveIn(new.policy)] ELSE poll
  /\ UNCHANGED <<mine, endpoint, results, script, mempool, polls, scripts>>
PeerReloads == \E peer \in Hosts, policy \in PeerPolicies :
  server[peer].up /\ EditPeer(peer, [server[peer] EXCEPT !.policy = policy])
PeerStops == \E peer \in Hosts : server[peer].up /\ EditPeer(peer, [server[peer] EXCEPT !.up = FALSE])
PeerStarts == \E peer \in Hosts, policy \in PeerPolicies :
  ~server[peer].up /\ EditPeer(peer, [up |-> TRUE, policy |-> policy, boot |-> policy])

-----------------------------------------------------------------------------
\* scripts/set-agent-endpoint.ts.

Tell(what) == script' = [NoScript EXCEPT !.told = what]
Quiet == UNCHANGED <<mine, server, poll, results, peerEdits, polls>>
StartScript == \E want \in Settable :
  /\ script.pc = "idle" /\ scripts < MaxScripts /\ scripts' = scripts + 1
  /\ script' = [NoScript EXCEPT !.pc = "reading", !.want = want] /\ Quiet /\ UNCHANGED <<endpoint, mempool>>

\* No resolver, no keystore, a wrong password, no funds.
ScriptFails == script.pc = "reading" /\ Tell("failed") /\ Quiet /\ UNCHANGED <<endpoint, mempool, scripts>>
NothingToDo == /\ script.pc = "reading" /\ endpoint[ScriptName] = script.want /\ Tell("done")
               /\ Quiet /\ UNCHANGED <<endpoint, mempool, scripts>>
SendSetText == /\ script.pc = "reading" /\ endpoint[ScriptName] # script.want
               /\ mempool' = Append(mempool, [want |-> script.want, status |-> "pending"])
               /\ script' = [script EXCEPT !.pc = "waiting", !.tx = Len(mempool) + 1]
               /\ Quiet /\ UNCHANGED <<endpoint, scripts>>

\* One account sends them: they are mined in the order of their nonces.
Mine == \E i \in DOMAIN mempool, status \in {"success", "reverted"} :
  /\ mempool[i].status = "pending" /\ \A j \in 1..i - 1 : mempool[j].status # "pending"
  /\ mempool' = [mempool EXCEPT ![i].status = status]
  /\ endpoint' = IF status = "success" THEN [endpoint EXCEPT ![ScriptName] = mempool[i].want] ELSE endpoint
  /\ Quiet /\ UNCHANGED <<script, scripts>>

\* Mutant: any receipt will do.
ReceiptAsSuccess == /\ script.pc = "waiting" /\ mempool[script.tx].status # "pending"
                    /\ Tell("done") /\ Quiet /\ UNCHANGED <<endpoint, mempool, scripts>>

Receipt == /\ script.pc = "waiting" /\ mempool[script.tx].status # "pending"
           /\ Tell(IF mempool[script.tx].status = "success" THEN "done" ELSE "failed")
           /\ Quiet /\ UNCHANGED <<endpoint, mempool, scripts>>
ReceiptTimesOut == script.pc = "waiting" /\ Tell("failed") /\ Quiet /\ UNCHANGED <<endpoint, mempool, scripts>>

-----------------------------------------------------------------------------
PollStep == Resolve \/ NormalizeThrows \/ Receive \/ EndPoll
ExchangeNext == \/ Reload \/ StartPoll \/ PollStep \/ ConnectionFails \/ AbortFires
        \/ Serve \/ PeerReloads \/ PeerStops \/ PeerStarts
        \/ StartScript \/ ScriptFails \/ NothingToDo \/ SendSetText \/ Mine \/ Receipt \/ ReceiptTimesOut

\* The event loop goes on and timers fire; a peer may never answer.
ExchangeSpec == ExchangeInit /\ [][ExchangeNext]_exchangeVars /\ WF_exchangeVars(PollStep) /\ WF_exchangeVars(AbortFires)

ExchangeTypeOK ==
  /\ mine \in MyPolicies /\ poll.pc \in {"idle", "resolving", "fetching"}
  /\ \A h \in Hosts : server[h].policy \in PeerPolicies /\ server[h].up \in BOOLEAN
  /\ \A i \in DOMAIN results :
       /\ results[i].kind \in {"ok", "no-endpoint", "fetch-failed", "parse-failed"}
       /\ DOMAIN results[i].offers \subseteq 1..mine.max \/ poll.pc = "idle"
       /\ results[i].kind # "ok" => results[i].offers = <<>>
  /\ peerEdits \in 0..MaxPeerEdits /\ polls \in 0..MaxPolls /\ scripts \in 0..MaxScripts

(* A failing, stalled or silent peer costs the others nothing: at any       *)
(* moment of a poll the listed peers are those that have a result, in their *)
(* order, and those still to come (agent-peer-poll.ts:209-227).             *)
OneResultPerPeer ==
  poll.pc # "idle" => [i \in DOMAIN results |-> results[i].peer] \o poll.todo = mine.peers

(* "a peer asking 'what would you do?' should see only the live set, not    *)
(* the operator's drafts" (agent.ts:285-287): what a poll takes from a peer *)
(* was enabled there at some moment since it asked.                         *)
OffersWereLive == \A i \in DOMAIN results : ToSet(results[i].offers) \subseteq results[i].live

(* "a stalled peer can't wedge a tick" (agent-peer-poll.ts:140-142).        *)
PollEnds == poll.pc # "idle" ~> poll.pc = "idle"

(* When the script says the record is set, it is (set-agent-endpoint.ts:    *)
(* 191-194, 229-233).                                                       *)
DoneMeansSet ==
  [][script.pc # "idle" /\ script'.told = "done" => endpoint'[ScriptName] = script.want]_exchangeVars
=============================================================================
