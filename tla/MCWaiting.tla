------------------------------- MODULE MCWaiting -------------------------------
(***************************************************************************)
(* Small instances of what waits for timers, files and answers (module      *)
(* Waiting).                                                                *)
(***************************************************************************)
EXTENDS Waiting

\* Forms on both sides of every check, and of the 128-byte cap exactly.
D(name, size, listed, bytes) == [name |-> name, size |-> size, tokens |-> listed, bytes |-> bytes]
MCDraftForms == {D("alice", "positive", "known", 127), D("alice", "positive", "known", 128),
                 D("bob", "positive", "known", 129), D("", "positive", "none", 100),
                 D("", "positive", "known", 127), D("bob", "zero", "known", 120),
                 D("alice", "positive", "unknown", 120), D("ab", "positive", "known", 120)}

\* Two policies around the amounts, and a form on each side of every check.
F(recipient, caller, amount, accepted) ==
  [recipient |-> recipient, caller |-> caller, amount |-> amount, accepted |-> accepted]
MCSwapForms == {F("alice", TRUE, 2, TRUE), F("alice", FALSE, 1, TRUE), F("alice", TRUE, 3, FALSE),
                F("alice", TRUE, -1, TRUE), F("", TRUE, 1, TRUE), F("ab", TRUE, 1, TRUE)}
MCPolicies == {[minTier |-> 2, maxSize |-> 2, anyToken |-> FALSE], [minTier |-> 1, maxSize |-> 1, anyToken |-> TRUE]}

\* Every upstream list of up to three of six tokens: curated ones, one of another chain,
\* a curated symbol at another address and the reverse.
T(addr, symbol, on) == [addr |-> addr, symbol |-> symbol, chain |-> on]
MCTokens == {T("usdc", "USDC", "base"), T("weth", "WETH", "base"), T("weth", "WETH", "other"),
             T("dai", "DAI", "base"), T("uni", "USDC", "base"), T("weth", "wrapped", "base")}
MCUpstreams == UNION {[1..n -> MCTokens] : n \in 0..3}
MCCollation == [t \in MCTokens |-> CASE t.symbol = "DAI" -> 1 [] t.symbol = "USDC" -> 2
                                      [] t.symbol = "WETH" -> 3 [] t.symbol = "wrapped" -> 4]
MCFallback == <<T("usdc", "USDC", "base"), T("weth", "WETH", "base")>>
MCCurated == <<"USDC", "WETH">>
MCDefault == T("usdc", "USDC", "base")

\* A poll of two peers, or of one with a bad name before another; one server serves
\* both; two edits of what a peer lists, and the script run once meanwhile.  Then the
\* script alone, run three times.
At(h, path) == [host |-> h, path |-> path]
On(pair) == [pair |-> pair, enabled |-> TRUE]
MCMyPolicies == {[peers |-> <<"p", "q">>, max |-> 1, pairs |-> {"x", "y"}],
                 [peers |-> <<"bad", "p">>, max |-> 2, pairs |-> {"y"}]}
MCPeerPolicies == {[listen |-> TRUE, intents |-> <<On("x"), On("y")>>],
                   [listen |-> TRUE, intents |-> <<[On("x") EXCEPT !.enabled = FALSE], On("y")>>],
                   [listen |-> FALSE, intents |-> <<On("x")>>]}
MCEndpoints == {[p |-> At("stranger", "base"), q |-> At("h", "base")]}
MCSettable == {At("h", "slash"), At("h", "intents")}
=============================================================================
