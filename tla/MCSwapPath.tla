----------------------------- MODULE MCSwapPath -----------------------------
(***************************************************************************)
(* Small instances of the parts a swap passes through before it reaches the *)
(* router (module SwapPath).                                                *)
(***************************************************************************)
EXTENDS SwapPath
CONSTANTS c1, c2, a1, a2
MCCallers == {c1, c2}

\* Three documents: one for good and short enough to be inline, one that expires and
\* has to be pinned, and one that loosens the floor.
MCDocs == {[valid |-> TRUE, until |-> RecordMaxTime, long |-> FALSE],
           [valid |-> TRUE, until |-> 0, long |-> TRUE],
           [valid |-> FALSE, until |-> RecordMaxTime, long |-> FALSE]}

\* Policies that differ in every field.
MCOraclePolicies == {[minTier |-> 4, maxSize |-> 2, tokens |-> {}, sig |-> FALSE],
                     [minTier |-> 1, maxSize |-> 1, tokens |-> {"tokenIn"}, sig |-> TRUE],
                     [minTier |-> 1, maxSize |-> 0, tokens |-> {"tokenOut"}, sig |-> FALSE]}

\* Two addresses, so that one can be rotated; a policy that the swap breaks by its tier
\* and one that it breaks by its size; the recipient's subname has no tier of its own,
\* or one below the gate.
MCAddress == {a1, a2}
MCPolicies == {[minTier |-> 2, maxSize |-> 1, accepts |-> TRUE],
               [minTier |-> 1, maxSize |-> 0, accepts |-> FALSE]}
World(t, p) == [names |-> [recipient |-> [addr |-> a1, tier |-> t], parent |-> [addr |-> a1, tier |-> 2],
                           swapper |-> [addr |-> a1, tier |-> 2]],
                policy |-> p]
MCWorlds == {World(t, CHOOSE q \in MCPolicies : q.accepts) : t \in {0, 1}} \cup {World(1, NoPolicy)}

\* What earlier runs left: an address given up since, or a tier from before an upgrade,
\* of the recipient, its parent or the swapper; or, once that has expired, nothing.
Before == [addr |-> a1, tier |-> 1]
Cached(r, p, w) == [recipient |-> r, parent |-> p, swapper |-> w]
MCOldCaches == {Cached([addr |-> a2, tier |-> 2], Miss, Miss),
                Cached(Before, Miss, Miss), Cached(Miss, Before, Miss), Cached(Miss, Miss, Before)}
=============================================================================
