--------------------------- MODULE MCDaemonAgent ---------------------------
(* Instances of DaemonAgent for model checking. *)
EXTENDS DaemonAgent

CONSTANTS k1, k2

MCKey == {k1, k2}
MCPair == {"usdc-weth", "weth-usdc"}

Own(pair, usd, enabled) == [pair |-> pair, usd |-> usd, est |-> usd, enabled |-> enabled]

(* Trades on its own and with peers; may spend twice a day, waits two      *)
(* seconds between swaps, halts after two failures.                        *)
Trader ==
  [key |-> k1, interval |-> 1, startAt |-> 0, endAt |-> 100,
   intents |-> <<Own("usdc-weth", 2, TRUE), Own("weth-usdc", 1, FALSE)>>,
   cap |-> 3, gap |-> 2, halt |-> 2, listen |-> TRUE, pollEvery |-> 1]
(* The same after a rotation of the key, with another cap and no pause, and *)
(* two intents that take turns.                                             *)
Rotated ==
  [Trader EXCEPT !.key = k2, !.gap = 0, !.cap = 2, !.halt = 1,
                 !.intents = <<Own("usdc-weth", 1, TRUE), Own("weth-usdc", 2, TRUE)>>]
(* No intent of its own enabled, a window of one day, deaf to its peers.   *)
Idle ==
  [Trader EXCEPT !.intents = <<Own("usdc-weth", 2, FALSE)>>, !.startAt = 3,
                 !.endAt = 5, !.listen = FALSE]

MCPolicies == {Trader, Rotated, Idle}
OnlyTrader == {Trader}

MCPeerIntent == {[pair |-> "usdc-weth", usd |-> 2, est |-> 2],
                 [pair |-> "weth-usdc", usd |-> 1, est |-> 1]}
OneOffer == {[pair |-> "usdc-weth", usd |-> 2, est |-> 2]}
============================================================================
