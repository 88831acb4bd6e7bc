-------------------------- MODULE MCDaemonOnChain --------------------------
(* Instances of DaemonOnChain for model checking. *)
EXTENDS DaemonOnChain, MCDaemonAgent

(* Three swaps of two dollars fit in a day by the clock, two by the cap.   *)
Busy ==
  [Trader EXCEPT !.gap = 1, !.intents = <<Own("usdc-weth", 2, TRUE)>>, !.listen = FALSE]
OnlyBusy == {Busy}
============================================================================
