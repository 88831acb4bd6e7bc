----------------------------- MODULE MCCommands ----------------------------
(***************************************************************************)
(* Small instances of what an operator starts (module Commands).            *)
(***************************************************************************)
EXTENDS Commands
CONSTANTS n1, p1, p2, r1, r2

\* Two invocations; a complete environment, and one or two things missing.
E(key, nameraEnv, file, router) ==
  [api |-> TRUE, key |-> key, nameraEnv |-> nameraEnv, bundler |-> TRUE, sessionFile |-> file, router |-> router]
MCEnvs == {E("prefixed", TRUE, TRUE, "set"), E("unset", FALSE, FALSE, "set"), E("prefixed", TRUE, FALSE, "set"),
           E("bare", FALSE, FALSE, "set"), E("prefixed", FALSE, FALSE, "unset"), E("unset", TRUE, TRUE, "malformed"),
           E("unset", TRUE, TRUE, "placeholder"), [E("prefixed", TRUE, TRUE, "set") EXCEPT !.api = FALSE],
           [E("prefixed", TRUE, TRUE, "set") EXCEPT !.bundler = FALSE]}
MCDecimals == [USDC |-> 1, WETH |-> 3, other |-> 3]

\* One daemon.
Slug(name) == "daemon"
=============================================================================
