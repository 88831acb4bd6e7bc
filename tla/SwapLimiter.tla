---------------------------- MODULE SwapLimiter ----------------------------
(***************************************************************************)
(* What the daemon's constraints promise the operator for one run of the   *)
(* daemon, stated over the history of its swap attempts and with none of   *)
(* the counters the daemon keeps: attempts come one after the other, no    *)
(* sooner than minSecondsBetweenSwaps apart, none on a day that has already*)
(* spent maxDailySpendUsd, none outside the schedule, and none after the   *)
(* run of failures that halts the daemon.                                  *)
(***************************************************************************)
EXTENDS Integers, Sequences, SequencesExt, Totals

CONSTANTS
  Policies,   \* the operating policies an operator may install
  DayLength   \* seconds in a UTC day, 86_400 in the code

VARIABLES
  history,    \* the attempts of this run, [at, est, policy, outcome, ...]
  now         \* epoch seconds

vars == <<history, now>>

Day(t) == t \div DayLength

(* Dollars the attempts of day d are known to have spent. *)
SpentOn(a, d) == IF a.outcome = "ok" /\ Day(a.at) = d THEN a.est ELSE 0
DaySpend(h, d) == TotalOf([i \in DOMAIN h |-> SpentOn(h[i], d)])

(* As many attempts in a row failed as the policy of the last of them      *)
(* tolerates.                                                              *)
Halted(h) ==
  \E last \in DOMAIN h :
    /\ last >= h[last].policy.halt
    /\ \A i \in last - h[last].policy.halt + 1 .. last : h[i].outcome = "failed"

Running(h) == h # <<>> /\ Last(h).outcome = "running"

Permitted(h, p, t) ==
  /\ ~Running(h)
  /\ ~Halted(h)
  /\ p.startAt <= t /\ t <= p.endAt
  /\ h # <<>> => t - Last(h).at >= p.gap
  /\ DaySpend(h, Day(t)) < p.cap

Init == history = <<>>

Attempt ==
  /\ Len(history') = Len(history) + 1
  /\ Front(history') = history
  /\ Permitted(history, Last(history').policy, Last(history').at)
  /\ Last(history').at = now
  /\ Last(history').outcome = "running"

Finish ==
  /\ Running(history)
  /\ \E outcome \in {"ok", "failed"} :
       history' = [history EXCEPT ![Len(history)].outcome = outcome]

(* The process is restarted and remembers nothing. *)
Restart == history' = <<>>

Next == (Attempt \/ Finish \/ Restart \/ UNCHANGED history) /\ now' >= now

Spec == Init /\ [][Next]_vars
============================================================================
