------------------------------- MODULE Totals -------------------------------
(***************************************************************************)
(* The sum of a sequence, which the properties of the router and of the    *)
(* daemon speak of.  It is a recursive function, which can be proved about,*)
(* and not a fold.                                                         *)
(***************************************************************************)
EXTENDS Integers, Sequences

(* The sum of a sequence of integers.                                      *)
TotalOf(s) ==
  LET sum[n \in 0 .. Len(s)] == IF n = 0 THEN 0 ELSE sum[n - 1] + s[n]
  IN  sum[Len(s)]
=============================================================================
