---------------------------- MODULE TotalsProofs ----------------------------
(***************************************************************************)
(* What TotalOf returns, for every sequence of integers.                   *)
(*                                                                         *)
(* The library's induction theorems cannot be instantiated by the provers; *)
(* its theorem that a set of naturals has a least element can, and the     *)
(* least counterexample stands for the induction.                          *)
(***************************************************************************)
EXTENDS Totals, TLAPS, WellFoundedInduction

LEMMA LeastNat ==
  ASSUME NEW T, T \subseteq Nat, T # {}
  PROVE  \E n \in T : \A m \in T : n <= m
  <1> DEFINE R == OpToRel(<, Nat)
  <1>1. PICK n \in T : \A m \in T : ~ (<<m, n>> \in R)
    <2>1. IsWellFoundedOn(R, Nat)
      BY NatLessThanWellFounded
    <2> HIDE DEF R
    <2> QED
      BY <2>1, WFMin
  <1>2. \A m \in T : ~ (m < n)
    BY <1>1 DEF OpToRel
  <1> QED
    BY <1>2

IsSum(f, s) ==
  /\ f \in [0 .. Len(s) -> Int] /\ f[0] = 0
  /\ \A n \in 1 .. Len(s) : f[n] = f[n - 1] + s[n]

LEMMA SumExists ==
  ASSUME NEW s \in Seq(Int)
  PROVE  \E f : IsSum(f, s)
  <1> DEFINE Upto(f, m) == /\ f \in [0 .. m -> Int] /\ f[0] = 0
                           /\ \A n \in 1 .. m : f[n] = f[n - 1] + s[n]
             T == {m \in 0 .. Len(s) : ~ \E f : Upto(f, m)}
  <1>1. SUFFICES ASSUME T # {} PROVE FALSE
    <2>1. Len(s) \in 0 .. Len(s)
      OBVIOUS
    <2> QED
      BY <2>1 DEF IsSum
  <1>2. PICK m \in T : \A k \in T : m <= k
    <2>1. T \subseteq Nat
      OBVIOUS
    <2> HIDE DEF T
    <2> QED
      BY <1>1, <2>1, LeastNat
  <1>3. m # 0
    <2>1. Upto([i \in 0 .. 0 |-> 0], 0)
      OBVIOUS
    <2> QED
      BY <2>1
  <1>4. m - 1 \in 0 .. Len(s) /\ m \in 1 .. Len(s) /\ m - 1 \notin T
    <2>1. m \in 0 .. Len(s) /\ Len(s) \in Nat
      BY <1>2
    <2> HIDE DEF T
    <2> QED
      BY <1>2, <1>3, <2>1
  <1>5. PICK f : Upto(f, m - 1)
    BY <1>4
  <1> DEFINE g == [i \in 0 .. m |-> IF i = m THEN f[m - 1] + s[m] ELSE f[i]]
  <1>6. Upto(g, m)
    <2>1. m \in Nat /\ m - 1 \in Nat /\ s[m] \in Int
      BY <1>4
    <2>2. f \in [0 .. m - 1 -> Int] /\ f[0] = 0
      BY <1>5
    <2>3. \A n \in 1 .. m - 1 : f[n] = f[n - 1] + s[n]
      BY <1>5
    <2>4. g \in [0 .. m -> Int]
      BY <2>1, <2>2
    <2>5. g[m] = f[m - 1] + s[m] /\ \A n \in 0 .. m - 1 : g[n] = f[n]
      BY <2>1
    <2>6. g[0] = 0
      BY <1>3, <2>1, <2>2, <2>5
    <2> HIDE DEF g
    <2>7. ASSUME NEW n \in 1 .. m PROVE g[n] = g[n - 1] + s[n]
      <3>1. CASE n = m
        BY <2>1, <2>5, <3>1
      <3>2. CASE n # m
        <4>1. n \in 1 .. m - 1 /\ n \in 0 .. m - 1 /\ n - 1 \in 0 .. m - 1
          BY <2>1, <3>2
        <4> QED
          BY <2>3, <2>5, <4>1
      <3> QED
        BY <3>1, <3>2
    <2> QED
      BY <2>4, <2>6, <2>7
  <1> QED
    BY <1>6

LEMMA SumUnique ==
  ASSUME NEW s \in Seq(Int), NEW f, NEW g, NEW j \in Nat, j <= Len(s), f[0] = g[0],
         \A n \in 1 .. j : f[n] = f[n - 1] + s[n] /\ g[n] = g[n - 1] + s[n]
  PROVE  f[j] = g[j]
  <1> DEFINE T == {m \in 0 .. j : f[m] # g[m]}
  <1>1. SUFFICES ASSUME T # {} PROVE FALSE
    <2>1. j \in 0 .. j
      OBVIOUS
    <2>2. f[j] # g[j] => j \in T
      BY <2>1
    <2> QED
      BY <2>2
  <1>2. PICK m \in T : \A k \in T : m <= k
    <2>1. T \subseteq Nat
      OBVIOUS
    <2> HIDE DEF T
    <2> QED
      BY <1>1, <2>1, LeastNat
  <1>3. m \in 1 .. j /\ m - 1 \in 0 .. j /\ m - 1 \notin T
    BY <1>2
  <1> QED
    BY <1>2, <1>3

(* TotalOf(s) is where the running sum of s ends.                          *)
LEMMA TotalIsSum ==
  ASSUME NEW s \in Seq(Int)
  PROVE  \E f : IsSum(f, s) /\ TotalOf(s) = f[Len(s)]
  <1> DEFINE Eq(f) == f = [n \in 0 .. Len(s) |-> IF n = 0 THEN 0 ELSE f[n - 1] + s[n]]
             sum == CHOOSE f : Eq(f)
  <1>1. PICK f : IsSum(f, s)
    BY SumExists
  <1>2. Eq(f)
    BY <1>1 DEF IsSum
  <1>3. Eq(sum)
    BY <1>2
  <1>4. TotalOf(s) = sum[Len(s)]
    BY DEF TotalOf
  <1> HIDE DEF sum
  <1>5. \A n \in 1 .. Len(s) : sum[n] = sum[n - 1] + s[n]
    BY <1>3
  <1>6. sum[0] = 0
    BY <1>3
  <1>7. \A n \in 0 .. Len(s) : sum[n] = f[n]
    <2> SUFFICES ASSUME NEW n \in 0 .. Len(s) PROVE sum[n] = f[n]
      OBVIOUS
    <2>1. /\ n \in Nat /\ n <= Len(s) /\ Len(s) \in Nat
          /\ \A i \in 1 .. n : i \in 1 .. Len(s)
      OBVIOUS
    <2>2. \A i \in 1 .. n : sum[i] = sum[i - 1] + s[i] /\ f[i] = f[i - 1] + s[i]
      BY <1>1, <1>5, <2>1 DEF IsSum
    <2>3. sum[0] = f[0]
      BY <1>1, <1>6 DEF IsSum
    <2> QED
      BY <2>1, <2>2, <2>3, SumUnique
  <1>8. IsSum(sum, s)
    BY <1>1, <1>3, <1>5, <1>6, <1>7 DEF IsSum
  <1> QED
    BY <1>4, <1>8

(* Whatever adds up step by step as s does has the sum of s.               *)
LEMMA TotalByRecursion ==
  ASSUME NEW s \in Seq(Int), NEW g, g[0] = 0,
         \A n \in 1 .. Len(s) : g[n] = g[n - 1] + s[n]
  PROVE  TotalOf(s) = g[Len(s)]
  <1>1. PICK f : IsSum(f, s) /\ TotalOf(s) = f[Len(s)]
    BY TotalIsSum
  <1>2. f[Len(s)] = g[Len(s)]
    <2>1. /\ Len(s) \in Nat /\ Len(s) <= Len(s) /\ f[0] = g[0]
          /\ \A n \in 1 .. Len(s) : f[n] = f[n - 1] + s[n] /\ g[n] = g[n - 1] + s[n]
      BY <1>1 DEF IsSum
    <2> QED
      BY <2>1, SumUnique
  <1> QED
    BY <1>1, <1>2

LEMMA TotalOfEmpty == TotalOf(<<>>) = 0
  <1>1. PICK f : IsSum(f, <<>>) /\ TotalOf(<<>>) = f[Len(<<>>)]
    <2>1. <<>> \in Seq(Int)
      OBVIOUS
    <2> QED
      BY <2>1, TotalIsSum
  <1> QED
    BY <1>1 DEF IsSum

LEMMA TotalTyped ==
  ASSUME NEW s \in Seq(Int)
  PROVE  TotalOf(s) \in Int
  <1>1. PICK f : IsSum(f, s) /\ TotalOf(s) = f[Len(s)]
    BY TotalIsSum
  <1>2. Len(s) \in 0 .. Len(s)
    OBVIOUS
  <1> QED
    BY <1>1, <1>2 DEF IsSum

LEMMA TotalOfLonger ==
  ASSUME NEW s \in Seq(Int), NEW t \in Seq(Int), Len(t) = Len(s) + 1,
         \A i \in 1 .. Len(s) : t[i] = s[i]
  PROVE  TotalOf(t) = TotalOf(s) + t[Len(t)]
  <1>1. PICK f : IsSum(f, t) /\ TotalOf(t) = f[Len(t)]
    BY TotalIsSum
  <1> DEFINE n == Len(s)
  <1>2. n \in Nat /\ Len(t) = n + 1 /\ Len(t) \in 1 .. Len(t) /\ Len(t) - 1 = n
    OBVIOUS
  <1>3. f[Len(t)] = f[n] + t[Len(t)]
    <2>1. f[Len(t)] = f[Len(t) - 1] + t[Len(t)]
      BY <1>1, <1>2 DEF IsSum
    <2> QED
      BY <1>2, <2>1
  <1>4. \A i \in 1 .. Len(s) : f[i] = f[i - 1] + s[i]
    <2> SUFFICES ASSUME NEW i \in 1 .. Len(s) PROVE f[i] = f[i - 1] + s[i]
      OBVIOUS
    <2>1. i \in 1 .. Len(t) /\ t[i] = s[i]
      OBVIOUS
    <2> QED
      BY <1>1, <2>1 DEF IsSum
  <1>5. f[0] = 0
    BY <1>1 DEF IsSum
  <1>6. TotalOf(s) = f[n]
    BY <1>4, <1>5, TotalByRecursion
  <1> QED
    BY <1>1, <1>2, <1>3, <1>6

(* Two sequences that differ in the last place differ in sum by that much. *)
LEMMA TotalOfChangedLast ==
  ASSUME NEW s \in Seq(Int), NEW t \in Seq(Int), NEW n \in Nat \ {0}, Len(s) = n, Len(t) = n,
         \A i \in 1 .. n - 1 : t[i] = s[i]
  PROVE  TotalOf(t) = TotalOf(s) - s[n] + t[n]
  <1> DEFINE u == [i \in 1 .. n - 1 |-> s[i]]
  <1>1. /\ u \in Seq(Int) /\ Len(u) = n - 1
        /\ \A i \in 1 .. n - 1 : u[i] = s[i] /\ u[i] = t[i]
    OBVIOUS
  <1> HIDE DEF u
  <1>2. TotalOf(s) = TotalOf(u) + s[n]
    BY <1>1, TotalOfLonger
  <1>3. TotalOf(t) = TotalOf(u) + t[n]
    BY <1>1, TotalOfLonger
  <1>4. TotalOf(u) \in Int /\ s[n] \in Int /\ t[n] \in Int
    BY <1>1, TotalTyped
  <1> QED
    BY <1>2, <1>3, <1>4

LEMMA TotalOfZeros ==
  ASSUME NEW s \in Seq(Int), \A i \in 1 .. Len(s) : s[i] = 0
  PROVE  TotalOf(s) = 0
  <1> DEFINE g == [i \in 0 .. Len(s) |-> 0]
  <1>1. g[0] = 0 /\ g[Len(s)] = 0 /\ \A n \in 1 .. Len(s) : g[n] = g[n - 1] + s[n]
    OBVIOUS
  <1> HIDE DEF g
  <1> QED
    BY <1>1, TotalByRecursion

LEMMA TotalOfNats ==
  ASSUME NEW s \in Seq(Nat)
  PROVE  TotalOf(s) \in Nat
  <1>0. s \in Seq(Int) /\ Len(s) \in Nat /\ \A n \in 1 .. Len(s) : s[n] \in Nat
    OBVIOUS
  <1>1. PICK f : IsSum(f, s) /\ TotalOf(s) = f[Len(s)]
    BY <1>0, TotalIsSum
  <1> DEFINE T == {m \in 0 .. Len(s) : f[m] < 0}
  <1>2. T = {}
    <2> SUFFICES ASSUME T # {} PROVE FALSE
      OBVIOUS
    <2>1. PICK m \in T : \A k \in T : m <= k
      <3>1. T \subseteq Nat
        OBVIOUS
      <3> HIDE DEF T
      <3> QED
        BY <3>1, LeastNat
    <2>2. m \in 0 .. Len(s) /\ f[m] < 0 /\ f[0] = 0
      BY <1>1 DEF IsSum
    <2>3. m \in 1 .. Len(s) /\ m - 1 \in 0 .. Len(s) /\ m - 1 < m
      BY <1>0, <2>2
    <2>4. f[m] = f[m - 1] + s[m] /\ f[m - 1] \in Int /\ s[m] \in Nat
      BY <1>0, <1>1, <2>3 DEF IsSum
    <2>5. f[m - 1] < 0
      BY <2>2, <2>4
    <2> QED
      BY <2>1, <2>3, <2>5
  <1>3. Len(s) \in 0 .. Len(s) /\ f[Len(s)] \in Int
    BY <1>0, <1>1 DEF IsSum
  <1> QED
    BY <1>1, <1>2, <1>3
=============================================================================
