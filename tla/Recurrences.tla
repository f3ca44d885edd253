---------------------------- MODULE Recurrences ----------------------------
(***************************************************************************)
(* Induction over the naturals for sets instead of predicates, and from it *)
(* that a recurrence of a loop has a solution.  The predicates of the      *)
(* library's induction theorems are operators, which no backend can        *)
(* instantiate; a set is a value like any other.                           *)
(***************************************************************************)
EXTENDS Integers, WellFoundedInduction, TLAPS

LEMMA SmallestOf ==
  ASSUME NEW T, T \subseteq Nat, T # {}
  PROVE  \E x \in T : \A y \in T : x <= y
<1>. DEFINE R == OpToRel(<, Nat)
<1>1. \E x \in T : \A y \in T : ~ (<<y, x>> \in R)
  <2>1. IsWellFoundedOn(R, Nat)
    BY NatLessThanWellFounded, Zenon
  <2>. HIDE DEF R
  <2>. QED BY <2>1, WFMin
<1>2. \A x, y \in Nat : y < x => <<y, x>> \in R
  BY DEF OpToRel
<1>. HIDE DEF R
<1>3. PICK x \in T : \A y \in T : ~ (<<y, x>> \in R)
  BY <1>1
<1>4. ASSUME NEW y \in T PROVE x <= y
  <2>1. ~ (y < x)
    BY <1>2, <1>3
  <2>. QED BY <2>1
<1>. QED BY <1>4

LEMMA Induction ==
  ASSUME NEW T, 0 \in T, \A n \in Nat : n \in T => n + 1 \in T
  PROVE  \A n \in Nat : n \in T
<1>. DEFINE U == {n \in Nat : n \notin T}
<1>. SUFFICES ASSUME U # {} PROVE FALSE
  OBVIOUS
<1>1. PICK x \in U : \A y \in U : x <= y
  <2>1. U \subseteq Nat
    OBVIOUS
  <2>. HIDE DEF U
  <2>. QED BY <2>1, SmallestOf
<1>2. x # 0 /\ x - 1 \in Nat /\ (x - 1) + 1 = x
  BY <1>1
<1>3. x - 1 \in T
  BY <1>1, <1>2
<1>. QED BY <1>1, <1>2, <1>3

(* A loop of N iterations that starts with a and keeps its variable in S:  *)
(* its values before the first and after each iteration are a function.    *)
Iterates(f, N, a, step) == f[0] = a /\ \A n \in 1..N : f[n] = step[n][f[n - 1]]

LEMMA RecurrenceSolved ==
  ASSUME NEW N \in Nat, NEW S, NEW a \in S, NEW step \in [1..N -> [S -> S]]
  PROVE  \E f \in [0..N -> S] : Iterates(f, N, a, step)
<1>. DEFINE T == {m \in Nat : m <= N => \E f \in [0..m -> S] : Iterates(f, m, a, step)}
<1>1. 0 \in T
  <2>. DEFINE f == [i \in 0..0 |-> a]
  <2>1. f \in [0..0 -> S] /\ Iterates(f, 0, a, step)
    BY DEF Iterates
  <2>. QED BY <2>1
<1>2. ASSUME NEW m \in Nat, m \in T PROVE m + 1 \in T
  <2>. SUFFICES ASSUME m + 1 <= N
                PROVE  \E f \in [0..(m + 1) -> S] : Iterates(f, m + 1, a, step)
    OBVIOUS
  <2>1. PICK g \in [0..m -> S] : Iterates(g, m, a, step)
    BY <1>2
  <2>. DEFINE f == [i \in 0..(m + 1) |-> IF i = m + 1 THEN step[m + 1][g[m]] ELSE g[i]]
  <2>2. step[m + 1] \in [S -> S]
    OBVIOUS
  <2>3. step[m + 1][g[m]] \in S
    BY <2>2
  <2>4. f \in [0..(m + 1) -> S]
    BY <2>3
  <2>5. \A i \in 0..m : f[i] = g[i]
    OBVIOUS
  <2>6. f[m + 1] = step[m + 1][g[m]]
    OBVIOUS
  <2>. HIDE DEF f
  <2>7. ASSUME NEW n \in 1..(m + 1) PROVE f[n] = step[n][f[n - 1]]
    <3>1. CASE n = m + 1
      BY <2>5, <2>6, <3>1
    <3>2. CASE n \in 1..m
      BY <2>1, <2>5, <3>2 DEF Iterates
    <3>. QED BY <3>1, <3>2
  <2>. QED BY <2>1, <2>4, <2>5, <2>7 DEF Iterates
<1>3. N \in T
  <2>. HIDE DEF T
  <2>. QED BY <1>1, <1>2, Induction
<1>. QED BY <1>3
=============================================================================
