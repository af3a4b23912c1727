--------------------------- MODULE HtaccessInduction ---------------------------
(***************************************************************************)
(* What the proofs need of induction: a set of numbers that is closed      *)
(* under the next one, and functions defined by recursion over numbers.    *)
(***************************************************************************)
EXTENDS Naturals, WellFoundedInduction, TLAPS

\* A set of numbers has a least element.
LEMMA LeastNumber ==
    ASSUME NEW S \in SUBSET Nat, S # {}
    PROVE  \E x \in S : \A y \in S : x =< y
<1> DEFINE R == OpToRel(<, Nat)
<1>1. IsWellFoundedOn(R, Nat)
  BY NatLessThanWellFounded
<1> HIDE DEF R
<1>2. PICK x \in S : \A y \in S : ~(<<y, x>> \in R)
  BY <1>1, WFMin
<1>3. ASSUME NEW y \in S, ~(x =< y) PROVE FALSE
  <2>1. <<y, x>> \in Nat \X Nat /\ y < x
    BY <1>3
  <2> QED
    BY <2>1, <1>2 DEF R, OpToRel
<1> QED
  BY <1>3

\* Induction up to n.
LEMMA InductionUpTo ==
    ASSUME NEW n \in Nat, NEW S, 0 \in S,
           \A k \in 1 .. n : k - 1 \in S => k \in S
    PROVE  0 .. n \subseteq S
<1> DEFINE Bad == {m \in 0 .. n : m \notin S}
<1>1. SUFFICES ASSUME Bad # {} PROVE FALSE
  OBVIOUS
<1>0. Bad \in SUBSET Nat
  OBVIOUS
<1>2. PICK m \in Bad : \A y \in Bad : m =< y
  <2> HIDE DEF Bad
  <2> QED
    BY <1>0, <1>1, LeastNumber
<1>3. m \in 1 .. n /\ m - 1 \in 0 .. n /\ m - 1 \notin Bad
  BY <1>2
<1> QED
  BY <1>2, <1>3

\* n steps on S, as functions; and what they make of a, one after the other.
Stepping(n, S) == [1 .. n -> [S -> S]]

Follows(f, step, n, S, a) ==
    /\ f \in [0 .. n -> S]
    /\ f[0] = a
    /\ \A k \in 1 .. n : f[k] = step[k][f[k - 1]]

\* Recursion up to n.
LEMMA Recursion ==
    ASSUME NEW n \in Nat, NEW S, NEW a \in S, NEW step \in Stepping(n, S)
    PROVE  \E f : Follows(f, step, n, S, a)
<1> DEFINE Is(f, m) == /\ f \in [0 .. m -> S]
                       /\ f[0] = a /\ \A k \in 1 .. m : f[k] = step[k][f[k - 1]]
           T == {m \in 0 .. n : \E f : Is(f, m)}
<1>1. 0 \in T
  <2>1. Is([k \in 0 .. 0 |-> a], 0)
    OBVIOUS
  <2> HIDE DEF Is
  <2>2. \E f : Is(f, 0)
    BY <2>1
  <2> QED
    BY <2>2
<1>2. ASSUME NEW m \in 1 .. n, m - 1 \in T PROVE m \in T
  <2>1. PICK f : Is(f, m - 1)
    BY <1>2
  <2>2. step[m] \in [S -> S] /\ f[m - 1] \in S
    BY <2>1 DEF Stepping
  <2> DEFINE g == [k \in 0 .. m |-> IF k = m THEN step[m][f[m - 1]] ELSE f[k]]
  <2>3. g \in [0 .. m -> S]
    <3>1. ASSUME NEW k \in 0 .. m, k # m PROVE f[k] \in S
      <4>1. k \in 0 .. m - 1
        BY <3>1
      <4> QED
        BY <2>1, <4>1
    <3> QED
      BY <2>2, <3>1
  <2>4. g[0] = a
    BY <2>1
  <2>5. ASSUME NEW k \in 1 .. m PROVE g[k] = step[k][g[k - 1]]
    <3>1. k - 1 \in 0 .. m - 1 /\ g[k - 1] = f[k - 1]
      OBVIOUS
    <3>2. CASE k = m
      BY <3>1, <3>2
    <3>3. CASE k # m
      <4>1. k \in 1 .. m - 1 /\ g[k] = f[k]
        BY <3>3
      <4> QED
        BY <2>1, <3>1, <4>1
    <3> QED
      BY <3>2, <3>3
  <2> HIDE DEF g
  <2>6. Is(g, m)
    BY <2>3, <2>4, <2>5
  <2> HIDE DEF Is
  <2>7. \E h : Is(h, m)
    BY <2>6
  <2> QED
    BY <2>7
<1>3. \A m \in 1 .. n : m - 1 \in T => m \in T
  BY <1>2
<1> HIDE DEF T
<1>4. 0 .. n \subseteq T
  BY <1>1, <1>3, InductionUpTo
<1>5. n \in T
  BY <1>4
<1> QED
  BY <1>5 DEF T, Follows

=============================================================================
