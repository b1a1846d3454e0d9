------------------------------- MODULE Minimum ------------------------------
(***************************************************************************)
(* The smallest element of a set of natural numbers: the models describe a *)
(* front-to-back search (updateCache, AllocateBlock) by the minimum of     *)
(* what it may find.  And what follows from it: functions defined by       *)
(* recursion over numbers exist.                                           *)
(***************************************************************************)
EXTENDS Naturals, FiniteSetsExt, WellFoundedInduction, TLAPS

\* Every non-empty set of natural numbers has a smallest element.
LEMMA SmallestExists ==
    ASSUME NEW S \in SUBSET Nat, S # {}
    PROVE  \E x \in S : \A y \in S : x <= y
  <1> DEFINE R == OpToRel(<, Nat)
  <1>1. IsWellFoundedOn(R, Nat)
    BY NatLessThanWellFounded, Zenon
  <1>2. \A x, y \in Nat : y < x => <<y, x>> \in R
    BY DEF OpToRel
  <1> HIDE DEF R
  <1>3. PICK x \in S : \A y \in S : ~(<<y, x>> \in R)
    BY <1>1, WFMin
  <1>4. \A y \in S : ~(y < x)
    BY <1>2, <1>3, Zenon
  <1>5. \A y \in S : x <= y
    BY <1>4
  <1> QED
    BY <1>5

\* Min, with which the models say "the first one found", is that element.
LEMMA MinIsSmallest ==
    ASSUME NEW S \in SUBSET Nat, S # {}
    PROVE  Min(S) \in S /\ \A y \in S : Min(S) <= y
  BY SmallestExists DEF Min

\* And Max is the largest of a set that has a bound.
LEMMA MaxIsLargest ==
    ASSUME NEW S \in SUBSET Nat, S # {}, NEW b \in Nat, \A y \in S : y <= b
    PROVE  Max(S) \in S /\ \A y \in S : y <= Max(S)
  <1> DEFINE Bounds == {c \in Nat : \A y \in S : y <= c}
  <1>1. Bounds \in SUBSET Nat /\ Bounds # {}
    OBVIOUS
  <1>2. PICK c \in Bounds : \A e \in Bounds : c <= e
    <2> HIDE DEF Bounds
    <2> QED
      BY <1>1, SmallestExists
  <1>3. c \in S
    <2>1. SUFFICES ASSUME c \notin S PROVE FALSE
      OBVIOUS
    <2>2. PICK y \in S : TRUE
      OBVIOUS
    <2>3. c \in Nat /\ c # 0
      BY <1>2, <2>1, <2>2
    <2>4. c - 1 \in Bounds
      BY <1>2, <2>1, <2>3
    <2> QED
      BY <1>2, <2>3, <2>4
  <1>4. c \in S /\ \A y \in S : c >= y
    BY <1>2, <1>3
  <1> QED
    BY <1>4 DEF Max

\* t is defined from 0 to k, starting with a: h says how a value comes from the one before.
Recursion(t, k, S, a, h) ==
    t \in [0 .. k -> S] /\ t[0] = a /\ \A i \in 1 .. k : t[i] = h[<<i, t[i - 1]>>]

\* h keeps to S up to n.
IsStep(h, n, S) == h \in [(1 .. n) \X S -> S]

LEMMA RecursionExists ==
    ASSUME NEW n \in Nat, NEW S, NEW a \in S, NEW h, IsStep(h, n, S)
    PROVE  \E t : Recursion(t, n, S, a, h)
  <1> USE DEF Recursion, IsStep
  <1> DEFINE Upto(t, k) == Recursion(t, k, S, a, h)
             Bad == {k \in 0 .. n : ~\E t : Upto(t, k)}
  <1>1. SUFFICES ASSUME Bad # {} PROVE FALSE
    <2>1. n \in 0 .. n
      OBVIOUS
    <2> QED
      BY <2>1
  <1>2. PICK k \in Bad : \A j \in Bad : k <= j
    <2>1. Bad \in SUBSET Nat
      OBVIOUS
    <2> HIDE DEF Bad
    <2> QED
      BY <1>1, <2>1, SmallestExists
  <1>3. k # 0
    <2>1. Upto([i \in 0 .. 0 |-> a], 0)
      OBVIOUS
    <2> QED
      BY <1>2, <2>1
  <1>4. k \in 1 .. n /\ k - 1 \in 0 .. n /\ k - 1 \notin Bad /\ k \in Nat
    BY <1>2, <1>3
  <1>5. PICK t : Upto(t, k - 1)
    BY <1>4
  <1>6. PICK u : u = [i \in 0 .. k |-> IF i = k THEN h[<<k, t[k - 1]>>] ELSE t[i]]
    OBVIOUS
  <1>7. t[k - 1] \in S /\ h[<<k, t[k - 1]>>] \in S
    BY <1>4, <1>5
  <1>8. u \in [0 .. k -> S] /\ u[0] = a
    <2>1. \A i \in 0 .. k : i # k => i \in 0 .. k - 1
      BY <1>4
    <2> QED
      BY <1>4, <1>5, <1>6, <1>7, <2>1
  <1>9. \A i \in 1 .. k : u[i] = h[<<i, u[i - 1]>>]
    <2> TAKE i \in 1 .. k
    <2>1. u[i - 1] = t[i - 1] /\ u[i] = IF i = k THEN h[<<k, t[k - 1]>>] ELSE t[i]
      BY <1>4, <1>6
    <2>2. i # k => t[i] = h[<<i, t[i - 1]>>]
      BY <1>4, <1>5
    <2> QED
      BY <2>1, <2>2
  <1>10. Upto(u, k)
    BY <1>8, <1>9
  <1> QED
    BY <1>2, <1>10
=============================================================================
