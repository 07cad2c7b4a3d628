----------------------------- MODULE Recursion -----------------------------
(***************************************************************************)
(* What the proofs about recursive functions need: least elements,         *)
(* induction and definition by recursion, all stated for sets and          *)
(* functions, so that first-order provers can use them.  Nothing in it is  *)
(* about the programs.                                                     *)
(***************************************************************************)
EXTENDS Integers, WellFoundedInduction, TLAPS

\* A set of natural numbers that has elements has a least one.
LEMMA LeastElement ==
    ASSUME NEW T \in SUBSET Nat, T # {}
    PROVE  \E n \in T : \A m \in T : n <= m
<1>1. PICK n \in T : \A m \in T : <<m, n>> \notin OpToRel(<, Nat)
  BY WFMin, NatLessThanWellFounded
<1>2. \A m \in T : ~(m < n)
  BY <1>1 DEF OpToRel
<1> QED  BY <1>2

\* If it is bounded, it has a greatest one.
LEMMA GreatestElement ==
    ASSUME NEW T \in SUBSET Nat, T # {}, NEW b \in Nat, \A m \in T : m <= b
    PROVE  \E n \in T : \A m \in T : m <= n
<1> DEFINE D == {k \in Nat : b - k \in T}
<1>1. D # {}
  <2>1. PICK m \in T : TRUE
    OBVIOUS
  <2>2. b - m \in D
    BY <2>1
  <2> QED  BY <2>2
<1>2. PICK k \in D : \A j \in D : k <= j
  BY <1>1, LeastElement
<1>3. ASSUME NEW m \in T PROVE m <= b - k
  <2>1. b - m \in D
    OBVIOUS
  <2> QED  BY <1>2, <2>1
<1> QED  BY <1>2, <1>3

\* Induction up to N: P holds the numbers of which the claim is true.
LEMMA InductionUpTo ==
    ASSUME NEW N \in Nat, NEW P, 0 \in P, \A n \in 1..N : n - 1 \in P => n \in P
    PROVE  \A n \in 0..N : n \in P
<1> DEFINE Bad == {n \in 0..N : n \notin P}
<1> SUFFICES ASSUME Bad # {} PROVE FALSE
  OBVIOUS
<1>0. Bad \in SUBSET Nat
  OBVIOUS
<1>1. PICK n \in Bad : \A m \in Bad : n <= m
  <2> HIDE DEF Bad
  <2> QED  BY <1>0, LeastElement
<1>2. n \in 1..N
  BY <1>1
<1>3. n - 1 \notin Bad
  BY <1>1, <1>2
<1> QED  BY <1>2, <1>3

\* step makes the value for n from that for n - 1, for n up to N.
IsStep(step, N, V) == step \in [1..N -> [V -> V]]

\* f begins with base and takes those steps.
Takes(f, step, N, V, base) ==
    /\ f \in [0..N -> V] /\ f[0] = base
    /\ \A n \in 1..N : f[n] = step[n][f[n - 1]]

\* A recursive definition has a solution.
LEMMA RecursionUpTo ==
    ASSUME NEW N \in Nat, NEW V, NEW base \in V, NEW step, IsStep(step, N, V)
    PROVE  \E f : Takes(f, step, N, V, base)
<1> USE DEF IsStep, Takes
<1> DEFINE P == {n \in 0..N : \E f : Takes(f, step, n, V, base)}
<1>1. 0 \in P
  <2>1. Takes([k \in 0..0 |-> base], step, 0, V, base)
    OBVIOUS
  <2> HIDE DEF Takes
  <2> QED  BY <2>1
<1>2. ASSUME NEW n \in 1..N, n - 1 \in P PROVE n \in P
  <2>1. PICK f : Takes(f, step, n - 1, V, base)
    BY <1>2
  <2> DEFINE v == step[n][f[n - 1]]
             g == [k \in 0..n |-> IF k = n THEN v ELSE f[k]]
  <2>2. f[n - 1] \in V
    BY <2>1
  <2>3. v \in V
    BY <2>2
  <2>4. g \in [0..n -> V] /\ g[0] = base
    BY <2>1, <2>3
  <2>5. ASSUME NEW k \in 1..n PROVE g[k] = step[k][g[k - 1]]
    <3>1. g[k - 1] = f[k - 1]
      OBVIOUS
    <3>2. CASE k = n
      <4>1. g[k] = v
        BY <3>2
      <4> HIDE DEF g
      <4> QED  BY <3>1, <3>2, <4>1
    <3>3. CASE k # n
      <4>1. k \in 1..(n - 1) /\ g[k] = f[k]
        BY <3>3
      <4> QED  BY <2>1, <3>1, <4>1
    <3> QED  BY <3>2, <3>3
  <2> HIDE DEF g
  <2>6. Takes(g, step, n, V, base)
    BY <2>4, <2>5
  <2> HIDE DEF Takes
  <2> QED  BY <2>6
<1> HIDE DEF P, IsStep, Takes
<1>3. \A n \in 0..N : n \in P
  BY <1>1, <1>2, InductionUpTo
<1>4. N \in P
  BY <1>3
<1> QED  BY <1>4 DEF P
=============================================================================
