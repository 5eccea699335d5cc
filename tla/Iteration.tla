------------------------------ MODULE Iteration ------------------------------
(***************************************************************************)
(* Induction over the natural numbers without operator parameters: about a *)
(* set of numbers, where the library's theorems are about a predicate.  It *)
(* comes from the ordering of Nat being well founded.  What is proved with *)
(* it here is that a function may be defined by what each turn of a loop   *)
(* makes of the turn before.                                               *)
(***************************************************************************)
EXTENDS Integers, WellFoundedInduction, TLAPS

Less == {p \in Nat \X Nat : p[1] < p[2]}

\* No sequence of natural numbers decreases for ever.
LEMMA LessIsWellFounded == IsWellFoundedOn(Less, Nat)
BY NatLessThanWellFounded DEF OpToRel, Less

\* A set of natural numbers has a least element.
LEMMA LeastNatural ==
  ASSUME NEW S \in SUBSET Nat, S # {}
  PROVE  \E n \in S : \A m \in S : n <= m
<1>1. PICK n \in S : \A m \in S : ~ (<<m, n>> \in Less)
  BY LessIsWellFounded, WFMin
<1>2. \A m \in S : ~ (m < n)
  BY <1>1 DEF Less
<1> QED
  BY <1>2

\* What holds of 0, and of n + 1 if of n, holds of every natural number.
LEMMA InductionOnNat ==
  ASSUME NEW S \in SUBSET Nat, 0 \in S, \A n \in S : n + 1 \in S
  PROVE  S = Nat
<1> DEFINE T == Nat \ S
<1> SUFFICES ASSUME T # {} PROVE FALSE
  OBVIOUS
<1>1. T \in SUBSET Nat
  OBVIOUS
<1> HIDE DEF T
<1>2. PICK n \in T : \A m \in T : n <= m
  BY <1>1, LeastNatural
<1>3. n # 0 /\ n \in Nat
  BY <1>1, <1>2 DEF T
<1>4. n - 1 \in Nat /\ n - 1 \notin T
  BY <1>1, <1>2, <1>3
<1>5. n - 1 \in S
  BY <1>4 DEF T
<1>6. (n - 1) + 1 \in S
  BY <1>5
<1> QED
  BY <1>2, <1>3, <1>6 DEF T

\* Function f begins with first, and each of its first n turns is step's.
Turns(f, first, step, n) ==
  f[0] = first /\ \A i \in Nat : i < n => f[i + 1] = step[i][f[i]]

\* Two functions that begin alike and turn alike are alike, as far as they go.
LEMMA IterationIsUnique ==
  ASSUME NEW step, NEW first, NEW n \in Nat, NEW g, NEW h,
         Turns(g, first, step, n), Turns(h, first, step, n)
  PROVE  \A i \in Nat : i <= n => g[i] = h[i]
<1> DEFINE S == {i \in Nat : i <= n => g[i] = h[i]}
<1>1. 0 \in S
  BY DEF Turns
<1>2. ASSUME NEW i \in S PROVE i + 1 \in S
  <2> SUFFICES ASSUME i + 1 <= n PROVE g[i + 1] = h[i + 1]
    OBVIOUS
  <2>1. i \in Nat /\ i < n /\ g[i] = h[i]
    OBVIOUS
  <2> QED
    BY <2>1 DEF Turns
<1>3. S \in SUBSET Nat
  OBVIOUS
<1> HIDE DEF S
<1>4. S = Nat
  BY <1>1, <1>2, <1>3, InductionOnNat
<1> QED
  BY <1>4 DEF S

\* The first n turns of a loop make a function.
LEMMA FiniteIteration ==
  ASSUME NEW V, NEW first \in V, NEW step \in [Nat -> [V -> V]], NEW n \in Nat
  PROVE  \E g \in [Nat -> V] : Turns(g, first, step, n)
<1> DEFINE S == {m \in Nat : \E g \in [Nat -> V] : Turns(g, first, step, m)}
<1>1. 0 \in S
  <2> DEFINE g == [i \in Nat |-> first]
  <2>1. g \in [Nat -> V] /\ Turns(g, first, step, 0)
    BY DEF Turns
  <2> QED
    BY <2>1
<1>2. ASSUME NEW m \in S PROVE m + 1 \in S
  <2>1. PICK g \in [Nat -> V] : Turns(g, first, step, m)
    OBVIOUS
  <2> DEFINE h == [g EXCEPT ![m + 1] = step[m][g[m]]]
  <2>2. h \in [Nat -> V]
    OBVIOUS
  <2>3. h[m + 1] = step[m][g[m]] /\ \A i \in Nat : i <= m => h[i] = g[i]
    OBVIOUS
  <2> HIDE DEF h
  <2>4. ASSUME NEW i \in Nat, i < m + 1 PROVE h[i + 1] = step[i][h[i]]
    <3>1. h[i] = g[i]
      BY <2>3, <2>4
    <3>2. CASE i = m
      BY <2>3, <3>1, <3>2
    <3>3. CASE i # m
      <4>1. i < m /\ i + 1 \in Nat /\ i + 1 <= m
        BY <2>4, <3>3
      <4> QED
        BY <2>1, <2>3, <3>1, <4>1 DEF Turns
    <3> QED
      BY <3>2, <3>3
  <2>5. Turns(h, first, step, m + 1)
    BY <2>1, <2>3, <2>4 DEF Turns
  <2> QED
    BY <2>2, <2>5
<1>3. S \in SUBSET Nat
  OBVIOUS
<1> HIDE DEF S
<1>4. n \in S
  BY <1>1, <1>2, <1>3, InductionOnNat
<1> QED
  BY <1>4 DEF S

\* A loop starts with a value and makes a value of each; the values it goes
\* through are a function of the number of its turns.
Loop(V, first, step) == first \in V /\ step \in [Nat -> [V -> V]]

History(V, first, step, f) ==
  f \in [Nat -> V] /\ f[0] = first /\ \A n \in Nat : f[n + 1] = step[n][f[n]]

LEMMA LoopHasHistory ==
  ASSUME NEW V, NEW first, NEW step, Loop(V, first, step)
  PROVE  \E f : History(V, first, step, f)
<1> USE DEF Loop
<1> DEFINE G(n) == CHOOSE g \in [Nat -> V] : Turns(g, first, step, n)
           f == [n \in Nat |-> G(n)[n]]
<1>1. ASSUME NEW n \in Nat PROVE G(n) \in [Nat -> V] /\ Turns(G(n), first, step, n)
  <2>1. \E g \in [Nat -> V] : Turns(g, first, step, n)
    BY FiniteIteration
  <2> QED
    BY <2>1
<1> HIDE DEF G
<1>2. f \in [Nat -> V]
  BY <1>1
<1>3. f[0] = first
  BY <1>1 DEF Turns
<1>4. ASSUME NEW n \in Nat PROVE f[n + 1] = step[n][f[n]]
  <2>1. Turns(G(n), first, step, n) /\ Turns(G(n + 1), first, step, n + 1)
    BY <1>1
  <2>2. Turns(G(n + 1), first, step, n)
    BY <2>1 DEF Turns
  <2>3. G(n)[n] = G(n + 1)[n]
    BY <2>1, <2>2, IterationIsUnique
  <2>4. G(n + 1)[n + 1] = step[n][G(n + 1)[n]]
    BY <2>1 DEF Turns
  <2> QED
    BY <2>3, <2>4
<1> HIDE DEF f
<1>5. History(V, first, step, f)
  BY <1>2, <1>3, <1>4 DEF History
<1> QED
  BY <1>5
=============================================================================
