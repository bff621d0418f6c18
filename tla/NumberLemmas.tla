---------------------------- MODULE NumberLemmas ----------------------------
(***************************************************************************)
(* Facts about sets of numbers that the proofs of several components use:  *)
(* they take the place of induction.                                       *)
(***************************************************************************)
EXTENDS Integers, WellFoundedInduction, TLAPS

\* A set of natural numbers that is not empty has a least element.
LEMMA LeastNatural ==
  ASSUME NEW T \in SUBSET Nat, T # {}
  PROVE  \E x \in T : \A y \in T : x <= y
<1>1. PICK x \in T : \A y \in T : ~(<<y, x>> \in OpToRel(<, Nat))
  BY Zenon, NatLessThanWellFounded, WFMin
<1>2. \A y \in T : ~(y < x)
  BY <1>1 DEF OpToRel
<1> QED BY <1>2

\* What holds for 0 and goes on from each number to the next below n holds
\* up to n; the set stands for the property.
LEMMA UpTo ==
  ASSUME NEW n \in Nat, NEW P, 0 \in P,
         \A i \in 0 .. n - 1 : i \in P => i + 1 \in P
  PROVE  0 .. n \subseteq P
<1> DEFINE T == {i \in 0 .. n : i \notin P}
<1> SUFFICES ASSUME T # {} PROVE FALSE
  OBVIOUS
<1>1. T \in SUBSET Nat
  OBVIOUS
<1>2. PICK x \in T : \A y \in T : x <= y
  <2> HIDE DEF T
  <2> QED BY <1>1, LeastNatural
<1>3. x # 0 /\ x - 1 \in 0 .. n - 1
  BY <1>2
<1>4. x - 1 \notin T
  BY <1>2, <1>3
<1> QED BY <1>2, <1>3, <1>4

\* f is the course of a loop with n turns that starts with x: f[i] is what
\* has become of x after i turns, F[i] the i-th turn.
Course(f, n, x, F) == f = [i \in 0 .. n |-> IF i = 0 THEN x ELSE F[i][f[i - 1]]]

\* A loop that leads from T[0] to T[1] and so on to T[n] has a course.
LEMMA LoopExists ==
  ASSUME NEW n \in Nat, NEW T, NEW x, x \in T[0], NEW F,
         \A i \in 1 .. n : \A c \in T[i - 1] : F[i][c] \in T[i]
  PROVE  \E f : Course(f, n, x, F) /\ \A i \in 0 .. n : f[i] \in T[i]
<1> DEFINE Until(m, f) == /\ f = [i \in 0 .. m |-> f[i]] /\ f[0] = x
                          /\ \A i \in 1 .. m : f[i] = F[i][f[i - 1]]
                          /\ \A i \in 0 .. m : f[i] \in T[i]
           P == {m \in 0 .. n : \E f : Until(m, f)}
<1>1. 0 \in P
  <2> DEFINE f == [i \in 0 .. 0 |-> x]
  <2>1. Until(0, f)
    OBVIOUS
  <2> HIDE DEF Until
  <2> QED BY <2>1
<1>2. ASSUME NEW m \in 0 .. n - 1, m \in P PROVE m + 1 \in P
  <2>1. PICK f : Until(m, f)
    BY <1>2
  <2>2. m + 1 \in 1 .. n /\ m + 1 \in 0 .. n /\ m \in 0 .. m /\ f[m] \in T[m] /\ (m + 1) - 1 = m
    BY <2>1
  <2>3. F[m + 1][f[m]] \in T[m + 1]
    BY <2>2
  <2> DEFINE g == [i \in 0 .. m + 1 |-> IF i <= m THEN f[i] ELSE F[m + 1][f[m]]]
  <2>4. g = [i \in 0 .. m + 1 |-> g[i]] /\ g[0] = x
    BY <2>1
  <2>5. ASSUME NEW i \in 1 .. m + 1 PROVE g[i] = F[i][g[i - 1]]
    <3>1. CASE i <= m
      <4>1. i \in 1 .. m /\ i - 1 \in 0 .. m /\ g[i] = f[i] /\ g[i - 1] = f[i - 1]
        BY <3>1
      <4> QED BY <2>1, <4>1
    <3>2. CASE i = m + 1
      BY <3>2
    <3> QED BY <3>1, <3>2
  <2>6. ASSUME NEW i \in 0 .. m + 1 PROVE g[i] \in T[i]
    <3>1. CASE i <= m
      <4>1. i \in 0 .. m /\ g[i] = f[i]
        BY <3>1
      <4> QED BY <2>1, <4>1
    <3>2. CASE i = m + 1
      BY <2>3, <3>2
    <3> QED BY <3>1, <3>2
  <2>7. Until(m + 1, g)
    <3> HIDE DEF g
    <3> QED BY <2>4, <2>5, <2>6
  <2> HIDE DEF Until
  <2> QED BY <2>2, <2>7
<1>3. n \in P
  <2>1. 0 .. n \subseteq P
    <3> HIDE DEF P
    <3> QED BY <1>1, <1>2, UpTo
  <2> QED BY <2>1
<1>4. PICK f : Until(n, f)
  BY <1>3
<1>5. Course(f, n, x, F)
  <2>1. ASSUME NEW i \in 0 .. n PROVE f[i] = IF i = 0 THEN x ELSE F[i][f[i - 1]]
    BY <1>4, SMTT(30)
  <2> QED BY <1>4, <2>1 DEF Course
<1> QED BY <1>4, <1>5

\* What goes on from every turn to the next holds at the end.
LEMMA LoopEnds ==
  ASSUME NEW n \in Nat, NEW T, NEW f, f[0] \in T[0],
         \A i \in 1 .. n : f[i - 1] \in T[i - 1] => f[i] \in T[i]
  PROVE  f[n] \in T[n]
<1> DEFINE P == {i \in 0 .. n : f[i] \in T[i]}
<1>1. 0 \in P
  OBVIOUS
<1>2. ASSUME NEW i \in 0 .. n - 1, i \in P PROVE i + 1 \in P
  <2>1. i + 1 \in 1 .. n /\ (i + 1) - 1 = i
    OBVIOUS
  <2> QED BY <1>2, <2>1
<1>3. 0 .. n \subseteq P
  <2> HIDE DEF P
  <2> QED BY <1>1, <1>2, UpTo
<1> QED BY <1>3
=============================================================================
