-------------------------- MODULE InductionLemmas --------------------------
(***************************************************************************)
(* The least number of a set gives induction, and induction gives that     *)
(* functions exist which are given by recursion: what the loops of the     *)
(* programs compute, and the readers of their results.                     *)
(***************************************************************************)
EXTENDS SequenceTheorems, FiniteSetTheorems, WellFoundedInduction, TLAPS

\* A function on the numbers up to k is a sequence.
LEMMA FunctionsAreSequences ==
  ASSUME NEW S, NEW k \in Nat
  PROVE  [1 .. k -> S] \subseteq Seq(S)
BY SeqDef, Zenon

\* A set of numbers that is not empty has a least one.
LEMMA Least ==
  ASSUME NEW X \in SUBSET Nat, X # {}
  PROVE  \E m \in X : \A k \in X : m <= k
<1> DEFINE T == {1 .. n : n \in X}
<1>1. IsWellFoundedOn(StrictSubsetOrdering(Nat), FiniteSubsetsOf(Nat))
  BY FS_StrictSubsetOrderingWellFounded
<1>2. T \subseteq FiniteSubsetsOf(Nat) /\ T # {}
  <2>1. \A n \in X : IsFiniteSet(1 .. n) /\ 1 .. n \subseteq Nat
    BY FS_Interval
  <2> QED BY <2>1 DEF FiniteSubsetsOf
<1>3. \E x \in T : \A z \in T : ~(<<z, x>> \in StrictSubsetOrdering(Nat))
  <2> HIDE DEF T
  <2> QED BY <1>1, <1>2, WFMin
<1>4. PICK m \in X : \A z \in T : ~(<<z, 1 .. m>> \in StrictSubsetOrdering(Nat))
  BY <1>3
<1>5. ASSUME NEW k \in X, k < m PROVE FALSE
  <2>1. /\ 1 .. k \subseteq 1 .. m /\ 1 .. k # 1 .. m
        /\ 1 .. k \subseteq Nat /\ 1 .. m \subseteq Nat
    <3>1. m \in 1 .. m /\ m \notin 1 .. k
      BY <1>5
    <3> QED BY <1>5, <3>1
  <2>2. 1 .. k \in T
    OBVIOUS
  <2> HIDE DEF T
  <2> QED BY <1>4, <2>1, <2>2, Zenon DEF StrictSubsetOrdering
<1> QED BY <1>5

\* What holds of a number when it holds of all the smaller ones holds of every number.
LEMMA Induction ==
  ASSUME NEW X,
         \A n \in Nat : (\A k \in Nat : k < n => k \in X) => n \in X
  PROVE  \A n \in Nat : n \in X
<1> DEFINE Y == {n \in Nat : n \notin X}
<1> SUFFICES ASSUME Y # {} PROVE FALSE
  OBVIOUS
<1>1. PICK m \in Y : \A k \in Y : m <= k
  BY Least
<1> QED BY <1>1

\* The same, from the end of a sequence to its beginning.
LEMMA Backwards ==
  ASSUME NEW n \in Nat, NEW X,
         \A i \in 1 .. n : (\A j \in i + 1 .. n + 1 : j \in X) => i \in X,
         n + 1 \in X
  PROVE  \A i \in 1 .. n + 1 : i \in X
<1> DEFINE Y == {k \in Nat : k <= n => n + 1 - k \in X}
<1>1. ASSUME NEW k \in Nat, \A l \in Nat : l < k => l \in Y PROVE k \in Y
  <2> SUFFICES ASSUME k <= n, k > 0 PROVE n + 1 - k \in X
    OBVIOUS
  <2>1. ASSUME NEW j \in n + 1 - k + 1 .. n + 1 PROVE j \in X
    <3>1. n + 1 - j \in Nat /\ n + 1 - j < k /\ n + 1 - j <= n /\ n + 1 - (n + 1 - j) = j
      OBVIOUS
    <3>2. n + 1 - j \in Y
      BY <1>1, <3>1
    <3> QED BY <3>1, <3>2
  <2>2. n + 1 - k \in 1 .. n
    OBVIOUS
  <2> QED BY <2>1, <2>2
<1>2. \A k \in Nat : k \in Y
  <2> HIDE DEF Y
  <2> QED BY <1>1, Induction
<1>3. ASSUME NEW i \in 1 .. n PROVE i \in X
  <2>1. n + 1 - i \in Nat /\ n + 1 - i <= n /\ n + 1 - (n + 1 - i) = i
    OBVIOUS
  <2>2. n + 1 - i \in Y
    BY <1>2, <2>1
  <2> QED BY <2>1, <2>2
<1> QED BY <1>3

\* What a value is and every step keeps, all values behind it are.
LEMMA KeptFrom ==
  ASSUME NEW n \in Nat, NEW m \in 0 .. n, NEW X, NEW f, f[m] \in X,
         \A i \in m + 1 .. n : f[i - 1] \in X => f[i] \in X
  PROVE  \A i \in m .. n : f[i] \in X
<1> DEFINE Y == {k \in Nat : m <= k /\ k <= n => f[k] \in X}
<1>1. ASSUME NEW k \in Nat, \A l \in Nat : l < k => l \in Y PROVE k \in Y
  <2> SUFFICES ASSUME m < k, k <= n PROVE f[k] \in X
    OBVIOUS
  <2>1. k \in m + 1 .. n /\ k - 1 \in Nat /\ k - 1 < k /\ m <= k - 1 /\ k - 1 <= n
    OBVIOUS
  <2>2. k - 1 \in Y
    BY <1>1, <2>1
  <2> QED BY <2>1, <2>2
<1>2. \A k \in Nat : k \in Y
  <2> HIDE DEF Y
  <2> QED BY <1>1, Induction
<1> QED BY <1>2

LEMMA Kept ==
  ASSUME NEW n \in Nat, NEW X, NEW f, f[0] \in X, \A i \in 1 .. n : f[i - 1] \in X => f[i] \in X
  PROVE  \A i \in 0 .. n : f[i] \in X
<1>1. 0 \in 0 .. n /\ \A i \in 0 + 1 .. n : i \in 1 .. n
  OBVIOUS
<1> QED BY <1>1, KeptFrom

\* A function that gives each of its values from a later one, and one that gives
\* them from the one before.
Jumping(g, S, n, last, step, next) ==
  /\ g \in [1 .. n + 1 -> S] /\ g[n + 1] = last
  /\ \A i \in 1 .. n : g[i] = step[i][g[next[i]]]

Stepping(g, S, n, first, step) ==
  /\ g \in [0 .. n -> S] /\ g[0] = first
  /\ \A i \in 1 .. n : g[i] = step[i][g[i - 1]]

\* Given how each value is made of a later one, and the last value, there is such a
\* function.
LEMMA Jumps ==
  ASSUME NEW S, NEW n \in Nat, NEW last \in S, NEW step \in [1 .. n -> [S -> S]],
         NEW next \in [1 .. n -> Nat], \A i \in 1 .. n : next[i] \in i + 1 .. n + 1
  PROVE  \E g : Jumping(g, S, n, last, step, next)
<1> DEFINE From(g, k) ==
             /\ g \in [1 .. n + 1 -> S] /\ g[n + 1] = last
             /\ \A i \in 1 .. n : i > n - k => g[i] = step[i][g[next[i]]]
           X == {k \in Nat : k <= n => \E g : From(g, k)}
<1>1. ASSUME NEW k \in Nat, \A l \in Nat : l < k => l \in X PROVE k \in X
  <2> SUFFICES ASSUME k <= n PROVE \E g : From(g, k)
    OBVIOUS
  <2>1. CASE k = 0
    <3>1. From([i \in 1 .. n + 1 |-> last], k)
      BY <2>1
    <3> QED BY <3>1
  <2>2. CASE k > 0
    <3>1. PICK g : From(g, k - 1)
      <4>1. k - 1 \in Nat /\ k - 1 < k /\ k - 1 <= n
        BY <2>2
      <4>2. k - 1 \in X
        BY <1>1, <4>1
      <4> QED BY <4>1, <4>2
    <3> DEFINE j == n + 1 - k
    <3>2. j \in 1 .. n /\ next[j] \in j + 1 .. n + 1
      BY <2>2
    <3> DEFINE h == [g EXCEPT ![j] = step[j][g[next[j]]]]
    <3>4. step[j][g[next[j]]] \in S
      BY <3>1, <3>2
    <3>5. h \in [1 .. n + 1 -> S] /\ h[n + 1] = last
      BY <3>1, <3>2, <3>4
    <3>6. \A i \in 1 .. n + 1 : i # j => h[i] = g[i]
      BY <3>1
    <3>7. h[j] = step[j][g[next[j]]]
      BY <3>1, <3>2
    <3> HIDE DEF h
    <3>8. ASSUME NEW i \in 1 .. n, i > n - k PROVE h[i] = step[i][h[next[i]]]
      <4>1. next[i] \in 1 .. n + 1 /\ next[i] # j /\ i \in 1 .. n + 1
        BY <3>8
      <4>2. CASE i = j
        BY <3>6, <3>7, <4>1, <4>2
      <4>3. CASE i # j
        <5>1. i > n - (k - 1)
          BY <3>8, <4>3
        <5>2. g[i] = step[i][g[next[i]]]
          BY <3>1, <5>1
        <5> QED BY <3>6, <4>1, <4>3, <5>2
      <4> QED BY <4>2, <4>3
    <3> QED BY <3>5, <3>8
  <2> HIDE DEF From
  <2> QED BY <2>1, <2>2
<1>2. n \in X
  <2> HIDE DEF X
  <2> QED BY <1>1, Induction
<1>3. PICK g : From(g, n)
  BY <1>2
<1>4. \A i \in 1 .. n : i > n - n
  OBVIOUS
<1> QED BY <1>3, <1>4 DEF Jumping

\* ... and such a function from the first value on.
LEMMA Steps ==
  ASSUME NEW S, NEW n \in Nat, NEW first \in S, NEW step \in [1 .. n -> [S -> S]]
  PROVE  \E g : Stepping(g, S, n, first, step)
<1> DEFINE To(g, k) ==
             /\ g \in [0 .. n -> S] /\ g[0] = first
             /\ \A i \in 1 .. n : i <= k => g[i] = step[i][g[i - 1]]
           X == {k \in Nat : k <= n => \E g : To(g, k)}
<1>1. ASSUME NEW k \in Nat, \A l \in Nat : l < k => l \in X PROVE k \in X
  <2> SUFFICES ASSUME k <= n PROVE \E g : To(g, k)
    OBVIOUS
  <2>1. CASE k = 0
    <3>1. To([i \in 0 .. n |-> first], k)
      BY <2>1
    <3> QED BY <3>1
  <2>2. CASE k > 0
    <3>1. PICK g : To(g, k - 1)
      <4>1. k - 1 \in Nat /\ k - 1 < k /\ k - 1 <= n
        BY <2>2
      <4>2. k - 1 \in X
        BY <1>1, <4>1
      <4> QED BY <4>1, <4>2
    <3>2. k \in 1 .. n /\ k - 1 \in 0 .. n
      BY <2>2
    <3> DEFINE h == [g EXCEPT ![k] = step[k][g[k - 1]]]
    <3>3. step[k][g[k - 1]] \in S
      BY <3>1, <3>2
    <3>5. h \in [0 .. n -> S] /\ h[0] = first
      BY <3>1, <3>2, <3>3
    <3>6. \A i \in 0 .. n : i # k => h[i] = g[i]
      BY <3>1
    <3>7. h[k] = step[k][g[k - 1]]
      BY <3>1, <3>2
    <3> HIDE DEF h
    <3>8. ASSUME NEW i \in 1 .. n, i <= k PROVE h[i] = step[i][h[i - 1]]
      <4>1. CASE i = k
        BY <3>2, <3>6, <3>7, <4>1
      <4>2. CASE i # k
        <5>1. i <= k - 1
          BY <3>8, <4>2
        <5> QED BY <3>1, <3>6, <3>8, <4>2, <5>1
      <4> QED BY <4>1, <4>2
    <3> QED BY <3>5, <3>8
  <2> QED BY <2>1, <2>2
<1>2. n \in X
  <2> HIDE DEF X
  <2> QED BY <1>1, Induction
<1>3. PICK g : To(g, n)
  BY <1>2
<1> QED BY <1>3 DEF Stepping

=============================================================================
