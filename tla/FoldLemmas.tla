----------------------------- MODULE FoldLemmas -----------------------------
(***************************************************************************)
(* Induction over the natural numbers, as a fact about sets, and what the  *)
(* fold of a sequence is: the last value of the trace that starts with the *)
(* base and goes on with one element after the other.                      *)
(***************************************************************************)
EXTENDS Integers, SequencesExt, WellFoundedInduction, TLAPS

\* A set with 0 that has the successor of each of its numbers has all numbers.
LEMMA NatSet ==
  ASSUME NEW S, 0 \in S, \A n \in Nat : n \in S => n + 1 \in S
  PROVE  Nat \subseteq S
<1> DEFINE R == OpToRel(<, Nat)
           T == Nat \ S
<1>1. SUFFICES ASSUME T # {} PROVE FALSE
  OBVIOUS
<1>2. IsWellFoundedOn(R, Nat)
  BY NatLessThanWellFounded, Zenon
<1>3. \A x, y \in Nat : x < y => <<x, y>> \in R
  BY DEF OpToRel
<1> HIDE DEF R
<1>4. PICK x \in T : \A y \in T : ~ (<<y, x>> \in R)
  <2> HIDE DEF T
  <2>1. T \subseteq Nat
    BY DEF T
  <2> QED BY <1>1, <1>2, <2>1, WFMin
<1>5. x - 1 \in T /\ x - 1 < x
  BY <1>4
<1> QED BY <1>3, <1>4, <1>5

\* A set of numbers up to n that is not empty has a greatest one.
LEMMA Greatest ==
  ASSUME NEW n \in Nat, NEW X \in SUBSET (1..n), X # {}
  PROVE  \E m \in X : \A y \in X : m >= y
<1> DEFINE P(k) == \A Y \in SUBSET (1..k) :
                     Y # {} => \E m \in Y : \A y \in Y : m >= y
           S == {k \in Nat : P(k)}
<1>1. P(0)
  <2>1. 1..0 = {}
    OBVIOUS
  <2> QED BY <2>1
<1>2. ASSUME NEW k \in Nat, P(k) PROVE P(k + 1)
  <2> SUFFICES ASSUME NEW Y \in SUBSET (1..k + 1), Y # {}
               PROVE  \E m \in Y : \A y \in Y : m >= y
    OBVIOUS
  <2>1. CASE k + 1 \in Y
    BY <2>1
  <2>2. CASE k + 1 \notin Y
    <3>1. Y \in SUBSET (1..k)
      BY <2>2
    <3> QED BY <1>2, <3>1
  <2> QED BY <2>1, <2>2
<1> HIDE DEF P
<1>3. 0 \in S /\ \A k \in Nat : k \in S => k + 1 \in S
  BY <1>1, <1>2
<1>4. n \in S
  <2> HIDE DEF S
  <2> QED BY <1>3, NatSet
<1> QED BY <1>4 DEF P

\* Max is that one.
LEMMA MaxIs ==
  ASSUME NEW n \in Nat, NEW X \in SUBSET (1..n), X # {}
  PROVE  Max(X) \in X /\ \A y \in X : Max(X) >= y
<1>1. \E m \in X : \A y \in X : m >= y
  BY Greatest
<1> QED BY <1>1, Zenon DEF Max

\* And a greatest one is Max.
LEMMA MaxUnique ==
  ASSUME NEW n \in Nat, NEW X \in SUBSET (1..n), NEW m \in X, \A y \in X : m >= y
  PROVE  Max(X) = m
<1>1. PICK M : M = Max(X)
  OBVIOUS
<1>2. M \in X /\ \A y \in X : M >= y
  BY <1>1, MaxIs
<1>3. M \in Int /\ m \in Int /\ M >= m /\ m >= M
  BY <1>2
<1>4. M = m
  BY <1>3
<1> QED BY <1>1, <1>4

\* A set of natural numbers that is not empty has a least one, and Min is it.
LEMMA MinIs ==
  ASSUME NEW X \in SUBSET Nat, X # {}
  PROVE  Min(X) \in X /\ \A y \in X : Min(X) <= y
<1> DEFINE R == OpToRel(<, Nat)
<1>1. IsWellFoundedOn(R, Nat)
  BY NatLessThanWellFounded, Zenon
<1>2. \A x, y \in Nat : x < y => <<x, y>> \in R
  BY DEF OpToRel
<1> HIDE DEF R
<1>3. PICK m \in X : \A y \in X : ~ (<<y, m>> \in R)
  <2>1. X \subseteq Nat
    OBVIOUS
  <2> QED BY <1>1, <2>1, WFMin
<1>4. ASSUME NEW y \in X PROVE m <= y
  <2>1. m \in Nat /\ y \in Nat /\ ~ (y < m)
    BY <1>2, <1>3
  <2> QED BY <2>1
<1> QED BY <1>3, <1>4, Zenon DEF Min

\* And a least one is Min.
LEMMA MinUnique ==
  ASSUME NEW X \in SUBSET Nat, NEW m \in X, \A y \in X : m <= y
  PROVE  Min(X) = m
<1>1. PICK M : M = Min(X)
  OBVIOUS
<1>2. M \in X /\ \A y \in X : M <= y
  BY <1>1, MinIs
<1>3. M \in Int /\ m \in Int /\ M >= m /\ m >= M
  BY <1>2
<1>4. M = m
  BY <1>3
<1> QED BY <1>1, <1>4

-----------------------------------------------------------------------------
\* What the fold of the function h from b over s is at a set of positions, by
\* what it is without the last of them.
FoldEqn(f, h, b, n, s) ==
  f = [X \in SUBSET (1..n) |->
         IF X = {} THEN b ELSE h[<<f[X \ {Max(X)}], s[Max(X)]>>]]

\* There is such a function, for a sequence of any length.
LEMMA FoldExists ==
  ASSUME NEW T, NEW S, NEW h \in [T \X S -> T], NEW b \in T,
         NEW n \in Nat, NEW s \in [1..n -> S]
  PROVE  \E f \in [SUBSET (1..n) -> T] : FoldEqn(f, h, b, n, s)
<1> DEFINE E(f, k) == \A X \in SUBSET (1..k) :
                        f[X] = IF X = {} THEN b
                               ELSE h[<<f[X \ {Max(X)}], s[Max(X)]>>]
           P(k) == k <= n => \E f \in [SUBSET (1..k) -> T] : E(f, k)
           Q == {k \in Nat : P(k)}
<1>1. P(0)
  <2> DEFINE f == [X \in SUBSET (1..0) |-> b]
  <2>1. f \in [SUBSET (1..0) -> T] /\ E(f, 0)
    OBVIOUS
  <2> QED BY <2>1
<1>2. ASSUME NEW k \in Nat, P(k) PROVE P(k + 1)
  <2> SUFFICES ASSUME k + 1 <= n
               PROVE  \E f \in [SUBSET (1..k + 1) -> T] : E(f, k + 1)
    OBVIOUS
  <2>1. PICK f \in [SUBSET (1..k) -> T] : E(f, k)
    <3> HIDE DEF E
    <3>1. k <= n
      OBVIOUS
    <3> QED BY <1>2, <3>1
  <2> DEFINE g == [X \in SUBSET (1..k + 1) |->
                     IF k + 1 \in X THEN h[<<f[X \ {k + 1}], s[k + 1]>>] ELSE f[X]]
  <2>2. \A X \in SUBSET (1..k + 1) : X \ {k + 1} \in SUBSET (1..k)
    OBVIOUS
  <2>3. \A X \in SUBSET (1..k + 1) : k + 1 \notin X => X \in SUBSET (1..k)
    OBVIOUS
  <2>4. s[k + 1] \in S
    OBVIOUS
  <2>5. g \in [SUBSET (1..k + 1) -> T]
    BY <2>2, <2>3, <2>4
  <2>6. E(g, k + 1)
    <3> SUFFICES ASSUME NEW X \in SUBSET (1..k + 1)
                 PROVE  g[X] = IF X = {} THEN b
                               ELSE h[<<g[X \ {Max(X)}], s[Max(X)]>>]
      OBVIOUS
    <3>1. CASE k + 1 \in X
      <4>1. Max(X) = k + 1
        <5>1. \A y \in X : k + 1 >= y
          OBVIOUS
        <5>2. k + 1 \in Nat
          OBVIOUS
        <5> QED BY <3>1, <5>1, <5>2, MaxUnique
      <4>2. g[X \ {k + 1}] = f[X \ {k + 1}]
        BY <2>2
      <4> QED BY <3>1, <4>1, <4>2
    <3>2. CASE k + 1 \notin X /\ X # {}
      <4>1. X \in SUBSET (1..k)
        BY <3>2, <2>3
      <4>2. X \ {Max(X)} \in SUBSET (1..k) /\ k + 1 \notin X \ {Max(X)}
        BY <3>2, <4>1
      <4>3. X \ {Max(X)} \in SUBSET (1..k + 1)
        BY <4>2
      <4>4. g[X \ {Max(X)}] = f[X \ {Max(X)}]
        BY <4>2, <4>3
      <4>5. g[X] = f[X]
        BY <3>2
      <4> QED BY <3>2, <4>1, <4>4, <4>5, <2>1
    <3>3. CASE X = {}
      <4>1. X \in SUBSET (1..k) /\ k + 1 \notin X
        BY <3>3
      <4> QED BY <3>3, <4>1, <2>1
    <3> QED BY <3>1, <3>2, <3>3
  <2> QED BY <2>5, <2>6
<1> HIDE DEF P
<1>3. 0 \in Q /\ \A k \in Nat : k \in Q => k + 1 \in Q
  BY <1>1, <1>2
<1>4. n \in Q
  <2> HIDE DEF Q
  <2> QED BY <1>3, NatSet
<1>5. PICK f \in [SUBSET (1..n) -> T] : E(f, n)
  <2>1. P(n)
    BY <1>4
  <2>2. n <= n
    OBVIOUS
  <2> HIDE DEF E
  <2> QED BY <2>1, <2>2 DEF P
<1> QED BY <1>5 DEF FoldEqn

\* Its values at the sets 1..k are a trace of h.
LEMMA FoldTrace ==
  ASSUME NEW f, NEW h, NEW b, NEW n \in Nat, NEW s, FoldEqn(f, h, b, n, s)
  PROVE  /\ f[1..0] = b
         /\ \A k \in 1..n : f[1..k] = h[<<f[1..k - 1], s[k]>>]
<1>1. f[1..0] = b
  <2>1. 1..0 = {} /\ {} \in SUBSET (1..n)
    OBVIOUS
  <2> QED BY <2>1 DEF FoldEqn
<1>2. ASSUME NEW k \in 1..n PROVE f[1..k] = h[<<f[1..k - 1], s[k]>>]
  <2>1. 1..k \in SUBSET (1..n) /\ k \in 1..k
    OBVIOUS
  <2>2. Max(1..k) = k
    <3>1. \A y \in 1..k : k >= y
      OBVIOUS
    <3> QED BY <2>1, <3>1, MaxUnique
  <2>3. (1..k) \ {k} = 1..k - 1
    OBVIOUS
  <2> QED BY <2>1, <2>2, <2>3 DEF FoldEqn
<1> QED BY <1>1, <1>2
=============================================================================
