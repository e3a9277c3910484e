--------------------------- MODULE NaturalInduction ---------------------------
(***************************************************************************)
(* Induction over the natural numbers, and functions defined by it, stated *)
(* of sets and functions, so that no operator has to be passed to a        *)
(* theorem: what is to be proved of every number is the set of the numbers *)
(* of which it is true.                                                    *)
(***************************************************************************)
EXTENDS Integers, WellFoundedInduction, TLAPS

Below == {p \in Nat \X Nat : p[1] < p[2]}

LEMMA BelowWellFounded == IsWellFoundedOn(Below, Nat)
<1>1. OpToRel(<, Nat) = Below
  BY Zenon DEF OpToRel, Below
<1> QED
  BY <1>1, NatLessThanWellFounded

\* A set with 0 that has the successor of each number it has has all numbers.
THEOREM SetInduction ==
  ASSUME NEW S, 0 \in S, \A n \in Nat : n \in S => n + 1 \in S
  PROVE  \A n \in Nat : n \in S
<1> SUFFICES ASSUME NEW m \in Nat, m \notin S
             PROVE  FALSE
  OBVIOUS
<1> DEFINE T == {n \in Nat : n \notin S}
<1>1. T \subseteq Nat /\ T # {}
  OBVIOUS
<1> HIDE DEF T
<1>2. PICK k \in T : \A n \in T : <<n, k>> \notin Below
  BY <1>1, BelowWellFounded, WFMin
<1>3. k # 0 /\ k \in Nat /\ k - 1 \in Nat /\ k - 1 + 1 = k /\ k \notin S
  BY <1>2 DEF T
<1>4. <<k - 1, k>> \in Below
  BY <1>3 DEF Below
<1>5. k - 1 \notin T
  BY <1>2, <1>3, <1>4
<1> QED
  BY <1>3, <1>5 DEF T

\* Of some numbers one is the least.
THEOREM LeastNumber ==
  ASSUME NEW S, S \subseteq Nat, S # {}
  PROVE  \E k \in S : \A n \in S : k <= n
<1>1. PICK k \in S : \A n \in S : <<n, k>> \notin Below
  BY BelowWellFounded, WFMin
<1>2. ASSUME NEW n \in S
      PROVE  k <= n
  <2>1. k \in Nat /\ n \in Nat
    OBVIOUS
  <2>2. ~(n < k)
    BY <1>1, <2>1 DEF Below
  <2> QED
    BY <2>1, <2>2
<1> QED
  BY <1>2

\* f is step applied n times to a, for n up to m.
IteratedTo(f, a, step, m) ==
  /\ DOMAIN f = 0..m /\ f[0] = a
  /\ \A n \in 0..m - 1 : f[n + 1] = step[f[n]]

LEMMA IteratedToUnique ==
  ASSUME NEW f, NEW g, NEW a, NEW step, NEW m \in Nat, NEW k \in Nat,
         IteratedTo(f, a, step, m), IteratedTo(g, a, step, k)
  PROVE  \A n \in Nat : n <= m /\ n <= k => f[n] = g[n]
<1> DEFINE S == {n \in Nat : n <= m /\ n <= k => f[n] = g[n]}
<1>1. 0 \in S
  BY DEF IteratedTo
<1>2. ASSUME NEW n \in Nat, n \in S
      PROVE  n + 1 \in S
  <2> SUFFICES ASSUME n + 1 <= m, n + 1 <= k
               PROVE  f[n + 1] = g[n + 1]
    OBVIOUS
  <2>1. n \in 0..m - 1 /\ n \in 0..k - 1 /\ n <= m /\ n <= k
    OBVIOUS
  <2> QED
    BY <1>2, <2>1 DEF IteratedTo
<1> HIDE DEF S
<1>3. \A n \in Nat : n \in S
  BY <1>1, <1>2, SetInduction
<1> QED
  BY <1>3 DEF S

LEMMA IteratedToExists ==
  ASSUME NEW D, NEW a \in D, NEW step \in [D -> D]
  PROVE  \A m \in Nat : \E f \in [0..m -> D] : IteratedTo(f, a, step, m)
<1> DEFINE S == {m \in Nat : \E f \in [0..m -> D] : IteratedTo(f, a, step, m)}
<1>1. 0 \in S
  <2> DEFINE f == [n \in 0..0 |-> a]
  <2>1. f \in [0..0 -> D] /\ IteratedTo(f, a, step, 0)
    BY DEF IteratedTo
  <2> QED
    BY <2>1
<1>2. ASSUME NEW m \in Nat, m \in S
      PROVE  m + 1 \in S
  <2>1. PICK f \in [0..m -> D] : IteratedTo(f, a, step, m)
    BY <1>2
  <2> DEFINE g == [n \in 0..m + 1 |-> IF n = m + 1 THEN step[f[m]] ELSE f[n]]
  <2>2. m \in 0..m /\ f[m] \in D /\ step[f[m]] \in D
    BY <2>1
  <2>3. g \in [0..m + 1 -> D]
    BY <2>1, <2>2
  <2>4. g[0] = a /\ DOMAIN g = 0..m + 1
    BY <2>1 DEF IteratedTo
  <2>5. ASSUME NEW n \in 0..m + 1 - 1
        PROVE  g[n + 1] = step[g[n]]
    <3>1. CASE n = m
      BY <3>1
    <3>2. CASE n # m
      <4>1. n \in 0..m - 1 /\ n \in 0..m + 1 /\ n + 1 \in 0..m + 1 /\ n + 1 # m + 1
        BY <3>2
      <4>2. g[n + 1] = f[n + 1] /\ g[n] = f[n]
        BY <4>1
      <4> QED
        BY <2>1, <4>1, <4>2 DEF IteratedTo
    <3> QED
      BY <3>1, <3>2
  <2> HIDE DEF g
  <2>6. IteratedTo(g, a, step, m + 1)
    BY <2>4, <2>5 DEF IteratedTo
  <2> QED
    BY <2>3, <2>6
<1> HIDE DEF S
<1>3. \A m \in Nat : m \in S
  BY <1>1, <1>2, SetInduction
<1> QED
  BY <1>3 DEF S

\* There is a function that begins with a and goes on by step.
THEOREM IterationExists ==
  ASSUME NEW D, NEW a \in D, NEW step \in [D -> D]
  PROVE  \E f \in [Nat -> D] : f[0] = a /\ \A n \in Nat : f[n + 1] = step[f[n]]
<1> DEFINE P(m) == CHOOSE f \in [0..m -> D] : IteratedTo(f, a, step, m)
           f == [n \in Nat |-> P(n)[n]]
<1>1. \A m \in Nat : P(m) \in [0..m -> D] /\ IteratedTo(P(m), a, step, m)
  BY IteratedToExists
<1> HIDE DEF P
<1>2. f \in [Nat -> D]
  <2>1. ASSUME NEW n \in Nat
        PROVE  P(n)[n] \in D
    <3>1. n \in 0..n
      OBVIOUS
    <3> QED
      BY <1>1, <3>1
  <2> QED
    BY <2>1
<1>3. f[0] = a
  BY <1>1 DEF IteratedTo
<1>4. ASSUME NEW n \in Nat
      PROVE  f[n + 1] = step[f[n]]
  <2>1. n + 1 \in Nat /\ n \in 0..n + 1 - 1 /\ n <= n + 1 /\ n <= n
    OBVIOUS
  <2>2. P(n + 1)[n] = P(n)[n]
    BY <1>1, <2>1, IteratedToUnique
  <2>3. P(n + 1)[n + 1] = step[P(n + 1)[n]]
    BY <1>1, <2>1 DEF IteratedTo
  <2> QED
    BY <2>1, <2>2, <2>3
<1> QED
  BY <1>2, <1>3, <1>4
=============================================================================
