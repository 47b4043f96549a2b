--------------------------- MODULE NaturalLemmas ---------------------------
(***************************************************************************)
(* The least-number principle, and what follows from it: induction over an *)
(* interval, for a set in the place of a predicate, and the existence of   *)
(* functions that are defined by recursion over one.                       *)
(***************************************************************************)
EXTENDS Integers, WellFoundedInduction, TLAPS

\* A set of naturals that is not empty has a least element.
LEMMA LeastNatural ==
    ASSUME NEW T, T \subseteq Nat, T # {}
    PROVE  \E m \in T : \A k \in T : m <= k
<1> DEFINE R == OpToRel(<, Nat)
<1>1. IsWellFoundedOn(R, Nat)
  BY NatLessThanWellFounded, Zenon
<1> HIDE DEF R
<1>2. \E x \in T : \A y \in T : ~ (<<y, x>> \in R)
  BY <1>1, WFMin
<1>3. \A x, y \in T : y < x => <<y, x>> \in R
  BY DEF R, OpToRel
<1>4. PICK m \in T : \A y \in T : ~ (<<y, m>> \in R)
  BY <1>2
<1>5. ASSUME NEW k \in T PROVE m <= k
  <2>1. ~ (k < m)
    BY <1>3, <1>4
  <2>2. k \in Nat /\ m \in Nat
    OBVIOUS
  <2> QED
    BY <2>1, <2>2
<1> QED
  BY <1>5

\* A set that has m, and with every number below n also the next, has m .. n.
LEMMA IntervalInduction ==
    ASSUME NEW m \in Nat, NEW n \in Nat, NEW P,
           m \in P,
           \A i \in m .. n - 1 : i \in P => i + 1 \in P
    PROVE  m .. n \subseteq P
<1> DEFINE T == {i \in m .. n : i \notin P}
<1> SUFFICES ASSUME T # {} PROVE FALSE
  OBVIOUS
<1>1. T \subseteq Nat
  OBVIOUS
<1>2. PICK k \in T : \A j \in T : k <= j
  <2> HIDE DEF T
  <2> QED
    BY <1>1, LeastNatural
<1>3. k # m /\ k \in m .. n /\ k \notin P
  BY <1>2
<1>4. k - 1 \in m .. n - 1 /\ k - 1 \notin T
  BY <1>2, <1>3
<1>5. k - 1 \in P /\ (k - 1) + 1 = k
  BY <1>4
<1> QED
  BY <1>3, <1>4, <1>5

\* g is the recursive function with this base and step, on m .. n.
Recursive(g, m, n, base, step) ==
    \A i \in m .. n : g[i] = IF i = m THEN base ELSE step[<<i, g[i - 1]>>]

\* There is such a function, with its values in S.
LEMMA RecursiveFunction ==
    ASSUME NEW m \in Nat, NEW n \in Nat, m <= n, NEW S, NEW base \in S,
           NEW step \in [(m .. n) \X S -> S]
    PROVE  \E g \in [m .. n -> S] : Recursive(g, m, n, base, step)
<1> DEFINE P == {k \in m .. n : \E g \in [m .. k -> S] : Recursive(g, m, k, base, step)}
<1>1. m \in P
  <2> DEFINE g == [i \in m .. m |-> base]
  <2>1. g \in [m .. m -> S] /\ (\A i \in m .. m : i = m /\ g[i] = base)
    OBVIOUS
  <2> HIDE DEF g
  <2>2. Recursive(g, m, m, base, step)
    BY <2>1 DEF Recursive
  <2>3. m \in m .. n
    OBVIOUS
  <2> QED
    BY <2>1, <2>2, <2>3
<1>2. ASSUME NEW k \in m .. n - 1, k \in P PROVE k + 1 \in P
  <2>1. PICK g \in [m .. k -> S] : Recursive(g, m, k, base, step)
    BY <1>2
  <2> DEFINE next == step[<<k + 1, g[k]>>]
             h == [i \in m .. k + 1 |-> IF i = k + 1 THEN next ELSE g[i]]
  <2>2. g[k] \in S /\ <<k + 1, g[k]>> \in (m .. n) \X S
    BY <2>1
  <2>3. next \in S
    BY <2>2
  <2>4. h \in [m .. k + 1 -> S]
    BY <2>3
  <2>5. h[k + 1] = next /\ (\A i \in m .. k : h[i] = g[i])
    OBVIOUS
  <2> HIDE DEF next, h
  <2>6. ASSUME NEW i \in m .. k + 1
        PROVE  h[i] = IF i = m THEN base ELSE step[<<i, h[i - 1]>>]
    <3>1. CASE i = k + 1
      <4>1. i # m /\ h[i - 1] = g[k]
        BY <3>1, <2>5
      <4> QED
        BY <3>1, <4>1, <2>5 DEF next
    <3>2. CASE i # k + 1
      <4>1. i \in m .. k /\ (i # m => i - 1 \in m .. k)
        BY <3>2
      <4>2. h[i] = g[i] /\ (i # m => h[i - 1] = g[i - 1])
        BY <4>1, <2>5
      <4> QED
        BY <4>1, <4>2, <2>1 DEF Recursive
    <3> QED
      BY <3>1, <3>2
  <2>7. Recursive(h, m, k + 1, base, step)
    BY <2>6 DEF Recursive
  <2> QED
    BY <2>4, <2>7
<1> HIDE DEF P
<1>3. m .. n \subseteq P
  BY <1>1, <1>2, IntervalInduction
<1>4. n \in P
  BY <1>3
<1> QED
  BY <1>4 DEF P

=============================================================================
