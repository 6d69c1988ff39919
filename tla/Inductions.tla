----------------------------- MODULE Inductions -----------------------------
(***************************************************************************)
(* Induction over numbers as a fact about sets of numbers, and what comes  *)
(* of a recursive definition that follows a link again and again.          *)
(***************************************************************************)
EXTENDS Integers, FiniteSets, FiniteSetTheorems, TLAPS

(* Orbit(f, x)[k] is where k steps of f lead to from x.                    *)
Orbit(f, x) ==
  LET step[k \in Nat] == IF k = 0 THEN x ELSE f[step[k - 1]] IN step

(* A set with 0 and with the successor of each of its numbers has them     *)
(* all: those up to a missing n that are missing would be as many as the   *)
(* ones among them that are less than n.                                   *)
LEMMA NatSetInduction ==
  ASSUME NEW S, 0 \in S, \A n \in Nat : n \in S => n + 1 \in S
  PROVE  \A n \in Nat : n \in S
<1> SUFFICES ASSUME NEW n \in Nat, n \notin S
             PROVE  FALSE
  OBVIOUS
<1> DEFINE D == {i \in 0 .. n : i \notin S}
           E == D \ {n}
           f == [i \in D |-> i - 1]
<1>1. \A i \in D : i \in Int /\ i >= 1 /\ i - 1 \in D /\ i - 1 # n
  OBVIOUS
<1>2. n \in D
  OBVIOUS
<1>3. IsFiniteSet(D)
  <2>1. IsFiniteSet(0 .. n)
    BY FS_Interval
  <2> QED
    BY <2>1, FS_Subset
<1>4. f \in Injection(D, E)
  <2>1. f \in [D -> E]
    BY <1>1
  <2>2. \A i, j \in D : f[i] = f[j] => i = j
    BY <1>1
  <2> HIDE DEF f, D, E
  <2> QED
    BY <2>1, <2>2 DEF Injection, IsInjective
<1> HIDE DEF f, D
<1>5. IsFiniteSet(E) /\ Cardinality(E) = Cardinality(D) - 1
  BY <1>2, <1>3, FS_RemoveElement
<1> HIDE DEF E
<1>6. Cardinality(D) <= Cardinality(E)
  BY <1>4, <1>5, FS_Injection
<1>7. Cardinality(D) \in Nat
  BY <1>3, FS_CardinalityType
<1> QED
  BY <1>5, <1>6, <1>7

(* The beginning of an orbit.                                              *)
Begins(g, f, x, n) ==
  /\ DOMAIN g = 0 .. n
  /\ g[0] = x
  /\ \A k \in 1 .. n : g[k] = f[g[k - 1]]

LEMMA BeginningsExist ==
  ASSUME NEW f, NEW x, NEW n \in Nat
  PROVE  \E g : Begins(g, f, x, n)
<1> DEFINE S == {m \in Nat : \E g : Begins(g, f, x, m)}
<1>1. 0 \in S
  <2>1. Begins([k \in 0 .. 0 |-> x], f, x, 0)
    BY DEF Begins
  <2> QED
    BY <2>1
<1>2. ASSUME NEW m \in Nat, m \in S
      PROVE  m + 1 \in S
  <2>1. PICK g : Begins(g, f, x, m)
    BY <1>2
  <2> DEFINE h == [k \in 0 .. m + 1 |-> IF k <= m THEN g[k] ELSE f[g[m]]]
  <2>2. Begins(h, f, x, m + 1)
    <3>1. DOMAIN h = 0 .. m + 1 /\ h[0] = x
      BY <2>1 DEF Begins
    <3>2. ASSUME NEW k \in 1 .. m + 1
          PROVE  h[k] = f[h[k - 1]]
      <4>1. CASE k <= m
        <5>1. h[k] = g[k] /\ h[k - 1] = g[k - 1] /\ k \in 1 .. m
          BY <4>1
        <5> QED
          BY <2>1, <5>1 DEF Begins
      <4>2. CASE k = m + 1
        BY <4>2
      <4> QED
        BY <4>1, <4>2
    <3> HIDE DEF h
    <3> QED
      BY <3>1, <3>2 DEF Begins
  <2> QED
    BY <2>2
<1> HIDE DEF S
<1>3. n \in S
  BY <1>1, <1>2, NatSetInduction
<1> QED
  BY <1>3 DEF S

LEMMA BeginningsAgree ==
  ASSUME NEW f, NEW x, NEW m \in Nat, NEW n \in Nat, m <= n, NEW g, NEW h,
         Begins(g, f, x, m), Begins(h, f, x, n)
  PROVE  \A k \in 0 .. m : g[k] = h[k]
<1> DEFINE S == {k \in Nat : k <= m => g[k] = h[k]}
<1>1. 0 \in S
  BY DEF Begins
<1>2. ASSUME NEW k \in Nat, k \in S
      PROVE  k + 1 \in S
  <2> SUFFICES ASSUME k + 1 <= m
               PROVE  g[k + 1] = h[k + 1]
    OBVIOUS
  <2>1. k + 1 \in 1 .. m /\ k + 1 \in 1 .. n /\ (k + 1) - 1 = k
    OBVIOUS
  <2>2. g[k] = h[k]
    BY <1>2
  <2>3. g[k + 1] = f[g[k]] /\ h[k + 1] = f[h[k]]
    BY <2>1 DEF Begins
  <2> QED
    BY <2>2, <2>3
<1> HIDE DEF S
<1>3. \A k \in Nat : k \in S
  BY <1>1, <1>2, NatSetInduction
<1> QED
  BY <1>3 DEF S

(* Orbit is a function that satisfies its recursive definition.            *)
LEMMA OrbitDef ==
  ASSUME NEW f, NEW x
  PROVE  /\ DOMAIN Orbit(f, x) = Nat
         /\ Orbit(f, x)[0] = x
         /\ \A k \in Nat : Orbit(f, x)[k + 1] = f[Orbit(f, x)[k]]
<1> DEFINE beginning(n) == CHOOSE g : Begins(g, f, x, n)
           all == [k \in Nat |-> beginning(k)[k]]
<1>1. \A n \in Nat : Begins(beginning(n), f, x, n)
  BY BeginningsExist
<1> HIDE DEF beginning
<1>2. all[0] = x
  BY <1>1 DEF Begins
<1>3. ASSUME NEW k \in Nat
      PROVE  all[k + 1] = f[all[k]]
  <2>1. beginning(k + 1)[k + 1] = f[beginning(k + 1)[k]]
    <3>1. k + 1 \in 1 .. k + 1 /\ k + 1 \in Nat /\ (k + 1) - 1 = k
      OBVIOUS
    <3>2. Begins(beginning(k + 1), f, x, k + 1)
      BY <1>1, <3>1
    <3> QED
      BY <3>1, <3>2 DEF Begins
  <2>2. beginning(k + 1)[k] = beginning(k)[k]
    <3>1. k + 1 \in Nat /\ k <= k + 1 /\ k \in 0 .. k
      OBVIOUS
    <3> QED
      BY <1>1, <3>1, BeginningsAgree
  <2> QED
    BY <2>1, <2>2
<1>4. all = [k \in Nat |-> IF k = 0 THEN x ELSE f[all[k - 1]]]
  <2>1. ASSUME NEW k \in Nat
        PROVE  all[k] = IF k = 0 THEN x ELSE f[all[k - 1]]
    <3>1. CASE k = 0
      BY <1>2, <3>1
    <3>2. CASE k # 0
      <4>1. k - 1 \in Nat /\ (k - 1) + 1 = k
        BY <3>2
      <4> HIDE DEF all
      <4>2. all[(k - 1) + 1] = f[all[k - 1]]
        BY <1>3, <4>1
      <4> QED
        BY <3>2, <4>1, <4>2
    <3> QED
      BY <3>1, <3>2
  <2> QED
    BY <2>1
<1> HIDE DEF all
<1> DEFINE step == CHOOSE g : g = [k \in Nat |-> IF k = 0 THEN x ELSE f[g[k - 1]]]
<1>5. step = [k \in Nat |-> IF k = 0 THEN x ELSE f[step[k - 1]]]
  BY <1>4
<1>6. Orbit(f, x) = step
  BY DEF Orbit
<1> HIDE DEF step
<1>7. ASSUME NEW k \in Nat
      PROVE  step[k + 1] = f[step[k]]
  <2>1. k + 1 \in Nat /\ k + 1 # 0 /\ (k + 1) - 1 = k
    OBVIOUS
  <2> QED
    BY <1>5, <2>1
<1>8. DOMAIN step = Nat /\ step[0] = x
  BY <1>5
<1> QED
  BY <1>6, <1>7, <1>8
-----------------------------------------------------------------------------
(* A set of natural numbers that has an element has a least one.           *)
LEMMA LeastNat ==
  ASSUME NEW S, S \subseteq Nat, NEW n \in S
  PROVE  \E m \in S : \A k \in S : m <= k
<1> SUFFICES ASSUME \A m \in S : \E k \in S : k < m
             PROVE  FALSE
  OBVIOUS
<1> DEFINE B == {b \in Nat : \A k \in S : k >= b}
<1>1. 0 \in B
  OBVIOUS
<1>2. \A b \in Nat : b \in B => b + 1 \in B
  OBVIOUS
<1>3. \A b \in Nat : b \in B
  <2> HIDE DEF B
  <2> QED
    BY <1>1, <1>2, NatSetInduction
<1>4. n + 1 \in B
  BY <1>3
<1> QED
  BY <1>4

=============================================================================
