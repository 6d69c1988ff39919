-------------------------- MODULE ActorConfigProofs --------------------------
(***************************************************************************)
(* Proofs about the runtime of module ActorConfig, for any number of cells *)
(* and messages.                                                           *)
(*                                                                         *)
(* The queues and the free list are lists of cells linked by cdr (Linked), *)
(* found by Chain.  What an operation does to them is stated of the pool   *)
(* alone first, then of the cells in use, then of the whole layout (Laid), *)
(* which is the main conjunct of the invariant RuntimeInv.  From it follow *)
(* the exact counters, the exact pool and the stable event; and since each *)
(* step's effect on the lists is known, every step is one of MessagePump.  *)
(***************************************************************************)
EXTENDS ActorConfig, Inductions, SequenceTheorems, TLAPS

(***************************************************************************)
(* Lists of cells.                                                         *)
(***************************************************************************)

(* A sequence with an element put in front of it.                          *)
LEMMA Prepend ==
  ASSUME NEW T, NEW x \in T, NEW s \in Seq(T)
  PROVE  /\ <<x>> \o s \in Seq(T)
         /\ Len(<<x>> \o s) = Len(s) + 1
         /\ <<x>> \o s = [i \in 1 .. Len(s) + 1 |-> IF i = 1 THEN x ELSE s[i - 1]]
<1>1. PICK one : one = <<x>>
  OBVIOUS
<1>2. one \in Seq(T) /\ Len(one) = 1 /\ one[1] = x
  BY <1>1
<1>3. Len(s) \in Nat
  BY LenProperties
<1>4. /\ one \o s \in Seq(T)
      /\ Len(one \o s) = Len(one) + Len(s)
      /\ \A i \in 1 .. Len(one) + Len(s) :
           (one \o s)[i] = IF i <= Len(one) THEN one[i] ELSE s[i - Len(one)]
  BY <1>2, ConcatProperties
<1>5. PICK all : all = one \o s
  OBVIOUS
<1>6. all \in Seq(T) /\ Len(all) = Len(s) + 1
  BY <1>2, <1>3, <1>4, <1>5
<1>7. all = [i \in 1 .. Len(s) + 1 |-> all[i]]
  BY <1>6, LenProperties
<1>8. \A i \in 1 .. Len(s) + 1 : all[i] = IF i = 1 THEN x ELSE s[i - 1]
  BY <1>2, <1>3, <1>4, <1>5
<1>9. all = [i \in 1 .. Len(s) + 1 |-> IF i = 1 THEN x ELSE s[i - 1]]
  BY <1>7, <1>8
<1> QED
  BY <1>1, <1>5, <1>6, <1>9

(* The function by which Chain walks along a list.                         *)
IsWalk(g, p, N) ==
  g = [n \in 0 .. N |->
         [d \in PoolCell \cup {NIL} |->
            IF n = 0 \/ d = NIL THEN << >> ELSE <<d>> \o g[n - 1][p.cdr[d]]]]

(* That function exists, whatever the cells hold: Chain unfolds it.        *)
LEMMA WalkExists ==
  ASSUME NEW p, NEW N \in Nat
  PROVE  \E g : IsWalk(g, p, N)
<1> DEFINE S == {m \in Nat : \E g : IsWalk(g, p, m)}
           row(n, before) == [d \in PoolCell \cup {NIL} |->
                                IF n = 0 \/ d = NIL THEN << >> ELSE <<d>> \o before[p.cdr[d]]]
<1>1. 0 \in S
  <2> DEFINE g == [n \in 0 .. 0 |-> [d \in PoolCell \cup {NIL} |-> << >>]]
  <2>1. IsWalk(g, p, 0)
    BY DEF IsWalk
  <2> QED
    BY <2>1
<1>2. ASSUME NEW m \in Nat, m \in S
      PROVE  m + 1 \in S
  <2>1. PICK g : IsWalk(g, p, m)
    BY <1>2
  <2>2. g = [n \in 0 .. m |-> row(n, g[n - 1])]
    BY <2>1 DEF IsWalk
  <2> HIDE DEF row
  <2> DEFINE h == [n \in 0 .. m + 1 |-> IF n <= m THEN g[n] ELSE row(n, g[m])]
  <2>3. ASSUME NEW n \in 0 .. m + 1
        PROVE  h[n] = row(n, h[n - 1])
    <3>1. CASE n = m + 1
      <4>1. h[n] = row(n, g[m]) /\ h[n - 1] = g[m]
        BY <3>1
      <4> QED
        BY <4>1
    <3>2. CASE n \in 1 .. m
      <4>1. h[n] = g[n] /\ h[n - 1] = g[n - 1] /\ n \in 0 .. m
        BY <3>2
      <4> QED
        BY <2>2, <4>1
    <3>3. CASE n = 0
      <4>1. h[0] = g[0] /\ g[0] = row(0, g[0 - 1])
        BY <2>2
      <4>2. row(0, g[0 - 1]) = row(0, h[0 - 1])
        BY DEF row
      <4> QED
        BY <3>3, <4>1, <4>2
    <3> QED
      BY <3>1, <3>2, <3>3
  <2>4. h = [n \in 0 .. m + 1 |-> row(n, h[n - 1])]
    BY <2>3
  <2> HIDE DEF h
  <2>5. IsWalk(h, p, m + 1)
    BY <2>4 DEF IsWalk, row
  <2> QED
    BY <2>5
<1> HIDE DEF S
<1>3. N \in S
  BY <1>1, <1>2, NatSetInduction
<1> QED
  BY <1>3 DEF S

(* s is the list that is linked by cdr from c on, with no cell twice.      *)
Linked(cdr, c, s) ==
  /\ s \in Seq(PoolCell)
  /\ c = IF s = << >> THEN NIL ELSE s[1]
  /\ \A k \in DOMAIN s : cdr[s[k]] = IF k = Len(s) THEN NIL ELSE s[k + 1]
  /\ \A j, k \in DOMAIN s : s[j] = s[k] => j = k

(* A list has at most as many cells as there are.                          *)
LEMMA LinkedLength ==
  ASSUME NEW cdr, NEW c, NEW s, Linked(cdr, c, s)
  PROVE  /\ DOMAIN s = 1 .. Len(s)
         /\ Len(s) \in Nat
         /\ Len(s) <= Cardinality(PoolCell)
         /\ Cardinality(PoolCell) \in Nat
         /\ \A k \in 1 .. Len(s) : s[k] \in PoolCell /\ s[k] # NIL
<1>1. DOMAIN s = 1 .. Len(s) /\ Len(s) \in Nat /\ \A k \in 1 .. Len(s) : s[k] \in PoolCell
  BY LenProperties, ElementOfSeq DEF Linked
<1>2. s \in Injection(1 .. Len(s), PoolCell)
  BY <1>1, LenProperties DEF Linked, Injection, IsInjective
<1>3. IsFiniteSet(PoolCell) /\ NIL \notin PoolCell
  BY ConstantsAssumption DEF ConstantsAssumption
<1>4. Cardinality(1 .. Len(s)) = Len(s)
  <2>1. PICK n \in Nat : n = Len(s)
    BY <1>1
  <2>2. Cardinality(1 .. n) = IF 1 > n THEN 0 ELSE n - 1 + 1
    BY FS_Interval
  <2>3. Cardinality(1 .. n) = n
    BY <2>2
  <2> QED
    BY <2>1, <2>3
<1> QED
  BY <1>1, <1>2, <1>3, <1>4, FS_Injection, FS_CardinalityType

(* Chain finds the cells of a list in their order.                         *)
LEMMA ChainOfLinked ==
  ASSUME NEW p, NEW c, NEW s, Linked(p.cdr, c, s)
  PROVE  Chain(p, c) = s
<1> DEFINE all == Cardinality(PoolCell) + 1
           len == Len(s)
           D == PoolCell \cup {NIL}
           W(g) == g = [n \in 0 .. all |->
                          [d \in D |-> IF n = 0 \/ d = NIL THEN << >>
                                       ELSE <<d>> \o g[n - 1][p.cdr[d]]]]
           walk == CHOOSE g : W(g)
           from(m) == IF m = 0 THEN NIL ELSE s[len - m + 1]
           rest(m) == [j \in 1 .. m |-> s[len - m + j]]
<1>1. /\ DOMAIN s = 1 .. len /\ len \in Nat /\ all \in Nat /\ len < all
      /\ \A k \in 1 .. len : s[k] \in PoolCell /\ s[k] # NIL
  BY LinkedLength
<1>2. W(walk)
  <2>1. \E g : W(g)
    <3>1. PICK N \in Nat : N = all
      BY <1>1
    <3>2. PICK g : IsWalk(g, p, N)
      BY WalkExists
    <3> QED
      BY <3>1, <3>2 DEF IsWalk
  <2> HIDE DEF W
  <2> QED
    BY <2>1
<1>3. Chain(p, c) = walk[all][c]
  BY DEF Chain
<1> HIDE DEF walk
<1>4. \A n \in 0 .. all : \A d \in D :
        walk[n][d] = IF n = 0 \/ d = NIL THEN << >> ELSE <<d>> \o walk[n - 1][p.cdr[d]]
  <2> SUFFICES ASSUME NEW n \in 0 .. all, NEW d \in D
               PROVE  walk[n][d] = IF n = 0 \/ d = NIL THEN << >> ELSE <<d>> \o walk[n - 1][p.cdr[d]]
    OBVIOUS
  <2> HIDE DEF all, D
  <2>1. walk[n] = [x \in D |-> IF n = 0 \/ x = NIL THEN << >> ELSE <<x>> \o walk[n - 1][p.cdr[x]]]
    BY <1>2
  <2> QED
    BY <2>1
<1> HIDE DEF W
<1>5. \A m \in 0 .. len : from(m) \in D /\ (m # 0 => from(m) # NIL /\ p.cdr[from(m)] = from(m - 1))
  <2> SUFFICES ASSUME NEW m \in 0 .. len, m # 0
               PROVE  /\ from(m) \in PoolCell /\ from(m) # NIL
                      /\ p.cdr[from(m)] = from(m - 1)
    OBVIOUS
  <2>1. len - m + 1 \in 1 .. len
    BY <1>1
  <2>2. p.cdr[s[len - m + 1]] = IF len - m + 1 = len THEN NIL ELSE s[len - m + 1 + 1]
    BY <1>1, <2>1 DEF Linked
  <2>3. (len - m + 1 = len <=> m - 1 = 0) /\ len - m + 1 + 1 = len - (m - 1) + 1
    BY <1>1
  <2> QED
    BY <1>1, <2>1, <2>2, <2>3
<1> DEFINE S == {m \in Nat : m <= len => \A n \in m .. all : walk[n][from(m)] = rest(m)}
<1>6. 0 \in S
  <2>1. rest(0) = << >>
    OBVIOUS
  <2>2. NIL \in D /\ 0 .. all = 0 .. all
    OBVIOUS
  <2>3. \A n \in 0 .. all : walk[n][NIL] = << >>
    BY <1>4, <2>2
  <2> QED
    BY <2>1, <2>3
<1>7. ASSUME NEW m \in Nat, m \in S
      PROVE  m + 1 \in S
  <2> SUFFICES ASSUME m + 1 <= len, NEW n \in m + 1 .. all
               PROVE  walk[n][from(m + 1)] = rest(m + 1)
    BY <1>1
  <2>1. n \in 0 .. all /\ n # 0 /\ n - 1 \in m .. all /\ m + 1 \in 0 .. len /\ m + 1 # 0
        /\ (m + 1) - 1 = m
    BY <1>1
  <2>2. walk[n - 1][from(m)] = rest(m)
    BY <1>1, <1>7, <2>1
  <2>3. from(m + 1) \in D /\ from(m + 1) # NIL /\ p.cdr[from(m + 1)] = from(m)
    BY <1>5, <2>1
  <2>4. walk[n][from(m + 1)] = <<from(m + 1)>> \o rest(m)
    <3> HIDE DEF from, rest
    <3> QED
      BY <1>4, <2>1, <2>2, <2>3
  <2>5. <<from(m + 1)>> \o rest(m) = rest(m + 1)
    <3>1. \A j \in 1 .. m : len - m + j \in 1 .. len
      BY <1>1
    <3>2. rest(m) \in Seq(PoolCell) /\ Len(rest(m)) = m
      <4>1. rest(m) \in [1 .. m -> PoolCell]
        BY <1>1, <3>1
      <4> HIDE DEF rest
      <4> QED
        BY <4>1, SeqDef, LenProperties
    <3> DEFINE x == from(m + 1)
               both == <<x>> \o rest(m)
    <3>3. x \in PoolCell /\ x = s[len - (m + 1) + 1]
      BY <2>3
    <3>4. both = [i \in 1 .. m + 1 |-> IF i = 1 THEN x ELSE rest(m)[i - 1]]
      <4> HIDE DEF x, rest
      <4> QED
        BY <3>2, <3>3, Prepend
    <3>5. ASSUME NEW i \in 1 .. m + 1, i # 1
          PROVE  rest(m)[i - 1] = s[len - (m + 1) + i]
      <4>1. i - 1 \in 1 .. m /\ len - m + (i - 1) = len - (m + 1) + i
        BY <1>1, <3>5
      <4> QED
        BY <4>1
    <3> HIDE DEF x, both
    <3>6. both = [i \in 1 .. m + 1 |-> s[len - (m + 1) + i]]
      <4> HIDE DEF rest
      <4> QED
        BY <3>3, <3>4, <3>5
    <3> QED
      BY <3>6 DEF both, x
  <2> QED
    BY <2>4, <2>5
<1> HIDE DEF S
<1>8. len \in S
  BY <1>1, <1>6, <1>7, NatSetInduction
<1>9. walk[all][from(len)] = rest(len)
  <2>1. all \in len .. all /\ len <= len
    BY <1>1
  <2> QED
    BY <1>8, <2>1 DEF S
<1>10. from(len) = c
  <2>1. len = 0 <=> s = << >>
    BY EmptySeq DEF Linked
  <2>2. len - len + 1 = 1
    BY <1>1
  <2> QED
    BY <2>1, <2>2 DEF Linked
<1>11. rest(len) = s
  <2>1. \A j \in 1 .. len : len - len + j = j
    BY <1>1
  <2>2. s = [j \in 1 .. len |-> s[j]]
    BY <1>1, LenProperties DEF Linked
  <2> QED
    BY <2>1, <2>2
<1> QED
  BY <1>3, <1>9, <1>10, <1>11

(* A cell x is linked into a list.                                         *)
Inserted(s, at, x) ==
  [i \in 1 .. Len(s) + 1 |-> IF i < at THEN s[i] ELSE IF i = at THEN x ELSE s[i - 1]]

(* The elements of a sequence into which a cell was inserted.              *)
LEMMA InsertedIsSeq ==
  ASSUME NEW s \in Seq(PoolCell), NEW x \in PoolCell, NEW at \in 1 .. Len(s) + 1
  PROVE  /\ Inserted(s, at, x) \in Seq(PoolCell)
         /\ Len(Inserted(s, at, x)) = Len(s) + 1
         /\ DOMAIN Inserted(s, at, x) = 1 .. Len(s) + 1
         /\ Elements(Inserted(s, at, x)) = Elements(s) \cup {x}
<1> DEFINE len == Len(s)
           t == Inserted(s, at, x)
<1>1. len \in Nat /\ DOMAIN s = 1 .. len /\ \A k \in 1 .. len : s[k] \in PoolCell
  BY LenProperties, ElementOfSeq
<1>2. \A i \in 1 .. len + 1 :
        t[i] = IF i < at THEN s[i] ELSE IF i = at THEN x ELSE s[i - 1]
  BY DEF Inserted
<1>3. DOMAIN t = 1 .. len + 1
  BY DEF Inserted
<1>4. t \in [1 .. len + 1 -> PoolCell]
  <2>1. t = [i \in 1 .. len + 1 |-> t[i]]
    BY DEF Inserted
  <2> HIDE DEF t, len
  <2>2. \A i \in 1 .. len + 1 : t[i] \in PoolCell
    BY <1>1, <1>2 DEF len
  <2> QED
    BY <2>1, <2>2
<1>5. t \in Seq(PoolCell) /\ Len(t) = len + 1
  <2> HIDE DEF t
  <2>1. len + 1 \in Nat
    BY <1>1
  <2>2. t \in Seq(PoolCell)
    BY <1>4, <2>1, SeqDef
  <2> HIDE DEF len
  <2>3. Len(t) \in Nat /\ 1 .. Len(t) = 1 .. len + 1
    BY <1>3, <2>2, LenProperties
  <2>4. \A j, k \in Nat : j < k => k \in 1 .. k /\ k \notin 1 .. j
    OBVIOUS
  <2>5. ~(Len(t) < len + 1) /\ ~(len + 1 < Len(t))
    BY <2>1, <2>3, <2>4
  <2> QED
    BY <2>1, <2>2, <2>3, <2>5
<1>6. \A k \in 1 .. len : \E i \in 1 .. len + 1 : t[i] = s[k]
  <2> SUFFICES ASSUME NEW k \in 1 .. len
               PROVE  t[k] = s[k] \/ t[k + 1] = s[k]
    BY <1>1
  <2>1. CASE k < at
    BY <1>1, <1>2, <2>1
  <2>2. CASE ~(k < at)
    <3>1. k + 1 \in 1 .. len + 1 /\ ~(k + 1 < at) /\ k + 1 # at /\ (k + 1) - 1 = k
      BY <1>1, <2>2
    <3> QED
      BY <1>2, <3>1
  <2> QED
    BY <2>1, <2>2
<1>7. t[at] = x
  BY <1>1, <1>2
<1> HIDE DEF t
<1>8. Elements(t) = Elements(s) \cup {x}
  <2>1. \A i \in 1 .. len + 1 : t[i] = x \/ \E k \in 1 .. len : t[i] = s[k]
    <3> SUFFICES ASSUME NEW i \in 1 .. len + 1
                 PROVE  t[i] = x \/ \E k \in 1 .. len : t[i] = s[k]
      OBVIOUS
    <3>1. i < at => i \in 1 .. len
      BY <1>1
    <3>2. ~(i < at) /\ i # at => i - 1 \in 1 .. len
      BY <1>1
    <3> QED
      BY <1>2, <3>1, <3>2
  <2> HIDE DEF len
  <2>2. Elements(s) \cup {x} \subseteq Elements(t)
    BY <1>1, <1>3, <1>6, <1>7 DEF Elements, len
  <2>3. Elements(t) \subseteq Elements(s) \cup {x}
    BY <1>1, <1>3, <2>1 DEF Elements
  <2> QED
    BY <2>2, <2>3
<1> QED
  BY <1>3, <1>5, <1>8 DEF t

(* After the insertion of x, after has the links that cdr had.             *)
Inserts(cdr, after, s, at, x) ==
  /\ after[x] = IF at > Len(s) THEN NIL ELSE s[at]
  /\ at # 1 => after[s[at - 1]] = x
  /\ \A k \in DOMAIN s : k # at - 1 => after[s[k]] = cdr[s[k]]

(* Two links insert a cell: its own, and that of the cell before it.       *)
LEMMA InsertLinks ==
  ASSUME NEW cdr, NEW c, NEW s, Linked(cdr, c, s),
         NEW x \in PoolCell, x \notin Elements(s), NEW at \in 1 .. Len(s) + 1,
         NEW after, Inserts(cdr, after, s, at, x),
         NEW c2, c2 = IF at = 1 THEN x ELSE c
  PROVE  Linked(after, c2, Inserted(s, at, x))
<1> DEFINE len == Len(s)
<1>1. /\ s \in Seq(PoolCell) /\ len \in Nat /\ DOMAIN s = 1 .. len
      /\ \A k \in 1 .. len : s[k] # x
  BY LinkedLength DEF Linked, Elements
<1>2. PICK t : t = Inserted(s, at, x)
  OBVIOUS
<1>3. /\ t \in Seq(PoolCell) /\ Len(t) = len + 1 /\ DOMAIN t = 1 .. len + 1
      /\ Elements(t) = Elements(s) \cup {x}
  BY <1>1, <1>2, InsertedIsSeq
<1>4. \A i \in 1 .. len + 1 :
        t[i] = IF i < at THEN s[i] ELSE IF i = at THEN x ELSE s[i - 1]
  BY <1>2 DEF Inserted
<1>5. \A k \in 1 .. len : cdr[s[k]] = IF k = len THEN NIL ELSE s[k + 1]
  BY <1>1 DEF Linked
<1> HIDE DEF len
<1>6. ASSUME NEW i \in 1 .. len + 1
      PROVE  after[t[i]] = IF i = len + 1 THEN NIL ELSE t[i + 1]
  <2>1. CASE i = at
    <3>1. t[i] = x
      BY <1>4, <2>1
    <3>2. i # len + 1 => t[i + 1] = s[at]
      <4> SUFFICES ASSUME i # len + 1
                   PROVE  t[i + 1] = s[at]
        OBVIOUS
      <4>1. i + 1 \in 1 .. len + 1 /\ ~(i + 1 < at) /\ i + 1 # at /\ (i + 1) - 1 = at
        BY <1>1, <2>1
      <4> QED
        BY <1>4, <4>1
    <3>3. at > len <=> i = len + 1
      BY <1>1, <2>1
    <3> QED
      BY <3>1, <3>2, <3>3 DEF len, Inserts
  <2>2. CASE i < at
    <3>1. t[i] = s[i] /\ i \in 1 .. len /\ i # len + 1 /\ i + 1 \in 1 .. len + 1
      BY <1>1, <1>4, <2>2
    <3>2. CASE i + 1 = at
      <4>1. t[i + 1] = x /\ at # 1 /\ at - 1 = i
        BY <1>4, <3>1, <3>2
      <4> QED
        BY <3>1, <4>1 DEF Inserts
    <3>3. CASE i + 1 # at
      <4>1. i + 1 < at /\ i # at - 1 /\ i # len
        BY <1>1, <2>2, <3>3
      <4>2. after[s[i]] = cdr[s[i]]
        BY <1>1, <3>1, <4>1 DEF Inserts
      <4>3. t[i + 1] = s[i + 1]
        BY <1>4, <3>1, <4>1
      <4> QED
        BY <1>5, <3>1, <4>1, <4>2, <4>3
    <3> QED
      BY <3>2, <3>3
  <2>3. CASE i > at
    <3>1. i - 1 \in 1 .. len /\ t[i] = s[i - 1] /\ i - 1 # at - 1
      <4>1. i - 1 \in 1 .. len /\ ~(i < at) /\ i # at /\ i - 1 # at - 1
        BY <1>1, <2>3
      <4> QED
        BY <1>4, <4>1
    <3>2. after[s[i - 1]] = cdr[s[i - 1]]
      BY <1>1, <3>1 DEF Inserts
    <3>3. i - 1 = len <=> i = len + 1
      BY <1>1
    <3>4. i # len + 1 => t[i + 1] = s[i - 1 + 1]
      <4> SUFFICES ASSUME i # len + 1
                   PROVE  t[i + 1] = s[i - 1 + 1]
        OBVIOUS
      <4>1. i + 1 \in 1 .. len + 1 /\ ~(i + 1 < at) /\ i + 1 # at /\ (i + 1) - 1 = i - 1 + 1
        BY <1>1, <2>3
      <4> QED
        BY <1>4, <4>1
    <3> QED
      BY <1>5, <3>1, <3>2, <3>3, <3>4
  <2> QED
    BY <2>1, <2>2, <2>3, <1>1
<1>7. ASSUME NEW i \in 1 .. len + 1, NEW j \in 1 .. len + 1, t[i] = t[j]
      PROVE  i = j
  <2> DEFINE old(k) == IF k < at THEN k ELSE k - 1
  <2>1. \A k \in 1 .. len + 1 : k # at => old(k) \in 1 .. len /\ t[k] = s[old(k)]
    <3> SUFFICES ASSUME NEW k \in 1 .. len + 1, k # at
                 PROVE  old(k) \in 1 .. len /\ t[k] = s[old(k)]
      OBVIOUS
    <3>1. old(k) \in 1 .. len
      BY <1>1
    <3> QED
      BY <1>4, <3>1
  <2>2. t[at] = x
    BY <1>1, <1>4
  <2>3. CASE i = at \/ j = at
    <3> HIDE DEF old
    <3> QED
      BY <1>1, <1>7, <2>1, <2>2, <2>3
  <2>4. CASE i # at /\ j # at
    <3>1. old(i) = old(j)
      <4> HIDE DEF old
      <4> QED
        BY <1>1, <1>7, <2>1, <2>4 DEF Linked
    <3> QED
      BY <2>4, <3>1
  <2> QED
    BY <2>3, <2>4
<1>8. c2 = IF t = << >> THEN NIL ELSE t[1]
  <2>1. t # << >>
    BY <1>1, <1>3, EmptySeq
  <2>2. at # 1 => s # << >> /\ t[1] = s[1]
    <3> SUFFICES ASSUME at # 1
                 PROVE  s # << >> /\ t[1] = s[1]
      OBVIOUS
    <3>1. 1 < at /\ 1 \in 1 .. len + 1 /\ len # 0
      BY <1>1
    <3> QED
      BY <1>1, <1>4, <3>1, EmptySeq DEF len
  <2>3. at = 1 => t[1] = x
    BY <1>1, <1>4
  <2> QED
    BY <2>1, <2>2, <2>3 DEF Linked
<1>9. Linked(after, c2, t)
  <2>1. \A k \in DOMAIN t : after[t[k]] = IF k = Len(t) THEN NIL ELSE t[k + 1]
    BY <1>3, <1>6
  <2>2. \A j, k \in DOMAIN t : t[j] = t[k] => j = k
    BY <1>3, <1>7
  <2> QED
    BY <1>3, <1>8, <2>1, <2>2 DEF Linked
<1> QED
  BY <1>2, <1>9

(* The first cell of a list is taken off.                                  *)
LEMMA PopLinks ==
  ASSUME NEW cdr, NEW c, NEW s, Linked(cdr, c, s), c # NIL
  PROVE  /\ Linked(cdr, cdr[c], Tail(s))
         /\ s # << >> /\ c = s[1] /\ c \in PoolCell
         /\ Len(Tail(s)) = Len(s) - 1
         /\ \A k \in 1 .. Len(s) - 1 : Tail(s)[k] = s[k + 1]
         /\ c \in Elements(s) /\ Elements(Tail(s)) = Elements(s) \ {c}
<1> DEFINE len == Len(s)
<1>1. s # << >> /\ c = s[1]
  BY DEF Linked
<1>2. s \in Seq(PoolCell) /\ len \in Nat /\ DOMAIN s = 1 .. len /\ len # 0
  BY <1>1, LinkedLength, EmptySeq DEF Linked
<1>3. PICK t : t = Tail(s)
  OBVIOUS
<1>4. /\ t \in Seq(PoolCell) /\ Len(t) = len - 1
      /\ \A k \in 1 .. len - 1 : t[k] = s[k + 1]
  BY <1>1, <1>2, <1>3, HeadTailProperties
<1>5. DOMAIN t = 1 .. len - 1
  BY <1>4, LenProperties
<1>6. \A k \in 1 .. len - 1 : k + 1 \in 1 .. len /\ k + 1 # 1
  BY <1>2
<1>7. c \in PoolCell /\ c \in Elements(s)
  BY <1>1, <1>2, ElementOfSeq DEF Elements
<1>8. Linked(cdr, cdr[c], t)
  <2>1. cdr[c] = IF t = << >> THEN NIL ELSE t[1]
    <3>1. cdr[c] = IF 1 = len THEN NIL ELSE s[1 + 1]
      BY <1>1, <1>2 DEF Linked
    <3>2. t = << >> <=> 1 = len
      <4>1. t = << >> <=> Len(t) = 0
        BY <1>4, EmptySeq
      <4> QED
        BY <1>2, <1>4, <4>1
    <3>3. 1 # len => 1 \in 1 .. len - 1
      BY <1>2
    <3> QED
      BY <1>4, <3>1, <3>2, <3>3
  <2>2. ASSUME NEW k \in DOMAIN t
        PROVE  cdr[t[k]] = IF k = Len(t) THEN NIL ELSE t[k + 1]
    <3>1. cdr[s[k + 1]] = IF k + 1 = len THEN NIL ELSE s[k + 1 + 1]
      BY <1>2, <1>5, <1>6 DEF Linked
    <3>2. (k + 1 = len <=> k = len - 1) /\ (k # len - 1 => k + 1 \in 1 .. len - 1)
      BY <1>2, <1>5
    <3> QED
      BY <1>4, <1>5, <3>1, <3>2
  <2>3. ASSUME NEW j \in DOMAIN t, NEW k \in DOMAIN t, t[j] = t[k]
        PROVE  j = k
    <3>1. j + 1 = k + 1
      <4>1. j \in 1 .. len - 1 /\ k \in 1 .. len - 1
        BY <1>5, <2>3
      <4>2. s[j + 1] = s[k + 1]
        BY <1>4, <2>3, <4>1
      <4>3. j + 1 \in DOMAIN s /\ k + 1 \in DOMAIN s
        BY <1>2, <1>6, <4>1
      <4> QED
        BY <4>2, <4>3 DEF Linked
    <3> QED
      BY <1>5, <3>1
  <2> QED
    BY <1>4, <2>1, <2>2, <2>3 DEF Linked
<1>9. Elements(t) = Elements(s) \ {c}
  <2>1. \A k \in 1 .. len - 1 : s[k + 1] # c
    BY <1>1, <1>2, <1>6 DEF Linked
  <2>2. \A k \in 1 .. len : k # 1 => k - 1 \in 1 .. len - 1 /\ (k - 1) + 1 = k
    BY <1>2
  <2>3. \A u : u \in Elements(t) => u \in Elements(s) /\ u # c
    BY <1>2, <1>4, <1>5, <1>6, <2>1 DEF Elements
  <2>4. \A k \in 1 .. len : s[k] # c => s[k] \in Elements(t)
    <3> SUFFICES ASSUME NEW k \in 1 .. len, s[k] # c
                 PROVE  s[k] \in Elements(t)
      OBVIOUS
    <3>1. k # 1
      BY <1>1
    <3>2. t[k - 1] = s[k]
      BY <1>4, <2>2, <3>1
    <3> QED
      BY <1>5, <2>2, <3>1, <3>2 DEF Elements
  <2> QED
    BY <1>2, <2>3, <2>4 DEF Elements
<1> QED
  BY <1>1, <1>3, <1>4, <1>7, <1>8, <1>9

(* What is written outside a list leaves it alone.                         *)
LEMMA OtherLinks ==
  ASSUME NEW cdr, NEW c, NEW s, Linked(cdr, c, s),
         NEW after, \A x \in Elements(s) : after[x] = cdr[x]
  PROVE  Linked(after, c, s)
BY DEF Linked, Elements

-----------------------------------------------------------------------------
(***************************************************************************)
(* The pool.                                                               *)
(***************************************************************************)

(* The cells of U are in use, those of the list F are free.                *)
PoolOf(p, F, U) ==
  /\ p = [car |-> p.car, cdr |-> p.cdr, free |-> p.free, perm |-> p.perm, cnt |-> p.cnt]
  /\ DOMAIN p.car = PoolCell /\ DOMAIN p.cdr = PoolCell
  /\ Linked(p.cdr, p.free, F)
  /\ U \subseteq PoolCell
  /\ U \cap Elements(F) = {}
  /\ p.perm = U \cup Elements(F)
  /\ p.cnt = Cardinality(U)

(* The cells in use can be counted.                                        *)
LEMMA UsedCount ==
  ASSUME NEW p, NEW F, NEW U, PoolOf(p, F, U)
  PROVE  IsFiniteSet(U) /\ Cardinality(U) \in Nat
<1>1. IsFiniteSet(PoolCell) /\ U \subseteq PoolCell
  BY ConstantsAssumption DEF ConstantsAssumption, PoolOf
<1> QED
  BY <1>1, FS_Subset, FS_CardinalityType

(* r is p after a cell was taken and set to a and d.                       *)
Taken(r, p, U, a, d) ==
  /\ r.cell \in PoolCell \ U
  /\ \E G : PoolOf(r.pool, G, U \cup {r.cell})
  /\ r.pool.car[r.cell] = a /\ r.pool.cdr[r.cell] = d
  /\ \A u \in PoolCell : u # r.cell => /\ r.pool.car[u] = p.car[u]
                                       /\ r.pool.cdr[u] = p.cdr[u]

(* A cell is taken from the free list or, when that is empty, from gc_perm *)
LEMMA ConsPool ==
  ASSUME NEW p, NEW F, NEW U, PoolOf(p, F, U), Cardinality(U) < Cardinality(PoolCell),
         NEW a, NEW d, NEW r, r = cq_cons(p, a, d)
  PROVE  Taken(r, p, U, a, d)
<1> DEFINE c == IF p.free # NIL THEN p.free ELSE CHOOSE x \in PoolCell \ p.perm : TRUE
<1>1. r = [cell |-> c,
           pool |-> [car |-> [p.car EXCEPT ![c] = a],
                     cdr |-> [p.cdr EXCEPT ![c] = d],
                     free |-> IF p.free # NIL THEN p.cdr[c] ELSE NIL,
                     perm |-> p.perm \cup {c},
                     cnt |-> p.cnt + 1]]
  BY DEF cq_cons
<1>2. PICK G : /\ c \in PoolCell \ U
               /\ Linked(p.cdr, IF p.free # NIL THEN p.cdr[c] ELSE NIL, G)
               /\ c \notin Elements(G)
               /\ p.perm \cup {c} = (U \cup {c}) \cup Elements(G)
               /\ Elements(G) \subseteq Elements(F)
  <2>1. CASE p.free # NIL
    <3>1. /\ Linked(p.cdr, p.cdr[p.free], Tail(F))
          /\ p.free \in PoolCell /\ p.free \in Elements(F)
          /\ Elements(Tail(F)) = Elements(F) \ {p.free}
      BY <2>1, PopLinks DEF PoolOf
    <3>2. c = p.free /\ p.free \notin U /\ p.perm = U \cup Elements(F)
      BY <2>1, <3>1 DEF PoolOf
    <3> QED
      BY <2>1, <3>1, <3>2
  <2>2. CASE p.free = NIL
    <3>1. F = << >>
      <4>1. F # << >> => 1 \in 1 .. Len(F) /\ p.free = F[1]
        BY LinkedLength, EmptySeq DEF PoolOf, Linked
      <4> QED
        BY <2>2, <4>1, LinkedLength DEF PoolOf
    <3>2. Elements(F) = {}
      BY <3>1 DEF Elements
    <3>3. p.perm = U
      BY <3>2 DEF PoolOf
    <3>4. PoolCell \ p.perm # {}
      <4>1. U # PoolCell
        BY UsedCount
      <4> QED
        BY <3>3, <4>1 DEF PoolOf
    <3>5. c \in PoolCell \ p.perm
      BY <2>2, <3>4
    <3>6. Linked(p.cdr, NIL, F)
      BY <2>2 DEF PoolOf
    <3> QED
      BY <2>2, <3>2, <3>3, <3>5, <3>6
  <2> QED
    BY <2>1, <2>2
<1> HIDE DEF c
<1>3. DOMAIN p.car = PoolCell /\ DOMAIN p.cdr = PoolCell
  BY DEF PoolOf
<1>4. /\ r.cell = c
      /\ r.pool.car = [p.car EXCEPT ![c] = a]
      /\ r.pool.cdr = [p.cdr EXCEPT ![c] = d]
      /\ r.pool.free = IF p.free # NIL THEN p.cdr[c] ELSE NIL
      /\ r.pool.perm = p.perm \cup {c}
      /\ r.pool.cnt = p.cnt + 1
      /\ r.pool = [car |-> r.pool.car, cdr |-> r.pool.cdr, free |-> r.pool.free,
                   perm |-> r.pool.perm, cnt |-> r.pool.cnt]
  BY <1>1
<1>5. PoolOf(r.pool, G, U \cup {c})
  <2>1. Linked(r.pool.cdr, r.pool.free, G)
    <3>1. \A x \in Elements(G) : r.pool.cdr[x] = p.cdr[x]
      BY <1>2, <1>3, <1>4
    <3>2. Linked(p.cdr, r.pool.free, G)
      BY <1>2, <1>4
    <3> QED
      BY <3>1, <3>2, OtherLinks
  <2>2. Cardinality(U \cup {c}) = Cardinality(U) + 1
    BY <1>2, UsedCount, FS_AddElement
  <2>3. U \subseteq PoolCell /\ U \cap Elements(F) = {} /\ p.cnt = Cardinality(U)
    BY DEF PoolOf
  <2> QED
    BY <1>2, <1>3, <1>4, <2>1, <2>2, <2>3 DEF PoolOf
<1> QED
  BY <1>2, <1>3, <1>4, <1>5 DEF Taken

(* r is p after the cell c was recycled.                                   *)
Freed(r, p, U, c) ==
  /\ \E G : PoolOf(r, G, U \ {c})
  /\ \A u \in U : u # c => r.car[u] = p.car[u] /\ r.cdr[u] = p.cdr[u]

(* cq_free sets four fields of the pool one after the other.               *)
LEMMA FreeFields ==
  ASSUME NEW p, NEW c,
         p = [car |-> p.car, cdr |-> p.cdr, free |-> p.free, perm |-> p.perm, cnt |-> p.cnt]
  PROVE  cq_free(p, c) = [car |-> [p.car EXCEPT ![c] = NIL],
                          cdr |-> [p.cdr EXCEPT ![c] = p.free],
                          free |-> c, perm |-> p.perm, cnt |-> p.cnt - 1]
<1>1. PICK a, d, f, m, n : p = [car |-> a, cdr |-> d, free |-> f, perm |-> m, cnt |-> n]
  OBVIOUS
<1>2. p.car = a /\ p.cdr = d /\ p.free = f /\ p.perm = m /\ p.cnt = n
  BY <1>1
<1>3. PICK a2, d2 : a2 = [a EXCEPT ![c] = NIL] /\ d2 = [d EXCEPT ![c] = f]
  OBVIOUS
<1>4. PICK p1 : p1 = [p EXCEPT !.car[c] = NIL]
  OBVIOUS
<1>5. p1 = [car |-> a2, cdr |-> d, free |-> f, perm |-> m, cnt |-> n]
  BY <1>1, <1>3, <1>4
<1>6. PICK p2 : p2 = [p1 EXCEPT !.cdr[c] = f]
  OBVIOUS
<1>7. p2 = [car |-> a2, cdr |-> d2, free |-> f, perm |-> m, cnt |-> n]
  BY <1>3, <1>5, <1>6
<1>8. PICK p3 : p3 = [p2 EXCEPT !.free = c]
  OBVIOUS
<1>9. p3 = [car |-> a2, cdr |-> d2, free |-> c, perm |-> m, cnt |-> n]
  BY <1>7, <1>8
<1>10. [p3 EXCEPT !.cnt = @ - 1]
         = [car |-> a2, cdr |-> d2, free |-> c, perm |-> m, cnt |-> n - 1]
  BY <1>9
<1>11. cq_free(p, c) = [p3 EXCEPT !.cnt = @ - 1]
  BY <1>2, <1>4, <1>6, <1>8 DEF cq_free
<1> QED
  BY <1>2, <1>3, <1>10, <1>11

(* A cell in use is recycled.                                              *)
LEMMA FreePool ==
  ASSUME NEW p, NEW F, NEW U, PoolOf(p, F, U), NEW c \in U,
         NEW r, r = cq_free(p, c)
  PROVE  Freed(r, p, U, c)
<1>1. /\ c \in PoolCell /\ c \notin Elements(F)
      /\ Linked(p.cdr, p.free, F)
      /\ DOMAIN p.car = PoolCell /\ DOMAIN p.cdr = PoolCell
      /\ p.perm = U \cup Elements(F) /\ U \cap Elements(F) = {} /\ U \subseteq PoolCell
      /\ p.cnt = Cardinality(U)
  BY DEF PoolOf
<1>2. /\ r = [car |-> r.car, cdr |-> r.cdr, free |-> r.free, perm |-> r.perm, cnt |-> r.cnt]
      /\ r.car = [p.car EXCEPT ![c] = NIL] /\ r.cdr = [p.cdr EXCEPT ![c] = p.free]
      /\ r.free = c /\ r.perm = p.perm /\ r.cnt = p.cnt - 1
  <2>1. p = [car |-> p.car, cdr |-> p.cdr, free |-> p.free, perm |-> p.perm, cnt |-> p.cnt]
    BY DEF PoolOf
  <2>2. r = [car |-> [p.car EXCEPT ![c] = NIL], cdr |-> [p.cdr EXCEPT ![c] = p.free],
             free |-> c, perm |-> p.perm, cnt |-> p.cnt - 1]
    BY <2>1, FreeFields
  <2> QED
    BY <2>2
<1> DEFINE G == Inserted(F, 1, c)
<1>3. Linked(r.cdr, r.free, G) /\ Elements(G) = Elements(F) \cup {c}
  <2>1. /\ 1 \in 1 .. Len(F) + 1 /\ F \in Seq(PoolCell) /\ Len(F) \in Nat
        /\ DOMAIN F = 1 .. Len(F)
    BY <1>1, LinkedLength DEF Linked
  <2>2. PICK cdr, after, free : cdr = p.cdr /\ after = r.cdr /\ free = p.free
    OBVIOUS
  <2>3. Linked(cdr, free, F) /\ c \in PoolCell /\ c \notin Elements(F)
    BY <1>1, <2>2
  <2>4. after[c] = IF 1 > Len(F) THEN NIL ELSE F[1]
    BY <1>1, <1>2, <2>1, <2>2, EmptySeq DEF Linked
  <2>5. \A k \in DOMAIN F : after[F[k]] = cdr[F[k]]
    <3>1. \A k \in DOMAIN F : F[k] # c /\ F[k] \in PoolCell
      BY <1>1, <2>1, ElementOfSeq DEF Elements
    <3> QED
      BY <1>1, <1>2, <2>2, <3>1
  <2>6. Inserts(cdr, after, F, 1, c)
    BY <2>4, <2>5 DEF Inserts
  <2>7. Linked(after, c, Inserted(F, 1, c))
    BY <2>1, <2>3, <2>6, InsertLinks
  <2>8. Elements(G) = Elements(F) \cup {c}
    BY <2>1, <2>3, InsertedIsSeq
  <2> QED
    BY <1>2, <2>2, <2>7, <2>8
<1> HIDE DEF G
<1>4. Cardinality(U \ {c}) = Cardinality(U) - 1
  BY UsedCount, FS_RemoveElement
<1>5. PoolOf(r, G, U \ {c})
  BY <1>1, <1>2, <1>3, <1>4 DEF PoolOf
<1>6. \A u \in U : u # c => r.car[u] = p.car[u] /\ r.cdr[u] = p.cdr[u]
  BY <1>1, <1>2
<1> QED
  BY <1>5, <1>6 DEF Freed

LinkTo(p, c, x) == [p EXCEPT !.cdr[c] = x]

(* The cdr of a cell in use is set.                                        *)
LEMMA LinkPool ==
  ASSUME NEW p, NEW F, NEW U, PoolOf(p, F, U), NEW c \in U, NEW x,
         NEW r, r = LinkTo(p, c, x)
  PROVE  /\ PoolOf(r, F, U)
         /\ r.car = p.car
         /\ r.cdr[c] = x
         /\ \A u \in PoolCell : u # c => r.cdr[u] = p.cdr[u]
<1>1. /\ c \in PoolCell /\ c \notin Elements(F)
      /\ Linked(p.cdr, p.free, F)
      /\ DOMAIN p.car = PoolCell /\ DOMAIN p.cdr = PoolCell
      /\ p.perm = U \cup Elements(F) /\ U \cap Elements(F) = {} /\ U \subseteq PoolCell
      /\ p.cnt = Cardinality(U)
  BY DEF PoolOf
<1>2. /\ r = [car |-> r.car, cdr |-> r.cdr, free |-> r.free, perm |-> r.perm, cnt |-> r.cnt]
      /\ r.car = p.car /\ r.cdr = [p.cdr EXCEPT ![c] = x]
      /\ r.free = p.free /\ r.perm = p.perm /\ r.cnt = p.cnt
  <2>1. p = [car |-> p.car, cdr |-> p.cdr, free |-> p.free, perm |-> p.perm, cnt |-> p.cnt]
    BY DEF PoolOf
  <2>2. PICK pcar, pcdr, pfree, pperm, pcnt :
          p = [car |-> pcar, cdr |-> pcdr, free |-> pfree, perm |-> pperm, cnt |-> pcnt]
    BY <2>1
  <2>3. LinkTo(p, c, x) = [car |-> pcar, cdr |-> [pcdr EXCEPT ![c] = x], free |-> pfree,
                           perm |-> pperm, cnt |-> pcnt]
    BY <2>2 DEF LinkTo
  <2>4. r = [car |-> pcar, cdr |-> [pcdr EXCEPT ![c] = x], free |-> pfree, perm |-> pperm,
             cnt |-> pcnt]
    BY <2>3
  <2>5. /\ pcar = p.car /\ pcdr = p.cdr /\ pfree = p.free /\ pperm = p.perm /\ pcnt = p.cnt
    BY <2>2
  <2>6. r.car = p.car /\ r.cdr = [p.cdr EXCEPT ![c] = x]
    BY <2>4, <2>5
  <2>7. r.free = p.free /\ r.perm = p.perm /\ r.cnt = p.cnt
    BY <2>4, <2>5
  <2>8. r = [car |-> r.car, cdr |-> r.cdr, free |-> r.free, perm |-> r.perm, cnt |-> r.cnt]
    BY <2>4
  <2> QED
    BY <2>6, <2>7, <2>8
<1>3. Linked(r.cdr, r.free, F)
  <2>1. \A y \in Elements(F) : r.cdr[y] = p.cdr[y]
    BY <1>1, <1>2
  <2>2. Linked(p.cdr, r.free, F)
    BY <1>1, <1>2
  <2> QED
    BY <2>1, <2>2, OtherLinks
<1> QED
  BY <1>1, <1>2, <1>3 DEF PoolOf

-----------------------------------------------------------------------------
(***************************************************************************)
(* The uses of cells.  Q are the nodes of queued messages, T those of      *)
(* delayed ones and E has the entry of the message in hand, if any.        *)
(***************************************************************************)

Used(car, cdr, Q, T, E) ==
  Q \cup {car[n] : n \in Q} \cup T \cup {car[x] : x \in T}
    \cup {cdr[car[x]] : x \in T} \cup E

(* No cell is used twice.                                                  *)
Apart(car, cdr, Q, T, E) ==
  /\ \A m, n \in Q : car[m] # n /\ (car[m] = car[n] => m = n)
  /\ \A x, y \in T : /\ car[x] # y /\ cdr[car[x]] # y /\ cdr[car[x]] # car[y]
                     /\ car[x] = car[y] => x = y
                     /\ cdr[car[x]] = cdr[car[y]] => x = y
  /\ \A n \in Q, x \in T : /\ n # x /\ n # car[x] /\ n # cdr[car[x]]
                           /\ car[n] # x /\ car[n] # car[x] /\ car[n] # cdr[car[x]]
  /\ \A n \in Q, e \in E : n # e /\ car[n] # e
  /\ \A x \in T, e \in E : x # e /\ car[x] # e /\ cdr[car[x]] # e

(* U are the cells in use.                                                 *)
Uses(car, cdr, Q, T, E, U) ==
  Apart(car, cdr, Q, T, E) /\ U = Used(car, cdr, Q, T, E)

(* What becomes of the contents of the cells of U when two cells, n and e, *)
(* are added to the queue Q, or three, n, t and e, to the timer queue T,   *)
(* and when only the cells of U stay in use.                               *)
Queues(car, cdr, car2, cdr2, U, Q, n, e) ==
  /\ n \notin U /\ e \notin U /\ n # e
  /\ car2[n] = e
  /\ \A u \in U : car2[u] = car[u]
  /\ \A u \in U : u \notin Q => cdr2[u] = cdr[u]

Delays(car, cdr, car2, cdr2, U, T, n, t, e) ==
  /\ n \notin U /\ t \notin U /\ e \notin U /\ n # e /\ n # t /\ t # e
  /\ car2[n] = t /\ cdr2[t] = e
  /\ \A u \in U : car2[u] = car[u]
  /\ \A u \in U : u \notin T => cdr2[u] = cdr[u]

Keeps(car, cdr, car2, cdr2, U) ==
  \A u \in U : car2[u] = car[u] /\ cdr2[u] = cdr[u]

(* The cells that a message is made of are in use.                         *)
LEMMA UsedCells ==
  ASSUME NEW car, NEW cdr, NEW Q, NEW T, NEW E, NEW U, U = Used(car, cdr, Q, T, E)
  PROVE  /\ \A n \in Q : n \in U /\ car[n] \in U
         /\ \A x \in T : x \in U /\ car[x] \in U /\ cdr[car[x]] \in U
         /\ \A e \in E : e \in U
BY DEF Used

(* A message is queued in two cells that were not used; the last node may  *)
(* be linked to it.                                                        *)
LEMMA QueueMessage ==
  ASSUME NEW car, NEW cdr, NEW Q, NEW T, NEW E, NEW U, Uses(car, cdr, Q, T, E, U),
         NEW n, NEW e, NEW car2, NEW cdr2, Queues(car, cdr, car2, cdr2, U, Q, n, e),
         NEW Q2, Q2 = Q \cup {n}, NEW V, V = U \cup {n, e}
  PROVE  Uses(car2, cdr2, Q2, T, E, V)
<1>1. /\ \A m \in Q : m \in U /\ car[m] \in U /\ m # n /\ m # e /\ car2[m] = car[m]
                      /\ car[m] # n /\ car[m] # e
      /\ \A x \in T : /\ x \in U /\ car[x] \in U /\ cdr[car[x]] \in U
                      /\ car2[x] = car[x] /\ cdr2[car[x]] = cdr[car[x]]
                      /\ x # n /\ x # e /\ car[x] # n /\ car[x] # e
                      /\ cdr[car[x]] # n /\ cdr[car[x]] # e
      /\ \A d \in E : d # n /\ d # e
  <2>1. \A x \in T : car[x] \notin Q
    BY DEF Apart, Uses
  <2> QED
    BY <2>1, UsedCells DEF Uses, Queues
<1>2. Apart(car2, cdr2, Q2, T, E)
  BY <1>1 DEF Apart, Uses, Queues
<1>3. {car2[m] : m \in Q2} = {car[m] : m \in Q} \cup {e}
  BY <1>1 DEF Queues
<1>4. {car2[x] : x \in T} = {car[x] : x \in T}
  BY <1>1 DEF Queues
<1>5. {cdr2[car2[x]] : x \in T} = {cdr[car[x]] : x \in T}
  BY <1>1 DEF Queues
<1>6. V = Used(car2, cdr2, Q2, T, E)
  BY <1>3, <1>4, <1>5 DEF Used, Uses
<1> QED
  BY <1>2, <1>6 DEF Uses

(* A message is delayed in three cells that were not used; the node before *)
(* it may be linked to it.                                                 *)
LEMMA DelayMessage ==
  ASSUME NEW car, NEW cdr, NEW Q, NEW T, NEW E, NEW U, Uses(car, cdr, Q, T, E, U),
         NEW n, NEW t, NEW e, NEW car2, NEW cdr2,
         Delays(car, cdr, car2, cdr2, U, T, n, t, e),
         NEW T2, T2 = T \cup {n}, NEW V, V = U \cup {n, t, e}
  PROVE  Uses(car2, cdr2, Q, T2, E, V)
<1>1. /\ \A m \in Q : /\ m \in U /\ car[m] \in U /\ m # n /\ m # e /\ m # t /\ car2[m] = car[m]
                      /\ car[m] # n /\ car[m] # e /\ car[m] # t
      /\ \A x \in T : /\ x \in U /\ car[x] \in U /\ cdr[car[x]] \in U
                      /\ car2[x] = car[x] /\ cdr2[car[x]] = cdr[car[x]]
                      /\ x # n /\ x # e /\ x # t
                      /\ car[x] # n /\ car[x] # e /\ car[x] # t
                      /\ cdr[car[x]] # n /\ cdr[car[x]] # e /\ cdr[car[x]] # t
      /\ \A d \in E : d # n /\ d # e /\ d # t
  <2>1. \A x \in T : car[x] \notin T
    BY DEF Apart, Uses
  <2> QED
    BY <2>1, UsedCells DEF Uses, Delays
<1>2. Apart(car2, cdr2, Q, T2, E)
  BY <1>1 DEF Apart, Uses, Delays
<1>3. {car2[m] : m \in Q} = {car[m] : m \in Q}
  BY <1>1 DEF Delays
<1>4. {car2[x] : x \in T2} = {car[x] : x \in T} \cup {t}
  BY <1>1 DEF Delays
<1>5. {cdr2[car2[x]] : x \in T2} = {cdr[car[x]] : x \in T} \cup {e}
  BY <1>1 DEF Delays
<1>6. V = Used(car2, cdr2, Q, T2, E)
  BY <1>3, <1>4, <1>5 DEF Used, Uses
<1> QED
  BY <1>2, <1>6 DEF Uses

(* The three cells of a delayed message are no longer used.                *)
LEMMA DropDelayed ==
  ASSUME NEW car, NEW cdr, NEW Q, NEW T, NEW E, NEW U, Uses(car, cdr, Q, T, E, U),
         NEW n \in T, NEW T2, T2 = T \ {n},
         NEW V, V = ((U \ {cdr[car[n]]}) \ {car[n]}) \ {n},
         NEW car2, NEW cdr2, Keeps(car, cdr, car2, cdr2, V)
  PROVE  Uses(car2, cdr2, Q, T2, E, V)
<1>1. /\ \A m \in Q : /\ m \in V /\ car[m] \in V /\ car2[m] = car[m]
      /\ \A x \in T2 : /\ x \in V /\ car[x] \in V /\ cdr[car[x]] \in V
                            /\ car2[x] = car[x] /\ cdr2[car[x]] = cdr[car[x]]
      /\ E \subseteq V
  BY UsedCells DEF Apart, Uses, Keeps
<1>2. Apart(car2, cdr2, Q, T2, E)
  BY <1>1 DEF Apart, Uses
<1>3. {car2[m] : m \in Q} = {car[m] : m \in Q}
  BY <1>1
<1>4. {car2[x] : x \in T2} = {car[x] : x \in T2}
  BY <1>1
<1>5. {cdr2[car2[x]] : x \in T2} = {cdr[car[x]] : x \in T2}
  BY <1>1
<1>6. V = Used(car, cdr, Q, T2, E)
  <2>1. Used(car, cdr, Q, T2, E) \subseteq V
    BY <1>1 DEF Used
  <2>2. V \subseteq Used(car, cdr, Q, T2, E)
    BY DEF Used, Uses
  <2> QED
    BY <2>1, <2>2
<1>7. V = Used(car2, cdr2, Q, T2, E)
  BY <1>3, <1>4, <1>5, <1>6 DEF Used
<1> QED
  BY <1>2, <1>7 DEF Uses

(* The entry of a queued message becomes that of the message in hand.      *)
LEMMA TakeQueued ==
  ASSUME NEW car, NEW cdr, NEW Q, NEW T, NEW E, E = {}, NEW U, Uses(car, cdr, Q, T, E, U),
         NEW n \in Q, NEW Q2, Q2 = Q \ {n}, NEW E2, E2 = {car[n]}, NEW V, V = U \ {n},
         NEW car2, NEW cdr2, Keeps(car, cdr, car2, cdr2, V)
  PROVE  Uses(car2, cdr2, Q2, T, E2, V)
<1>1. /\ \A m \in Q2 : /\ m \in V /\ car[m] \in V /\ car2[m] = car[m]
      /\ \A x \in T : /\ x \in V /\ car[x] \in V /\ cdr[car[x]] \in V
                      /\ car2[x] = car[x] /\ cdr2[car[x]] = cdr[car[x]]
      /\ car[n] \in V
  BY UsedCells DEF Apart, Uses, Keeps
<1>2. Apart(car2, cdr2, Q2, T, E2)
  BY <1>1 DEF Apart, Uses
<1>3. {car2[m] : m \in Q2} = {car[m] : m \in Q2}
  BY <1>1
<1>4. {car2[x] : x \in T} = {car[x] : x \in T}
  BY <1>1
<1>5. {cdr2[car2[x]] : x \in T} = {cdr[car[x]] : x \in T}
  BY <1>1
<1>6. V = Used(car, cdr, Q2, T, E2)
  <2>1. Used(car, cdr, Q2, T, E2) \subseteq V
    BY <1>1 DEF Used
  <2>2. V \subseteq Used(car, cdr, Q2, T, E2)
    BY DEF Used, Uses
  <2> QED
    BY <2>1, <2>2
<1>7. V = Used(car2, cdr2, Q2, T, E2)
  BY <1>3, <1>4, <1>5, <1>6 DEF Used
<1> QED
  BY <1>2, <1>7 DEF Uses

(* The message in hand is done.                                            *)
LEMMA DropCurrent ==
  ASSUME NEW car, NEW cdr, NEW Q, NEW T, NEW e, NEW E, E = {e},
         NEW U, Uses(car, cdr, Q, T, E, U), NEW E2, E2 = {}, NEW V, V = U \ {e},
         NEW car2, NEW cdr2, Keeps(car, cdr, car2, cdr2, V)
  PROVE  Uses(car2, cdr2, Q, T, E2, V)
<1>1. /\ \A m \in Q : /\ m \in V /\ car[m] \in V /\ car2[m] = car[m]
      /\ \A x \in T : /\ x \in V /\ car[x] \in V /\ cdr[car[x]] \in V
                      /\ car2[x] = car[x] /\ cdr2[car[x]] = cdr[car[x]]
  BY UsedCells DEF Apart, Uses, Keeps
<1>2. Apart(car2, cdr2, Q, T, E2)
  BY <1>1 DEF Apart, Uses
<1>3. {car2[m] : m \in Q} = {car[m] : m \in Q}
  BY <1>1
<1>4. {car2[x] : x \in T} = {car[x] : x \in T}
  BY <1>1
<1>5. {cdr2[car2[x]] : x \in T} = {cdr[car[x]] : x \in T}
  BY <1>1
<1>6. V = Used(car, cdr, Q, T, E2)
  <2>1. Used(car, cdr, Q, T, E2) \subseteq V
    BY <1>1 DEF Used
  <2>2. V \subseteq Used(car, cdr, Q, T, E2)
    BY DEF Used, Uses
  <2> QED
    BY <2>1, <2>2
<1>7. V = Used(car2, cdr2, Q, T, E2)
  BY <1>3, <1>4, <1>5, <1>6 DEF Used
<1> QED
  BY <1>2, <1>7 DEF Uses

-----------------------------------------------------------------------------
(***************************************************************************)
(* Time.                                                                   *)
(***************************************************************************)
Time == Nat \X (0 .. TICK_FREQ)

(* What tv_create carries over leaves at most one second of ticks.         *)
LEMMA ExcessFacts ==
  ASSUME NEW us \in Nat
  PROVE  /\ Excess(us) \in Nat
         /\ us - TICK_FREQ * Excess(us) \in 0 .. TICK_FREQ
<1>1. TICK_FREQ \in Nat \ {0}
  BY ConstantsAssumption DEF ConstantsAssumption
<1>2. CASE us > TICK_FREQ
  <2> DEFINE x == (us - 1) \div TICK_FREQ
  <2>1. us - 1 \in Nat
    BY <1>2, <1>1
  <2>2. x \in Nat /\ TICK_FREQ * x <= us - 1 /\ us - 1 < TICK_FREQ * x + TICK_FREQ
    BY <1>1, <2>1
  <2>3. Excess(us) = x
    BY <1>2 DEF Excess
  <2> HIDE DEF x
  <2>4. TICK_FREQ * x \in Nat
    BY <1>1, <2>2
  <2> QED
    BY <1>1, <2>2, <2>3, <2>4
<1>3. CASE ~(us > TICK_FREQ)
  BY <1>1, <1>3 DEF Excess
<1> QED
  BY <1>2, <1>3

(* A delay is added exactly.                                               *)
LEMMA TickFacts ==
  ASSUME NEW s \in Nat, NEW us \in Nat, NEW d \in Nat
  PROVE  /\ tv_increment(s, us, d) \in Time
         /\ Ticks(tv_increment(s, us, d)) = Ticks(<<s, us>>) + d
<1> DEFINE F == TICK_FREQ
           x == Excess(d)
           v == us + d - F * x
           y == Excess(v)
<1>1. F \in Nat \ {0}
  BY ConstantsAssumption DEF ConstantsAssumption
<1>2. x \in Nat /\ d - F * x \in 0 .. F
  BY ExcessFacts
<1>3. F * x \in Nat
  BY <1>1, <1>2
<1>4. v \in Nat
  BY <1>1, <1>2, <1>3
<1>5. y \in Nat /\ v - F * y \in 0 .. F
  BY <1>4, ExcessFacts
<1>6. tv_increment(s, us, d) = <<s + x + y, v - F * y>>
  BY DEF tv_increment, tv_create
<1> HIDE DEF x, y
<1>7. (s + x + y) * F + (us + d - F * x - F * y) = s * F + us + d
  BY <1>1, <1>2, <1>5
<1>8. v - F * y = us + d - F * x - F * y
  BY <1>1, <1>2, <1>5
<1>9. s + x + y \in Nat
  BY <1>2, <1>5
<1> QED
  BY <1>5, <1>6, <1>7, <1>8, <1>9 DEF Time, Ticks

(* A time that is not later is not a larger number of ticks.               *)
LEMMA NotLater ==
  ASSUME NEW t \in Time, NEW u \in Time, ~Later(t, u)
  PROVE  Ticks(t) <= Ticks(u) /\ Ticks(t) \in Nat /\ Ticks(u) \in Nat
<1> DEFINE F == TICK_FREQ
<1>1. /\ F \in Nat \ {0} /\ t[1] \in Nat /\ u[1] \in Nat
      /\ t[2] \in 0 .. F /\ u[2] \in 0 .. F
  BY ConstantsAssumption DEF ConstantsAssumption, Time
<1>2. t[1] < u[1] \/ (t[1] = u[1] /\ t[2] <= u[2])
  BY <1>1 DEF Later
<1>3. t[1] * F \in Nat /\ u[1] * F \in Nat
  BY <1>1
<1>4. CASE t[1] < u[1]
  <2>1. t[1] * F + F <= u[1] * F
    BY <1>1, <1>4
  <2> QED
    BY <1>1, <1>3, <2>1 DEF Ticks
<1>5. CASE t[1] = u[1] /\ t[2] <= u[2]
  BY <1>1, <1>3, <1>5 DEF Ticks
<1> QED
  BY <1>2, <1>4, <1>5

-----------------------------------------------------------------------------
(***************************************************************************)
(* The layout of the runtime in the pool p: q and t are the nodes of the   *)
(* queue qu and of the timer queue tq, E has the entry of the message in   *)
(* hand, F are the free cells and U those in use.                          *)
(***************************************************************************)

Laid(p, qu, tq, E, q, t, F, U) ==
  /\ PoolOf(p, F, U)
  /\ qu = [head |-> qu.head, tail |-> qu.tail]
  /\ Linked(p.cdr, qu.head, q)
  /\ qu.head # NIL => qu.tail = q[Len(q)]
  /\ Linked(p.cdr, tq, t)
  /\ Uses(p.car, p.cdr, Elements(q), Elements(t), E, U)
  /\ IsFiniteSet(E)
  /\ Cardinality(U) = 2 * Len(q) + 3 * Len(t) + Cardinality(E)
  /\ \A x \in Elements(t) : p.car[p.car[x]] \in Time

WellLaid(p, E, q, t, U) ==
  /\ q \in Seq(PoolCell) /\ t \in Seq(PoolCell)
  /\ Len(q) \in Nat /\ Len(t) \in Nat
  /\ DOMAIN q = 1 .. Len(q) /\ DOMAIN t = 1 .. Len(t)
  /\ \A k \in 1 .. Len(q) : q[k] \in Elements(q)
  /\ \A k \in 1 .. Len(t) : t[k] \in Elements(t)
  /\ Elements(q) \subseteq U /\ Elements(t) \subseteq U /\ E \subseteq U
  /\ \A n \in Elements(q) : p.car[n] \in U
  /\ \A x \in Elements(t) : p.car[x] \in U /\ p.cdr[p.car[x]] \in U
  /\ Elements(q) \cap Elements(t) = {}
  /\ U \subseteq PoolCell /\ IsFiniteSet(U)
  /\ Cardinality(U) \in Nat /\ Cardinality(E) \in Nat
  /\ \A j, k \in 1 .. Len(q) : q[j] = q[k] => j = k

(* What a layout says of the queues and of the cells in use.               *)
LEMMA LaidFacts ==
  ASSUME NEW p, NEW qu, NEW tq, NEW E, NEW q, NEW t, NEW F, NEW U,
         Laid(p, qu, tq, E, q, t, F, U)
  PROVE  WellLaid(p, E, q, t, U)
<1>1. q \in Seq(PoolCell) /\ t \in Seq(PoolCell)
  BY DEF Laid, Linked
<1>2. /\ Len(q) \in Nat /\ Len(t) \in Nat
      /\ DOMAIN q = 1 .. Len(q) /\ DOMAIN t = 1 .. Len(t)
  BY LinkedLength DEF Laid
<1>3. /\ \A k \in 1 .. Len(q) : q[k] \in Elements(q)
      /\ \A k \in 1 .. Len(t) : t[k] \in Elements(t)
  BY <1>2 DEF Elements
<1>4. /\ Elements(q) \subseteq U /\ Elements(t) \subseteq U /\ E \subseteq U
      /\ \A n \in Elements(q) : p.car[n] \in U
      /\ \A x \in Elements(t) : p.car[x] \in U /\ p.cdr[p.car[x]] \in U
  BY UsedCells DEF Laid, Uses
<1>5. Elements(q) \cap Elements(t) = {}
  BY DEF Laid, Uses, Apart
<1>6. U \subseteq PoolCell /\ IsFiniteSet(U) /\ Cardinality(U) \in Nat
  BY UsedCount DEF Laid, PoolOf
<1>7. Cardinality(E) \in Nat
  BY FS_CardinalityType DEF Laid
<1>8. \A j, k \in 1 .. Len(q) : q[j] = q[k] => j = k
  BY <1>2 DEF Laid, Linked
<1> QED
  BY <1>1, <1>2, <1>3, <1>4, <1>5, <1>6, <1>7, <1>8 DEF WellLaid

(* Sending appends one node, of a new entry, to the queue; nothing else    *)
(* changes.                                                                *)
Sends(s, E, q, t, U, a, m) ==
  \E n, e, G :
    /\ n \in PoolCell \ U /\ e \in PoolCell \ U /\ n # e
    /\ Laid(s.pool, s.queue, t_queue, E, Inserted(q, Len(q) + 1, n), t, G, U \cup {n, e})
    /\ s.pool.car[n] = e /\ s.pool.car[e] = a /\ s.pool.cdr[e] = m
    /\ \A u \in U : s.pool.car[u] = pool.car[u]
    /\ \A u \in U : u \notin Elements(q) => s.pool.cdr[u] = pool.cdr[u]

(* abe__send lays out its message in two cells that were not in use.       *)
LEMMA SendLays ==
  ASSUME NEW E, NEW q, NEW t, NEW F, NEW U,
         Laid(pool, queue, t_queue, E, q, t, F, U),
         Cardinality(U) + 2 <= Cardinality(PoolCell),
         NEW a, NEW m, NEW s, s = abe__send(a, m)
  PROVE  Sends(s, E, q, t, U, a, m)
<1> DEFINE Q == Elements(q)
           T == Elements(t)
<1>0. /\ q \in Seq(PoolCell) /\ t \in Seq(PoolCell)
      /\ Len(q) \in Nat /\ Len(t) \in Nat
      /\ DOMAIN q = 1 .. Len(q) /\ DOMAIN t = 1 .. Len(t)
      /\ \A k \in 1 .. Len(q) : q[k] \in Q
      /\ \A k \in 1 .. Len(t) : t[k] \in T
      /\ Q \subseteq U /\ T \subseteq U /\ E \subseteq U
      /\ \A x \in T : pool.car[x] \in U /\ pool.cdr[pool.car[x]] \in U
      /\ Q \cap T = {}
      /\ U \subseteq PoolCell /\ IsFiniteSet(U)
      /\ Cardinality(U) \in Nat /\ Cardinality(E) \in Nat
      /\ \A j, k \in 1 .. Len(q) : q[j] = q[k] => j = k
  <2>1. WellLaid(pool, E, q, t, U)
    BY LaidFacts
  <2> QED
    BY <2>1 DEF WellLaid
<1>1. PICK entry : entry = cq_cons(pool, a, m)
  OBVIOUS
<1>2. PICK node : node = cq_cons(entry.pool, entry.cell, NIL)
  OBVIOUS
<1>3. PICK e : e = entry.cell
  OBVIOUS
<1>4. PICK n : n = node.cell
  OBVIOUS
<1>6. s.pool = PutNode(node.pool, n) /\ s.queue = PutQueue(n)
  BY <1>1, <1>2, <1>4 DEF abe__send
<1>7. Cardinality(PoolCell) \in Nat
  BY ConstantsAssumption, FS_CardinalityType DEF ConstantsAssumption
<1>8. /\ e \in PoolCell \ U
      /\ \E G : PoolOf(entry.pool, G, U \cup {e})
      /\ entry.pool.car[e] = a /\ entry.pool.cdr[e] = m
      /\ \A u \in PoolCell : u # e => /\ entry.pool.car[u] = pool.car[u]
                                      /\ entry.pool.cdr[u] = pool.cdr[u]
  <2>1. PoolOf(pool, F, U) /\ Cardinality(U) < Cardinality(PoolCell)
    BY <1>0, <1>7 DEF Laid
  <2>2. Taken(entry, pool, U, a, m)
    BY <1>1, <2>1, ConsPool
  <2> QED
    BY <1>3, <2>2 DEF Taken
<1>9. Cardinality(U \cup {e}) = Cardinality(U) + 1 /\ IsFiniteSet(U \cup {e})
  BY <1>0, <1>8, FS_AddElement
<1>10. /\ n \in PoolCell \ (U \cup {e})
       /\ \E G : PoolOf(node.pool, G, (U \cup {e}) \cup {n})
       /\ node.pool.car[n] = e /\ node.pool.cdr[n] = NIL
       /\ \A u \in PoolCell : u # n => /\ node.pool.car[u] = entry.pool.car[u]
                                       /\ node.pool.cdr[u] = entry.pool.cdr[u]
  <2>1. Cardinality(U \cup {e}) < Cardinality(PoolCell)
    BY <1>0, <1>7, <1>9
  <2>2. Taken(node, entry.pool, U \cup {e}, e, NIL)
    BY <1>2, <1>3, <1>8, <2>1, ConsPool
  <2> QED
    BY <1>4, <2>2 DEF Taken
<1>11. PICK V : V = U \cup {n, e}
  OBVIOUS
<1>12. V = (U \cup {e}) \cup {n} /\ Cardinality(V) = Cardinality(U) + 2
  <2>1. V = (U \cup {e}) \cup {n}
    BY <1>11
  <2>2. Cardinality(V) = Cardinality(U \cup {e}) + 1
    BY <1>9, <1>10, <2>1, FS_AddElement
  <2> QED
    BY <1>0, <1>9, <2>1, <2>2
<1>13. /\ queue = [head |-> queue.head, tail |-> queue.tail]
       /\ queue.head = IF q = << >> THEN NIL ELSE q[1]
       /\ queue.head # NIL => queue.tail = q[Len(q)]
       /\ Linked(pool.cdr, queue.head, q) /\ Linked(pool.cdr, t_queue, t)
  BY DEF Laid, Linked
<1>14. queue.head = NIL <=> Len(q) = 0
  <2>1. Len(q) = 0 <=> q = << >>
    BY <1>0, EmptySeq
  <2>2. Len(q) # 0 => q[1] \in PoolCell
    BY <1>0
  <2> QED
    BY <1>13, <2>1, <2>2, ConstantsAssumption DEF ConstantsAssumption
<1>15. /\ s.queue = [head |-> s.queue.head, tail |-> s.queue.tail]
       /\ s.queue.head = IF Len(q) + 1 = 1 THEN n ELSE queue.head
       /\ s.queue.tail = n
  BY <1>0, <1>6, <1>14 DEF PutQueue
<1>16. /\ \E G : PoolOf(s.pool, G, V)
       /\ s.pool.car = node.pool.car
       /\ queue.head # NIL => s.pool.cdr[queue.tail] = n
       /\ \A u \in PoolCell : queue.head = NIL \/ u # queue.tail =>
                                s.pool.cdr[u] = node.pool.cdr[u]
  <2>1. CASE queue.head = NIL
    BY <1>6, <1>10, <1>12, <2>1 DEF PutNode
  <2>2. CASE queue.head # NIL
    <3>1. s.pool = LinkTo(node.pool, queue.tail, n)
      BY <1>6, <2>2 DEF PutNode, LinkTo
    <3>2. PICK c : c = queue.tail /\ c \in V
      BY <1>0, <1>11, <1>13, <1>14, <2>2
    <3>3. PICK G, p : p = node.pool /\ PoolOf(p, G, V)
      BY <1>10, <1>12
    <3>4. PICK r : r = s.pool /\ r = LinkTo(p, c, n)
      BY <3>1, <3>2, <3>3
    <3>5. PoolOf(r, G, V) /\ r.car = p.car /\ r.cdr[c] = n
      BY <3>2, <3>3, <3>4, LinkPool
    <3>6. \A u \in PoolCell : u # c => r.cdr[u] = p.cdr[u]
      BY <3>2, <3>3, <3>4, LinkPool
    <3> QED
      BY <2>2, <3>2, <3>3, <3>4, <3>5, <3>6
  <2> QED
    BY <2>1, <2>2
<1>17. /\ s.pool.car[n] = e /\ s.pool.car[e] = a
       /\ \A u \in U : s.pool.car[u] = pool.car[u]
  BY <1>0, <1>8, <1>10, <1>16
<1>18. /\ s.pool.cdr[n] = NIL /\ s.pool.cdr[e] = m
       /\ \A u \in U : queue.head = NIL \/ u # queue.tail => s.pool.cdr[u] = pool.cdr[u]
  <2>1. queue.head # NIL => queue.tail \in U
    BY <1>0, <1>13, <1>14
  <2>2. n \in PoolCell /\ n \notin U /\ e \in PoolCell /\ e \notin U /\ e # n
    BY <1>8, <1>10
  <2>3. s.pool.cdr[n] = NIL
    BY <1>10, <1>16, <2>1, <2>2
  <2>4. s.pool.cdr[e] = m
    BY <1>8, <1>10, <1>16, <2>1, <2>2
  <2>5. ASSUME NEW u \in U, queue.head = NIL \/ u # queue.tail
        PROVE  s.pool.cdr[u] = pool.cdr[u]
    <3>1. u \in PoolCell /\ u # n /\ u # e
      BY <1>0, <2>2
    <3> QED
      BY <1>8, <1>10, <1>16, <2>5, <3>1
  <2> QED
    BY <2>3, <2>4, <2>5
<1>19. \A u \in U : u \notin Q => s.pool.cdr[u] = pool.cdr[u]
  BY <1>0, <1>13, <1>14, <1>18
<1>20. PICK r : r = Inserted(q, Len(q) + 1, n)
  OBVIOUS
<1>21. /\ Linked(s.pool.cdr, s.queue.head, r)
       /\ Len(r) = Len(q) + 1 /\ Elements(r) = Q \cup {n}
  <2>1. PICK cdr, after, head : cdr = pool.cdr /\ after = s.pool.cdr /\ head = queue.head
    OBVIOUS
  <2>2. Linked(cdr, head, q)
    BY <1>13, <2>1
  <2>3. Inserts(cdr, after, q, Len(q) + 1, n)
    <3>1. ASSUME NEW k \in 1 .. Len(q), k # Len(q)
          PROVE  q[k] \in U /\ q[k] # q[Len(q)]
      <4>1. q[k] \in Q /\ Q \subseteq U
        BY <1>0
      <4>2. Len(q) \in 1 .. Len(q)
        BY <1>0
      <4>3. \A i, j \in 1 .. Len(q) : q[i] = q[j] => i = j
        BY <1>0
      <4> QED
        BY <3>1, <4>1, <4>2, <4>3
    <3>2. \A k \in DOMAIN q : k # Len(q) + 1 - 1 => after[q[k]] = cdr[q[k]]
      <4>1. PICK last : last = Len(q) /\ last \in Nat
        BY <1>0
      <4>2. ASSUME NEW k \in 1 .. last, k # last
            PROVE  s.pool.cdr[q[k]] = pool.cdr[q[k]]
        <5>1. queue.head # NIL => q[k] # queue.tail
          BY <1>13, <3>1, <4>1, <4>2
        <5> QED
          BY <1>18, <3>1, <4>1, <4>2, <5>1
      <4>3. DOMAIN q = 1 .. last /\ last + 1 - 1 = last
        BY <1>0, <4>1
      <4> QED
        BY <2>1, <4>1, <4>2, <4>3
    <3>3. Len(q) + 1 # 1 => after[q[Len(q) + 1 - 1]] = n
      BY <1>0, <1>13, <1>14, <1>16, <2>1
    <3> QED
      BY <1>0, <1>18, <2>1, <3>2, <3>3 DEF Inserts
  <2>4. n \notin Q /\ n \in PoolCell /\ Len(q) + 1 \in 1 .. Len(q) + 1
    BY <1>0, <1>10
  <2>5. PICK head2 : head2 = s.queue.head
    OBVIOUS
  <2>6. Linked(after, head2, Inserted(q, Len(q) + 1, n))
    BY <1>15, <2>1, <2>2, <2>3, <2>4, <2>5, InsertLinks
  <2> QED
    BY <1>0, <1>20, <2>1, <2>4, <2>5, <2>6, InsertedIsSeq
<1>22. r[Len(r)] = n
  BY <1>0, <1>20, <1>21 DEF Inserted
<1>23. Linked(s.pool.cdr, t_queue, t)
  BY <1>0, <1>13, <1>19, OtherLinks
<1>24. Uses(s.pool.car, s.pool.cdr, Elements(r), T, E, V)
  <2>1. PICK car, cdr, car2, cdr2 : /\ car = pool.car /\ cdr = pool.cdr
                                    /\ car2 = s.pool.car /\ cdr2 = s.pool.cdr
    OBVIOUS
  <2>2. PICK Q1, Q2, T1 : Q1 = Q /\ Q2 = Q \cup {n} /\ T1 = T
    OBVIOUS
  <2>3. Uses(car, cdr, Q1, T1, E, U)
    BY <2>1, <2>2 DEF Laid
  <2>4. Queues(car, cdr, car2, cdr2, U, Q1, n, e)
    BY <1>8, <1>10, <1>17, <1>19, <2>1, <2>2 DEF Queues
  <2>5. Uses(car2, cdr2, Q2, T1, E, V)
    BY <1>11, <2>2, <2>3, <2>4, QueueMessage
  <2> QED
    BY <1>21, <2>1, <2>2, <2>5
<1>25. Cardinality(V) = 2 * Len(r) + 3 * Len(t) + Cardinality(E)
  <2>1. Cardinality(U) = 2 * Len(q) + 3 * Len(t) + Cardinality(E)
    BY DEF Laid
  <2> QED
    BY <1>0, <1>12, <1>21, <2>1
<1>26. \A x \in T : s.pool.car[s.pool.car[x]] \in Time
  <2>1. \A x \in T : pool.car[pool.car[x]] \in Time
    BY DEF Laid
  <2> QED
    BY <1>0, <1>17, <2>1
<1>27. PICK G : PoolOf(s.pool, G, V)
  BY <1>16
<1>28. Laid(s.pool, s.queue, t_queue, E, r, t, G, V)
  <2>1. IsFiniteSet(E)
    BY DEF Laid
  <2> QED
    BY <1>15, <1>21, <1>22, <1>23, <1>24, <1>25, <1>26, <1>27, <2>1 DEF Laid
<1>29. Laid(s.pool, s.queue, t_queue, E, Inserted(q, Len(q) + 1, n), t, G, U \cup {n, e})
  BY <1>11, <1>20, <1>28
<1> USE DEF Sends
<1> WITNESS n, e, G
<1> QED
  BY <1>8, <1>10, <1>17, <1>18, <1>19, <1>29

(* Delaying a message inserts one node, of a new timer with a new entry,   *)
(* into the timer queue; nothing else changes.                             *)
LEMMA InsertTimer ==
  ASSUME NEW p, NEW t, NEW timer, NEW time, Linked(p.cdr, t_queue, t),
         NEW s, s = t_queue_insert(p, timer, time)
  PROVE  \E at \in 1 .. Len(t) + 1 : \E node :
           /\ node = cq_cons(p, timer, IF at > Len(t) THEN NIL ELSE t[at])
           /\ at = 1 => s.pool = node.pool /\ s.t_queue = node.cell
           /\ at # 1 => /\ s.pool = LinkTo(node.pool, t[at - 1], node.cell)
                        /\ s.t_queue = t_queue
<1>1. Chain(p, t_queue) = t
  BY ChainOfLinked
<1>2. DOMAIN t = 1 .. Len(t) /\ Len(t) \in Nat
  BY LinkedLength
<1> DEFINE earlier == {k \in DOMAIN t : Later(time, TimeOf(p, t[k]))}
           at == IF earlier = {} THEN Len(t) + 1
                 ELSE CHOOSE k \in earlier : \A j \in earlier : k <= j
           node == cq_cons(p, timer, IF at > Len(t) THEN NIL ELSE t[at])
<1>3. at \in 1 .. Len(t) + 1
  <2>1. CASE earlier = {}
    BY <1>2, <2>1
  <2>2. CASE earlier # {}
    <3>1. earlier \subseteq 1 .. Len(t)
      BY <1>2
    <3> HIDE DEF earlier
    <3>2. \E k \in earlier : \A j \in earlier : k <= j
      <4>1. PICK n \in earlier : TRUE
        BY <2>2
      <4>2. earlier \subseteq Nat
        BY <1>2, <3>1
      <4> QED
        BY <4>1, <4>2, LeastNat
    <3>3. at \in earlier
      BY <2>2, <3>2
    <3> HIDE DEF at
    <3> QED
      BY <1>2, <3>1, <3>3
  <2> QED
    BY <2>1, <2>2
<1>4. s = IF at = 1
          THEN [pool |-> node.pool, t_queue |-> node.cell]
          ELSE [pool |-> [node.pool EXCEPT !.cdr[t[at - 1]] = node.cell],
                t_queue |-> t_queue]
  <2> DEFINE before(list) == {k \in DOMAIN list : Later(time, TimeOf(p, list[k]))}
             place(list) == IF before(list) = {} THEN Len(list) + 1
                          ELSE CHOOSE k \in before(list) : \A j \in before(list) : k <= j
             new(list) == cq_cons(p, timer, IF place(list) > Len(list) THEN NIL ELSE list[place(list)])
             result(list) == IF place(list) = 1
                           THEN [pool |-> new(list).pool, t_queue |-> new(list).cell]
                           ELSE [pool |-> [new(list).pool EXCEPT
                                             !.cdr[list[place(list) - 1]] = new(list).cell],
                                 t_queue |-> t_queue]
  <2>1. s = result(Chain(p, t_queue))
    BY DEF t_queue_insert
  <2> HIDE DEF result
  <2>2. s = result(t)
    BY <1>1, <2>1
  <2> QED
    BY <2>2 DEF result
<1> HIDE DEF at, node
<1>5. s = IF at = 1
          THEN [pool |-> node.pool, t_queue |-> node.cell]
          ELSE [pool |-> LinkTo(node.pool, t[at - 1], node.cell), t_queue |-> t_queue]
  BY <1>4 DEF LinkTo
<1>6. /\ at = 1 => s.pool = node.pool /\ s.t_queue = node.cell
      /\ at # 1 => /\ s.pool = LinkTo(node.pool, t[at - 1], node.cell)
                   /\ s.t_queue = t_queue
  BY <1>5
<1>7. node = cq_cons(p, timer, IF at > Len(t) THEN NIL ELSE t[at])
  BY DEF node
<1> QED
  BY <1>3, <1>6, <1>7

SendsAfter(s, E, q, t, U, time, a, m) ==
  \E n, x, e, at, G :
    /\ n \in PoolCell \ U /\ x \in PoolCell \ U /\ e \in PoolCell \ U
    /\ at \in 1 .. Len(t) + 1
    /\ n # x /\ n # e /\ x # e
    /\ Laid(s.pool, queue, s.t_queue, E, q, Inserted(t, at, n), G, U \cup {n, x, e})
    /\ s.pool.car[n] = x
    /\ s.pool.car[x] = time /\ s.pool.cdr[x] = e
    /\ s.pool.car[e] = a /\ s.pool.cdr[e] = m
    /\ \A u \in U : s.pool.car[u] = pool.car[u]
    /\ \A u \in U : u \notin Elements(t) => s.pool.cdr[u] = pool.cdr[u]

(* abe__send_after lays out its message in three such cells.               *)
LEMMA SendAfterLays ==
  ASSUME NEW E, NEW q, NEW t, NEW F, NEW U,
         Laid(pool, queue, t_queue, E, q, t, F, U),
         Cardinality(U) + 3 <= Cardinality(PoolCell),
         NEW time \in Time, NEW delay, time = tv_increment(now[1], now[2], delay),
         NEW a, NEW m, NEW s, s = abe__send_after(delay, a, m)
  PROVE  SendsAfter(s, E, q, t, U, time, a, m)
<1> DEFINE Q == Elements(q)
           T == Elements(t)
<1>0. /\ q \in Seq(PoolCell) /\ t \in Seq(PoolCell)
      /\ Len(q) \in Nat /\ Len(t) \in Nat
      /\ DOMAIN q = 1 .. Len(q) /\ DOMAIN t = 1 .. Len(t)
      /\ \A k \in 1 .. Len(q) : q[k] \in Q
      /\ \A k \in 1 .. Len(t) : t[k] \in T
      /\ Q \subseteq U /\ T \subseteq U /\ E \subseteq U
      /\ \A y \in T : pool.car[y] \in U
      /\ Q \cap T = {}
      /\ U \subseteq PoolCell /\ IsFiniteSet(U)
      /\ Cardinality(U) \in Nat /\ Cardinality(E) \in Nat
  <2>1. WellLaid(pool, E, q, t, U)
    BY LaidFacts
  <2> QED
    BY <2>1 DEF WellLaid
<1>1. PICK entry : entry = cq_cons(pool, a, m)
  OBVIOUS
<1>2. PICK e : e = entry.cell
  OBVIOUS
<1>3. PICK timer : timer = cq_cons(entry.pool, time, e)
  OBVIOUS
<1>4. PICK x : x = timer.cell
  OBVIOUS
<1>6. s = t_queue_insert(timer.pool, x, time)
  BY <1>1, <1>2, <1>3, <1>4 DEF abe__send_after
<1>7. Cardinality(PoolCell) \in Nat
  BY ConstantsAssumption, FS_CardinalityType DEF ConstantsAssumption
<1>8. /\ e \in PoolCell \ U
      /\ \E G : PoolOf(entry.pool, G, U \cup {e})
      /\ entry.pool.car[e] = a /\ entry.pool.cdr[e] = m
      /\ \A u \in PoolCell : u # e => /\ entry.pool.car[u] = pool.car[u]
                                      /\ entry.pool.cdr[u] = pool.cdr[u]
  <2>1. PoolOf(pool, F, U) /\ Cardinality(U) < Cardinality(PoolCell)
    BY <1>0, <1>7 DEF Laid
  <2>2. Taken(entry, pool, U, a, m)
    BY <1>1, <2>1, ConsPool
  <2> QED
    BY <1>2, <2>2 DEF Taken
<1>9. PICK U1 : U1 = U \cup {e}
  OBVIOUS
<1>10. Cardinality(U1) = Cardinality(U) + 1 /\ IsFiniteSet(U1)
  BY <1>0, <1>8, <1>9, FS_AddElement
<1>11. /\ x \in PoolCell \ U1
       /\ \E G : PoolOf(timer.pool, G, U1 \cup {x})
       /\ timer.pool.car[x] = time /\ timer.pool.cdr[x] = e
       /\ \A u \in PoolCell : u # x => /\ timer.pool.car[u] = entry.pool.car[u]
                                       /\ timer.pool.cdr[u] = entry.pool.cdr[u]
  <2>1. Cardinality(U1) < Cardinality(PoolCell)
    BY <1>0, <1>7, <1>10
  <2>2. Taken(timer, entry.pool, U1, time, e)
    BY <1>3, <1>8, <1>9, <2>1, ConsPool
  <2> QED
    BY <1>4, <2>2 DEF Taken
<1>12. PICK U2 : U2 = U1 \cup {x}
  OBVIOUS
<1>13. Cardinality(U2) = Cardinality(U) + 2 /\ IsFiniteSet(U2)
  <2>1. Cardinality(U2) = Cardinality(U1) + 1 /\ IsFiniteSet(U2)
    BY <1>10, <1>11, <1>12, FS_AddElement
  <2> QED
    BY <1>0, <1>10, <2>1
<1>14. Linked(pool.cdr, t_queue, t) /\ Linked(pool.cdr, queue.head, q)
  BY DEF Laid
<1>15. \A u \in U : timer.pool.car[u] = pool.car[u] /\ timer.pool.cdr[u] = pool.cdr[u]
  BY <1>0, <1>8, <1>9, <1>11
<1>16. Linked(timer.pool.cdr, t_queue, t)
  <2>1. \A u \in T : timer.pool.cdr[u] = pool.cdr[u]
    BY <1>0, <1>15
  <2> QED
    BY <1>14, <2>1, OtherLinks
<1>17. PICK at, node :
         /\ at \in 1 .. Len(t) + 1
         /\ node = cq_cons(timer.pool, x, IF at > Len(t) THEN NIL ELSE t[at])
         /\ at = 1 => s.pool = node.pool /\ s.t_queue = node.cell
         /\ at # 1 => /\ s.pool = LinkTo(node.pool, t[at - 1], node.cell)
                      /\ s.t_queue = t_queue
  BY <1>6, <1>16, InsertTimer, SMTT(30)
<1> at \in 1 .. Len(t) + 1
  BY <1>17
<1>18. PICK n, next : n = node.cell /\ next = IF at > Len(t) THEN NIL ELSE t[at]
  OBVIOUS
<1>19. /\ n \in PoolCell \ U2
       /\ \E G : PoolOf(node.pool, G, U2 \cup {n})
       /\ node.pool.car[n] = x /\ node.pool.cdr[n] = next
       /\ \A u \in PoolCell : u # n => /\ node.pool.car[u] = timer.pool.car[u]
                                       /\ node.pool.cdr[u] = timer.pool.cdr[u]
  <2>1. Cardinality(U2) < Cardinality(PoolCell)
    BY <1>0, <1>7, <1>13
  <2>2. Taken(node, timer.pool, U2, x, next)
    BY <1>11, <1>12, <1>17, <1>18, <2>1, ConsPool
  <2> QED
    BY <1>18, <2>2 DEF Taken
<1>20. PICK V : V = U \cup {n, x, e}
  OBVIOUS
<1>21. V = U2 \cup {n} /\ Cardinality(V) = Cardinality(U) + 3
  <2>1. V = U2 \cup {n}
    BY <1>9, <1>12, <1>20
  <2>2. Cardinality(V) = Cardinality(U2) + 1
    BY <1>13, <1>19, <2>1, FS_AddElement
  <2> QED
    BY <1>0, <1>13, <2>1, <2>2
<1>22. at # 1 => t[at - 1] \in T /\ t[at - 1] \in U
  BY <1>0
<1>23. /\ \E G : PoolOf(s.pool, G, V)
       /\ s.pool.car = node.pool.car
       /\ at # 1 => s.pool.cdr[t[at - 1]] = n
       /\ \A u \in PoolCell : at = 1 \/ u # t[at - 1] => s.pool.cdr[u] = node.pool.cdr[u]
  <2>1. CASE at = 1
    BY <1>17, <1>19, <1>21, <2>1
  <2>2. CASE at # 1
    <3>1. PICK c : c = t[at - 1]
      OBVIOUS
    <3>2. s.pool = LinkTo(node.pool, c, n) /\ c \in V
      BY <1>17, <1>18, <1>20, <1>22, <2>2, <3>1
    <3>3. PICK G, p : p = node.pool /\ PoolOf(p, G, V)
      BY <1>19, <1>21
    <3>4. PICK r : r = s.pool /\ r = LinkTo(p, c, n)
      BY <3>2, <3>3
    <3>5. PoolOf(r, G, V) /\ r.car = p.car /\ r.cdr[c] = n
      BY <3>2, <3>3, <3>4, LinkPool
    <3>6. \A u \in PoolCell : u # c => r.cdr[u] = p.cdr[u]
      BY <3>2, <3>3, <3>4, LinkPool
    <3> QED
      BY <2>2, <3>1, <3>3, <3>4, <3>5, <3>6
  <2> QED
    BY <2>1, <2>2
<1>24. /\ n # x /\ n # e /\ x # e
       /\ n \in PoolCell \ U /\ x \in PoolCell \ U /\ e \in PoolCell \ U
  BY <1>8, <1>9, <1>11, <1>12, <1>19
<1>25. /\ s.pool.car[n] = x /\ s.pool.car[x] = time /\ s.pool.car[e] = a
       /\ \A u \in U : s.pool.car[u] = pool.car[u]
  BY <1>0, <1>8, <1>11, <1>15, <1>19, <1>23, <1>24
<1>26. /\ s.pool.cdr[n] = next /\ s.pool.cdr[x] = e /\ s.pool.cdr[e] = m
       /\ \A u \in U : at = 1 \/ u # t[at - 1] => s.pool.cdr[u] = pool.cdr[u]
  <2>1. \A u \in PoolCell : u # n /\ (at = 1 \/ u # t[at - 1]) =>
          s.pool.cdr[u] = timer.pool.cdr[u]
    BY <1>19, <1>23
  <2>2. at # 1 => n # t[at - 1] /\ x # t[at - 1] /\ e # t[at - 1]
    BY <1>22, <1>24
  <2>3. s.pool.cdr[n] = next
    BY <1>19, <1>23, <2>2
  <2>4. s.pool.cdr[x] = e /\ s.pool.cdr[e] = m
    BY <1>8, <1>11, <1>24, <2>1, <2>2
  <2>5. ASSUME NEW u \in U, at = 1 \/ u # t[at - 1]
        PROVE  s.pool.cdr[u] = pool.cdr[u]
    <3>1. u \in PoolCell /\ u # n
      BY <1>0, <1>24
    <3> QED
      BY <1>15, <2>1, <2>5, <3>1
  <2> QED
    BY <2>3, <2>4, <2>5
<1>27. \A u \in U : u \notin T => s.pool.cdr[u] = pool.cdr[u]
  BY <1>22, <1>26
<1>28. PICK r : r = Inserted(t, at, n)
  OBVIOUS
<1>29. Linked(s.pool.cdr, s.t_queue, r)
  <2>1. PICK cdr, after, c2 : cdr = pool.cdr /\ after = s.pool.cdr /\ c2 = s.t_queue
    OBVIOUS
  <2>2. Linked(cdr, t_queue, t)
    BY <1>14, <2>1
  <2>3. Inserts(cdr, after, t, at, n)
    <3>1. \A k \in DOMAIN t : k # at - 1 => after[t[k]] = cdr[t[k]]
      <4>1. \A k \in 1 .. Len(t) : at # 1 /\ k # at - 1 => t[k] # t[at - 1]
        <5>1. \A j, k \in 1 .. Len(t) : t[j] = t[k] => j = k
          BY <1>0, <1>14 DEF Linked
        <5>2. at # 1 => at - 1 \in 1 .. Len(t)
          BY <1>0
        <5> QED
          BY <5>1, <5>2
      <4> QED
        BY <1>0, <1>26, <2>1, <4>1
    <3> QED
      BY <1>18, <1>23, <1>26, <2>1, <3>1 DEF Inserts
  <2>4. n \notin T /\ n \in PoolCell
    BY <1>0, <1>24
  <2>5. c2 = IF at = 1 THEN n ELSE t_queue
    BY <1>17, <1>18, <2>1
  <2>6. Linked(after, c2, Inserted(t, at, n))
    BY <2>2, <2>3, <2>4, <2>5, InsertLinks
  <2> QED
    BY <1>28, <2>1, <2>6
<1>30. Len(r) = Len(t) + 1 /\ Elements(r) = T \cup {n}
  BY <1>0, <1>24, <1>28, InsertedIsSeq
<1>31. Linked(s.pool.cdr, queue.head, q)
  <2>1. \A u \in Q : s.pool.cdr[u] = pool.cdr[u]
    BY <1>0, <1>27
  <2> QED
    BY <1>14, <2>1, OtherLinks
<1>32. Uses(s.pool.car, s.pool.cdr, Q, Elements(r), E, V)
  <2>1. PICK car, cdr, car2, cdr2 : /\ car = pool.car /\ cdr = pool.cdr
                                    /\ car2 = s.pool.car /\ cdr2 = s.pool.cdr
    OBVIOUS
  <2>2. PICK Q1, T1, T2 : Q1 = Q /\ T1 = T /\ T2 = T \cup {n}
    OBVIOUS
  <2>3. Uses(car, cdr, Q1, T1, E, U)
    BY <2>1, <2>2 DEF Laid
  <2>4. Delays(car, cdr, car2, cdr2, U, T1, n, x, e)
    BY <1>24, <1>25, <1>26, <1>27, <2>1, <2>2 DEF Delays
  <2>5. Uses(car2, cdr2, Q1, T2, E, V)
    BY <1>20, <2>2, <2>3, <2>4, DelayMessage
  <2> QED
    BY <1>30, <2>1, <2>2, <2>5
<1>33. Cardinality(V) = 2 * Len(q) + 3 * Len(r) + Cardinality(E)
  <2>1. Cardinality(U) = 2 * Len(q) + 3 * Len(t) + Cardinality(E)
    BY DEF Laid
  <2> QED
    BY <1>0, <1>21, <1>30, <2>1
<1>34. \A y \in Elements(r) : s.pool.car[s.pool.car[y]] \in Time
  <2>1. \A y \in T : pool.car[pool.car[y]] \in Time
    BY DEF Laid
  <2>2. \A y \in T : s.pool.car[s.pool.car[y]] \in Time
    BY <1>0, <1>25, <2>1
  <2> QED
    BY <1>25, <1>30, <2>2
<1>35. PICK G : PoolOf(s.pool, G, V)
  BY <1>23
<1>36. Laid(s.pool, queue, s.t_queue, E, q, r, G, V)
  <2>1. /\ IsFiniteSet(E) /\ queue = [head |-> queue.head, tail |-> queue.tail]
        /\ queue.head # NIL => queue.tail = q[Len(q)]
    BY DEF Laid
  <2> QED
    BY <1>29, <1>31, <1>32, <1>33, <1>34, <1>35, <2>1 DEF Laid
<1>37. Laid(s.pool, queue, s.t_queue, E, q, Inserted(t, at, n), G, U \cup {n, x, e})
  BY <1>20, <1>28, <1>36
<1> USE DEF SendsAfter
<1> WITNESS n, x, e, at, G
<1> QED
  BY <1>17, <1>24, <1>25, <1>26, <1>27, <1>37

(* The first delayed message is removed and its three cells are recycled.  *)
LEMMA FireLays ==
  ASSUME NEW p, NEW qu, NEW tq, NEW E, NEW q, NEW t, NEW F, NEW U,
         Laid(p, qu, tq, E, q, t, F, U), tq # NIL,
         NEW x, x = p.car[tq], NEW e, e = p.cdr[x], NEW next, next = p.cdr[tq],
         NEW r, r = cq_free(cq_free(cq_free(p, e), x), tq),
         NEW V, V = ((U \ {e}) \ {x}) \ {tq}
  PROVE  /\ \E G : Laid(r, qu, next, E, q, Tail(t), G, V)
         /\ Keeps(p.car, p.cdr, r.car, r.cdr, V)
<1> DEFINE Q == Elements(q)
           T == Elements(t)
<1>0. /\ Len(q) \in Nat /\ Len(t) \in Nat
      /\ Q \subseteq U /\ T \subseteq U /\ E \subseteq U
      /\ \A n \in Q : p.car[n] \in U
      /\ \A y \in T : p.car[y] \in U /\ p.cdr[p.car[y]] \in U
      /\ Q \cap T = {}
      /\ IsFiniteSet(U) /\ Cardinality(U) \in Nat /\ Cardinality(E) \in Nat
  <2>1. WellLaid(p, E, q, t, U)
    BY LaidFacts
  <2> QED
    BY <2>1 DEF WellLaid
<1>1. PICK car, cdr : car = p.car /\ cdr = p.cdr
  OBVIOUS
<1>2. Linked(cdr, tq, t) /\ Linked(cdr, qu.head, q) /\ Uses(car, cdr, Q, T, E, U)
  BY <1>1 DEF Laid
<1>3. PICK u : u = Tail(t)
  OBVIOUS
<1>4. /\ Linked(cdr, next, u)
      /\ Len(u) = Len(t) - 1
      /\ tq \in T /\ Elements(u) = T \ {tq}
  BY <1>1, <1>2, <1>3, PopLinks
<1>5. /\ e \in U /\ x \in U /\ tq \in U /\ e # x /\ e # tq /\ x # tq
  BY <1>0, <1>1, <1>2, <1>4 DEF Uses, Apart
<1>6. PICK p1 : p1 = cq_free(p, e)
  OBVIOUS
<1>7. PICK p2 : p2 = cq_free(p1, x)
  OBVIOUS
<1>8. r = cq_free(p2, tq)
  BY <1>6, <1>7
<1>9. PICK U1, U2 : U1 = U \ {e} /\ U2 = U1 \ {x}
  OBVIOUS
<1>10. V = U2 \ {tq} /\ x \in U1 /\ tq \in U2
  BY <1>5, <1>9
<1>11. Freed(p1, p, U, e)
  <2>1. PoolOf(p, F, U)
    BY DEF Laid
  <2> QED
    BY <1>5, <1>6, <2>1, FreePool
<1>12. Freed(p2, p1, U1, x)
  <2>1. PICK G : PoolOf(p1, G, U1)
    BY <1>9, <1>11 DEF Freed
  <2> QED
    BY <1>7, <1>10, <2>1, FreePool
<1>13. Freed(r, p2, U2, tq)
  <2>1. PICK G : PoolOf(p2, G, U2)
    BY <1>9, <1>12 DEF Freed
  <2> QED
    BY <1>8, <1>10, <2>1, FreePool
<1>14. PICK G : PoolOf(r, G, V)
  <2>1. PICK G : PoolOf(r, G, U2 \ {tq})
    BY <1>13 DEF Freed
  <2> QED
    BY <1>10, <2>1
<1>15. \A c \in V : r.car[c] = p.car[c] /\ r.cdr[c] = p.cdr[c]
  <2>1. \A c \in V : p1.car[c] = p.car[c] /\ p1.cdr[c] = p.cdr[c]
    BY <1>9, <1>10, <1>11 DEF Freed
  <2>2. \A c \in V : p2.car[c] = p1.car[c] /\ p2.cdr[c] = p1.cdr[c]
    BY <1>9, <1>10, <1>12 DEF Freed
  <2>3. \A c \in V : r.car[c] = p2.car[c] /\ r.cdr[c] = p2.cdr[c]
    BY <1>9, <1>10, <1>13 DEF Freed
  <2> QED
    BY <2>1, <2>2, <2>3
<1>16. PICK car2, cdr2 : car2 = r.car /\ cdr2 = r.cdr
  OBVIOUS
<1>17. Keeps(car, cdr, car2, cdr2, V)
  BY <1>1, <1>15, <1>16 DEF Keeps
<1>18. Uses(car2, cdr2, Q, Elements(u), E, V)
  <2>1. V = ((U \ {cdr[car[tq]]}) \ {car[tq]}) \ {tq}
    BY <1>1
  <2>2. PICK Q1, T1, T2 : Q1 = Q /\ T1 = T /\ T2 = Elements(u)
    OBVIOUS
  <2>3. Uses(car, cdr, Q1, T1, E, U) /\ tq \in T1 /\ T2 = T1 \ {tq}
    BY <1>2, <1>4, <2>2
  <2>4. Uses(car2, cdr2, Q1, T2, E, V)
    BY <1>17, <2>1, <2>3, DropDelayed
  <2> QED
    BY <2>2, <2>4
<1>19. Q \subseteq V /\ Elements(u) \subseteq V /\ \A y \in Elements(u) : car2[y] \in V
  BY <1>18 DEF Uses, Used
<1>20. Linked(cdr2, qu.head, q) /\ Linked(cdr2, next, u)
  <2>1. PICK head : head = qu.head
    OBVIOUS
  <2>2. \A c \in Q : cdr2[c] = cdr[c]
    BY <1>17, <1>19 DEF Keeps
  <2>3. \A c \in Elements(u) : cdr2[c] = cdr[c]
    BY <1>17, <1>19 DEF Keeps
  <2>4. Linked(cdr2, head, q)
    BY <1>2, <2>1, <2>2, OtherLinks
  <2>5. Linked(cdr2, next, u)
    BY <1>4, <2>3, OtherLinks
  <2> QED
    BY <2>1, <2>4, <2>5
<1>21. Cardinality(V) = 2 * Len(q) + 3 * Len(u) + Cardinality(E)
  <2>1. Cardinality(U) = 2 * Len(q) + 3 * Len(t) + Cardinality(E)
    BY DEF Laid
  <2>2. Cardinality(U1) = Cardinality(U) - 1 /\ IsFiniteSet(U1)
    BY <1>0, <1>5, <1>9, FS_RemoveElement
  <2>3. Cardinality(U2) = Cardinality(U1) - 1 /\ IsFiniteSet(U2)
    BY <1>9, <1>10, <2>2, FS_RemoveElement
  <2>4. Cardinality(V) = Cardinality(U2) - 1
    BY <1>10, <2>3, FS_RemoveElement
  <2> QED
    BY <1>0, <1>4, <2>1, <2>2, <2>3, <2>4
<1>22. \A y \in Elements(u) : r.car[r.car[y]] \in Time
  <2>1. \A y \in T : car[car[y]] \in Time
    BY <1>1 DEF Laid
  <2>2. \A y \in Elements(u) : car2[y] = car[y] /\ car2[car2[y]] = car[car2[y]]
    BY <1>17, <1>19 DEF Keeps
  <2>3. \A y \in Elements(u) : car[car[y]] \in Time
    BY <1>4, <2>1
  <2>4. \A y \in Elements(u) : car2[car2[y]] \in Time
    BY <2>2, <2>3
  <2> QED
    BY <1>16, <2>4
<1>23. Laid(r, qu, next, E, q, u, G, V)
  <2>1. /\ IsFiniteSet(E) /\ qu = [head |-> qu.head, tail |-> qu.tail]
        /\ qu.head # NIL => qu.tail = q[Len(q)]
    BY DEF Laid
  <2> QED
    BY <1>14, <1>16, <1>18, <1>20, <1>21, <1>22, <2>1 DEF Laid
<1> QED
  BY <1>1, <1>3, <1>16, <1>17, <1>23

(* The first node of the queue is recycled; its entry stays in use.        *)
LEMMA DispatchLays ==
  ASSUME NEW p, NEW qu, NEW tq, NEW q, NEW t, NEW F, NEW U, NEW E, E = {},
         Laid(p, qu, tq, E, q, t, F, U), qu.head # NIL,
         NEW n, n = qu.head, NEW e, e = p.car[n],
         NEW qu2, qu2 = [head |-> p.cdr[n], tail |-> qu.tail],
         NEW r, r = cq_free(p, n), NEW V, V = U \ {n},
         NEW E2, E2 = {e}
  PROVE  /\ \E G : Laid(r, qu2, tq, E2, Tail(q), t, G, V)
         /\ Keeps(p.car, p.cdr, r.car, r.cdr, V)
<1> DEFINE Q == Elements(q)
           T == Elements(t)
<1>0. /\ Len(q) \in Nat /\ Len(t) \in Nat /\ DOMAIN q = 1 .. Len(q)
      /\ Q \subseteq U /\ T \subseteq U
      /\ \A y \in T : p.car[y] \in U
      /\ IsFiniteSet(U) /\ Cardinality(U) \in Nat
  <2>1. WellLaid(p, E, q, t, U)
    BY LaidFacts
  <2> QED
    BY <2>1 DEF WellLaid
<1>1. PICK car, cdr : car = p.car /\ cdr = p.cdr
  OBVIOUS
<1>2. Linked(cdr, tq, t) /\ Linked(cdr, n, q) /\ Uses(car, cdr, Q, T, E, U)
  BY <1>1 DEF Laid
<1>3. PICK u : u = Tail(q)
  OBVIOUS
<1>4. PICK next : next = cdr[n]
  OBVIOUS
<1>5. /\ Linked(cdr, next, u)
      /\ Len(u) = Len(q) - 1
      /\ \A k \in 1 .. Len(q) - 1 : u[k] = q[k + 1]
      /\ n \in Q /\ Elements(u) = Q \ {n}
  BY <1>2, <1>3, <1>4, PopLinks
<1>6. n \in U
  BY <1>0, <1>5
<1>7. Freed(r, p, U, n)
  <2>1. PoolOf(p, F, U)
    BY DEF Laid
  <2> QED
    BY <1>6, <2>1, FreePool
<1>8. PICK G : PoolOf(r, G, V)
  BY <1>7 DEF Freed
<1>9. PICK car2, cdr2 : car2 = r.car /\ cdr2 = r.cdr
  OBVIOUS
<1>10. Keeps(car, cdr, car2, cdr2, V)
  BY <1>1, <1>7, <1>9 DEF Keeps, Freed
<1>11. Uses(car2, cdr2, Elements(u), T, E2, V)
  <2>1. E2 = {car[n]}
    BY <1>1
  <2>2. PICK Q1, T1, Q2 : Q1 = Q /\ T1 = T /\ Q2 = Elements(u)
    OBVIOUS
  <2>3. Uses(car, cdr, Q1, T1, E, U) /\ n \in Q1 /\ Q2 = Q1 \ {n}
    BY <1>2, <1>5, <2>2
  <2>4. Uses(car2, cdr2, Q2, T1, E2, V)
    BY <1>10, <2>1, <2>3, TakeQueued
  <2> QED
    BY <2>2, <2>4
<1>12. T \subseteq V /\ Elements(u) \subseteq V /\ \A y \in T : car2[y] \in V
  BY <1>11 DEF Uses, Used
<1>13. Linked(cdr2, next, u) /\ Linked(cdr2, tq, t)
  <2>1. \A c \in T : cdr2[c] = cdr[c]
    BY <1>10, <1>12 DEF Keeps
  <2>2. \A c \in Elements(u) : cdr2[c] = cdr[c]
    BY <1>10, <1>12 DEF Keeps
  <2>3. Linked(cdr2, tq, t)
    BY <1>2, <2>1, OtherLinks
  <2>4. Linked(cdr2, next, u)
    BY <1>5, <2>2, OtherLinks
  <2> QED
    BY <2>3, <2>4
<1>14. IsFiniteSet(E2) /\ Cardinality(E2) = 1
  BY FS_Singleton
<1>15. Cardinality(V) = 2 * Len(u) + 3 * Len(t) + Cardinality(E2)
  <2>1. Cardinality(U) = 2 * Len(q) + 3 * Len(t) + Cardinality(E)
    BY DEF Laid
  <2>2. Cardinality(E) = 0
    BY FS_EmptySet
  <2>3. Cardinality(V) = Cardinality(U) - 1
    BY <1>0, <1>6, FS_RemoveElement
  <2> QED
    BY <1>0, <1>5, <1>14, <2>1, <2>2, <2>3
<1>16. \A y \in T : r.car[r.car[y]] \in Time
  <2>1. \A y \in T : car[car[y]] \in Time
    BY <1>1 DEF Laid
  <2>2. \A y \in T : car2[y] = car[y] /\ car2[car2[y]] = car[car2[y]]
    BY <1>10, <1>12 DEF Keeps
  <2> QED
    BY <1>9, <2>1, <2>2
<1>17. next # NIL => qu.tail = u[Len(u)]
  <2> SUFFICES ASSUME next # NIL
               PROVE  qu.tail = u[Len(u)]
    OBVIOUS
  <2>1. qu.tail = q[Len(q)]
    BY DEF Laid
  <2>2. u # << >>
    BY <1>5 DEF Linked
  <2>3. Len(u) # 0 /\ Len(u) \in Nat
    BY <1>5, <2>2, LinkedLength, EmptySeq DEF Linked
  <2>4. Len(u) \in 1 .. Len(q) - 1 /\ Len(u) + 1 = Len(q)
    BY <1>0, <1>5, <2>3
  <2> QED
    BY <1>5, <2>1, <2>4
<1>18. /\ qu2 = [head |-> qu2.head, tail |-> qu2.tail]
       /\ qu2.head = next /\ qu2.tail = qu.tail
  BY <1>1, <1>4
<1>19. Laid(r, qu2, tq, E2, u, t, G, V)
  BY <1>8, <1>9, <1>11, <1>13, <1>14, <1>15, <1>16, <1>17, <1>18 DEF Laid
<1> QED
  BY <1>1, <1>3, <1>9, <1>10, <1>19

(* The entry of the message in hand is recycled.                           *)
LEMMA ReturnLays ==
  ASSUME NEW p, NEW qu, NEW tq, NEW q, NEW t, NEW F, NEW U, NEW e, NEW E, E = {e},
         Laid(p, qu, tq, E, q, t, F, U),
         NEW r, r = cq_free(p, e), NEW V, V = U \ {e},
         NEW E2, E2 = {}
  PROVE  /\ \E G : Laid(r, qu, tq, E2, q, t, G, V)
         /\ Keeps(p.car, p.cdr, r.car, r.cdr, V)
<1> DEFINE Q == Elements(q)
           T == Elements(t)
<1>0. /\ Len(q) \in Nat /\ Len(t) \in Nat
      /\ E \subseteq U
      /\ IsFiniteSet(U) /\ Cardinality(U) \in Nat
  <2>1. WellLaid(p, E, q, t, U)
    BY LaidFacts
  <2> QED
    BY <2>1 DEF WellLaid
<1>1. PICK car, cdr, head : car = p.car /\ cdr = p.cdr /\ head = qu.head
  OBVIOUS
<1>2. Linked(cdr, tq, t) /\ Linked(cdr, head, q) /\ Uses(car, cdr, Q, T, E, U)
  BY <1>1 DEF Laid
<1>3. e \in U
  BY <1>0
<1>4. Freed(r, p, U, e)
  <2>1. PoolOf(p, F, U)
    BY DEF Laid
  <2> QED
    BY <1>3, <2>1, FreePool
<1>5. PICK G : PoolOf(r, G, V)
  BY <1>4 DEF Freed
<1>6. PICK car2, cdr2 : car2 = r.car /\ cdr2 = r.cdr
  OBVIOUS
<1>7. Keeps(car, cdr, car2, cdr2, V)
  BY <1>1, <1>4, <1>6 DEF Keeps, Freed
<1>8. Uses(car2, cdr2, Q, T, E2, V)
  <2>1. PICK Q1, T1 : Q1 = Q /\ T1 = T
    OBVIOUS
  <2>2. Uses(car, cdr, Q1, T1, E, U)
    BY <1>2, <2>1
  <2>3. Uses(car2, cdr2, Q1, T1, E2, V)
    BY <1>7, <2>2, DropCurrent
  <2> QED
    BY <2>1, <2>3
<1>9. Q \subseteq V /\ T \subseteq V /\ \A y \in T : car2[y] \in V
  BY <1>8 DEF Uses, Used
<1>10. Linked(cdr2, head, q) /\ Linked(cdr2, tq, t)
  <2>1. \A c \in T : cdr2[c] = cdr[c]
    BY <1>7, <1>9 DEF Keeps
  <2>2. \A c \in Q : cdr2[c] = cdr[c]
    BY <1>7, <1>9 DEF Keeps
  <2>3. Linked(cdr2, tq, t)
    BY <1>2, <2>1, OtherLinks
  <2>4. Linked(cdr2, head, q)
    BY <1>2, <2>2, OtherLinks
  <2> QED
    BY <2>3, <2>4
<1>11. IsFiniteSet(E2) /\ Cardinality(E2) = 0
  BY FS_EmptySet
<1>12. Cardinality(V) = 2 * Len(q) + 3 * Len(t) + Cardinality(E2)
  <2>1. Cardinality(U) = 2 * Len(q) + 3 * Len(t) + Cardinality(E)
    BY DEF Laid
  <2>2. Cardinality(E) = 1
    BY FS_Singleton
  <2>3. Cardinality(V) = Cardinality(U) - 1
    BY <1>0, <1>3, FS_RemoveElement
  <2> QED
    BY <1>0, <1>11, <2>1, <2>2, <2>3
<1>13. \A y \in T : r.car[r.car[y]] \in Time
  <2>1. \A y \in T : car[car[y]] \in Time
    BY <1>1 DEF Laid
  <2>2. \A y \in T : car2[y] = car[y] /\ car2[car2[y]] = car[car2[y]]
    BY <1>7, <1>9 DEF Keeps
  <2> QED
    BY <1>6, <2>1, <2>2
<1>14. Laid(r, qu, tq, E2, q, t, G, V)
  <2>1. /\ qu = [head |-> qu.head, tail |-> qu.tail]
        /\ qu.head # NIL => qu.tail = q[Len(q)]
    BY DEF Laid
  <2> QED
    BY <1>1, <1>5, <1>6, <1>8, <1>10, <1>11, <1>12, <1>13, <2>1 DEF Laid
<1> QED
  BY <1>1, <1>6, <1>7, <1>14

-----------------------------------------------------------------------------
(***************************************************************************)
(* The invariant of the runtime.                                           *)
(***************************************************************************)

Current == {q_entry} \ {NIL}

LaidOut == Laid(pool, queue, t_queue, Current, QueueNodes, TimerNodes, FreeCells, InUse)

(* The queues are laid out in the pool, the counters count them, a message *)
(* is in hand during a behaviour only, and the pool has room for what may  *)
(* still be sent.                                                          *)
RuntimeInv ==
  /\ LaidOut
  /\ q_count = Len(QueueNodes)
  /\ t_count = Len(TimerNodes)
  /\ q_entry \in PoolCell \cup {NIL}
  /\ q_entry # NIL <=> pc = "behaviour"
  /\ now \in (0 .. MaxSecond) \X (0 .. TICK_FREQ - 1)
  /\ delivered \in Nat
  /\ delivered + q_count + t_count + Cardinality(Current) <= MaxMessages

(* Chain finds the lists of a layout.                                      *)
LEMMA LaidChains ==
  ASSUME NEW p, NEW qu, NEW tq, NEW E, NEW q, NEW t, NEW F, NEW U,
         Laid(p, qu, tq, E, q, t, F, U)
  PROVE  Chain(p, qu.head) = q /\ Chain(p, tq) = t /\ Chain(p, p.free) = F
<1>1. PICK head, free : head = qu.head /\ free = p.free
  OBVIOUS
<1>2. Linked(p.cdr, head, q) /\ Linked(p.cdr, tq, t) /\ Linked(p.cdr, free, F)
  BY <1>1 DEF Laid, PoolOf
<1>3. Chain(p, head) = q
  BY <1>2, ChainOfLinked
<1>4. Chain(p, tq) = t
  BY <1>2, ChainOfLinked
<1>5. Chain(p, free) = F
  BY <1>2, ChainOfLinked
<1> QED
  BY <1>1, <1>3, <1>4, <1>5

(* The cells that a layout uses are those that the model says are in use.  *)
LEMMA LaidUses ==
  ASSUME NEW q, NEW t, NEW F, NEW U, Laid(pool, queue, t_queue, Current, q, t, F, U)
  PROVE  QueueNodes = q /\ TimerNodes = t /\ FreeCells = F /\ InUse = U
<1>1. QueueNodes = q /\ TimerNodes = t /\ FreeCells = F
  BY LaidChains DEF QueueNodes, TimerNodes, FreeCells
<1>2. TimerEntries = {pool.cdr[pool.car[x]] : x \in Elements(TimerNodes)}
  BY DEF TimerEntries, TimerCells
<1>3. InUse = Used(pool.car, pool.cdr, Elements(QueueNodes), Elements(TimerNodes), Current)
  BY <1>2 DEF InUse, QueueEntries, TimerCells, Used, Current
<1> QED
  BY <1>1, <1>3 DEF Laid, Uses

(* The same of the state after a step.                                     *)
LEMMA LaidNext ==
  ASSUME NEW q, NEW t, NEW F, NEW U, Laid(pool', queue', t_queue', Current', q, t, F, U)
  PROVE  /\ QueueNodes' = q /\ TimerNodes' = t
         /\ LaidOut'
<1>1. QueueNodes' = q /\ TimerNodes' = t /\ FreeCells' = F
  BY LaidChains DEF QueueNodes, TimerNodes, FreeCells
<1>2. TimerEntries' = {pool'.cdr[pool'.car[x]] : x \in Elements(TimerNodes)'}
  BY DEF TimerEntries, TimerCells
<1>3. InUse' = Used(pool'.car, pool'.cdr, Elements(QueueNodes)', Elements(TimerNodes)', Current')
  BY <1>2 DEF InUse, QueueEntries, TimerCells, Used, Current
<1>4. InUse' = U
  BY <1>1, <1>3 DEF Laid, Uses
<1> QED
  BY <1>1, <1>4 DEF LaidOut

(* Nothing is queued and no cell is in use at first.                       *)
LEMMA RuntimeStarts == Init => RuntimeInv
<1> SUFFICES ASSUME Init
             PROVE  RuntimeInv
  OBVIOUS
<1>1. Current = {} /\ IsFiniteSet(Current) /\ Cardinality(Current) = 0
  BY FS_EmptySet DEF Init, Current
<1>2. \A cdr : Linked(cdr, NIL, << >>)
  BY DEF Linked
<1>3. Elements(<< >>) = {}
  BY DEF Elements
<1>4. /\ DOMAIN pool.car = PoolCell /\ DOMAIN pool.cdr = PoolCell /\ pool.free = NIL
      /\ pool.perm = {} /\ pool.cnt = 0
      /\ pool = [car |-> pool.car, cdr |-> pool.cdr, free |-> pool.free,
                 perm |-> pool.perm, cnt |-> pool.cnt]
  BY DEF Init
<1>5. PoolOf(pool, << >>, {})
  BY <1>2, <1>3, <1>4, FS_EmptySet DEF PoolOf
<1>6. Uses(pool.car, pool.cdr, Elements(<< >>), Elements(<< >>), Current, {})
  BY <1>1, <1>3 DEF Uses, Used, Apart
<1>7. Laid(pool, queue, t_queue, Current, << >>, << >>, << >>, {})
  <2>1. /\ queue = [head |-> queue.head, tail |-> queue.tail]
        /\ queue.head = NIL /\ t_queue = NIL
    BY DEF Init
  <2>2. Cardinality({}) = 2 * Len(<< >>) + 3 * Len(<< >>) + Cardinality(Current)
    BY <1>1, FS_EmptySet
  <2> QED
    BY <1>1, <1>2, <1>3, <1>5, <1>6, <2>1, <2>2 DEF Laid
<1>8. QueueNodes = << >> /\ TimerNodes = << >> /\ FreeCells = << >> /\ InUse = {}
  BY <1>7, LaidUses
<1>9. /\ q_count = Len(QueueNodes)
      /\ t_count = Len(TimerNodes)
      /\ q_entry \in PoolCell \cup {NIL}
      /\ q_entry # NIL <=> pc = "behaviour"
      /\ delivered \in Nat
      /\ delivered + q_count + t_count + Cardinality(Current) <= MaxMessages
  BY <1>1, <1>8, ConstantsAssumption DEF Init, ConstantsAssumption
<1>10. now \in (0 .. MaxSecond) \X (0 .. TICK_FREQ - 1)
  <2>1. now \in {0} \X (0 .. TICK_FREQ - 1) /\ 0 \in 0 .. MaxSecond
    BY ConstantsAssumption DEF Init, ConstantsAssumption
  <2> QED
    BY <2>1
<1> QED
  BY <1>7, <1>8, <1>9, <1>10 DEF RuntimeInv, LaidOut

(* What the invariant says of the pool and of the message in hand.         *)
LEMMA Room ==
  ASSUME RuntimeInv
  PROVE  /\ Len(QueueNodes) \in Nat /\ Len(TimerNodes) \in Nat
         /\ q_count \in Nat /\ t_count \in Nat /\ delivered \in Nat
         /\ Cardinality(InUse) = 2 * q_count + 3 * t_count + Cardinality(Current)
         /\ Cardinality(InUse) \in Nat /\ Cardinality(PoolCell) \in Nat
         /\ Cardinality(Current) = IF q_entry = NIL THEN 0 ELSE 1
         /\ Cardinality(InUse) + 2 <= Cardinality(PoolCell)
         /\ delivered + q_count + t_count + Cardinality(Current) < MaxMessages =>
              Cardinality(InUse) + 3 <= Cardinality(PoolCell)
<1>1. /\ Len(QueueNodes) \in Nat /\ Len(TimerNodes) \in Nat
      /\ Cardinality(InUse) \in Nat
  <2>1. WellLaid(pool, Current, QueueNodes, TimerNodes, InUse)
    BY LaidFacts DEF RuntimeInv, LaidOut
  <2> QED
    BY <2>1 DEF WellLaid
<1>2. Cardinality(InUse) = 2 * q_count + 3 * t_count + Cardinality(Current)
  BY DEF RuntimeInv, LaidOut, Laid
<1>3. Cardinality(Current) = IF q_entry = NIL THEN 0 ELSE 1
  <2>1. Current = IF q_entry = NIL THEN {} ELSE {q_entry}
    BY DEF Current
  <2> QED
    BY <2>1, FS_EmptySet, FS_Singleton
<1>4. /\ Cardinality(PoolCell) \in Nat /\ MaxMessages \in Nat
      /\ Cardinality(PoolCell) >= 3 * MaxMessages + 2
  BY ConstantsAssumption, FS_CardinalityType DEF ConstantsAssumption
<1>5. /\ q_count \in Nat /\ t_count \in Nat /\ delivered \in Nat
      /\ delivered + q_count + t_count + Cardinality(Current) <= MaxMessages
  BY <1>1 DEF RuntimeInv
<1> QED
  BY <1>1, <1>2, <1>3, <1>4, <1>5

-----------------------------------------------------------------------------
(***************************************************************************)
(* What each action does to the layout.                                    *)
(***************************************************************************)

(* The cells of U keep their contents, except for the links of those in X. *)
Stays(U, X) ==
  /\ \A u \in U : pool'.car[u] = pool.car[u]
  /\ \A u \in U : u \notin X => pool'.cdr[u] = pool.cdr[u]

(* The entry e has the message m to a.                                     *)
Holds(p, e, a, m) == p.car[e] = a /\ p.cdr[e] = m

(* A message joins the queue at its end.                                   *)
LEMMA SendEffect ==
  ASSUME RuntimeInv, Send
  PROVE  \E a \in Actor, m \in Message, n, e \in PoolCell :
           /\ LaidOut'
           /\ QueueNodes' = Inserted(QueueNodes, Len(QueueNodes) + 1, n)
           /\ TimerNodes' = TimerNodes
           /\ pool'.car[n] = e /\ Holds(pool', e, a, m)
           /\ Stays(InUse, Elements(QueueNodes))
<1>1. PICK a \in Actor, m \in Message :
        LET s == abe__send(a, m) IN pool' = s.pool /\ queue' = s.queue
  BY DEF Send
<1>2. PICK s : s = abe__send(a, m)
  OBVIOUS
<1>3. pool' = s.pool /\ queue' = s.queue
  BY <1>1, <1>2
<1>4. t_queue' = t_queue /\ Current' = Current
  BY DEF Send, timing, Current
<1>5. LaidOut
  BY DEF RuntimeInv
<1>6. Cardinality(InUse) + 2 <= Cardinality(PoolCell)
  BY Room
<1>7. PICK E, q, t, F, U : /\ E = Current /\ q = QueueNodes /\ t = TimerNodes
                           /\ F = FreeCells /\ U = InUse
  OBVIOUS
<1>8. /\ Laid(pool, queue, t_queue, E, q, t, F, U)
      /\ Cardinality(U) + 2 <= Cardinality(PoolCell)
  BY <1>5, <1>6, <1>7 DEF LaidOut
<1>9. PICK n, e, G :
        /\ n \in PoolCell \ U /\ e \in PoolCell \ U /\ n # e
        /\ Laid(s.pool, s.queue, t_queue, E, Inserted(q, Len(q) + 1, n), t, G, U \cup {n, e})
        /\ s.pool.car[n] = e /\ s.pool.car[e] = a /\ s.pool.cdr[e] = m
        /\ \A u \in U : s.pool.car[u] = pool.car[u]
        /\ \A u \in U : u \notin Elements(q) => s.pool.cdr[u] = pool.cdr[u]
  <2>1. Sends(s, E, q, t, U, a, m)
    BY <1>2, <1>8, SendLays
  <2> QED
    BY <2>1 DEF Sends
<1>10. Laid(pool', queue', t_queue', Current', Inserted(q, Len(q) + 1, n), t, G,
            U \cup {n, e})
  BY <1>3, <1>4, <1>7, <1>9
<1>11. LaidOut' /\ QueueNodes' = Inserted(q, Len(q) + 1, n) /\ TimerNodes' = t
  BY <1>10, LaidNext
<1>12. Stays(InUse, Elements(QueueNodes))
  BY <1>3, <1>7, <1>9 DEF Stays
<1>13. pool'.car[n] = e /\ Holds(pool', e, a, m)
  BY <1>3, <1>9 DEF Holds
<1> QED
  BY <1>7, <1>9, <1>11, <1>12, <1>13

(* A delayed message joins the timer queue at the place of its time.       *)
LEMMA SendAfterEffect ==
  ASSUME RuntimeInv, SendAfter
  PROVE  \E a \in Actor, m \in Message, delay \in Delay, n, x, e \in PoolCell :
           \E at \in 1 .. Len(TimerNodes) + 1 :
           /\ LaidOut'
           /\ QueueNodes' = QueueNodes
           /\ TimerNodes' = Inserted(TimerNodes, at, n) /\ n \notin InUse
           /\ pool'.car[n] = x /\ pool'.car[x] = tv_increment(now[1], now[2], delay)
           /\ pool'.cdr[x] = e /\ Holds(pool', e, a, m)
           /\ Stays(InUse, Elements(TimerNodes))
<1>1. PICK delay \in Delay, a \in Actor, m \in Message :
        LET s == abe__send_after(delay, a, m) IN pool' = s.pool /\ t_queue' = s.t_queue
  BY DEF SendAfter
<1>2. PICK s : s = abe__send_after(delay, a, m)
  OBVIOUS
<1>3. pool' = s.pool /\ t_queue' = s.t_queue
  BY <1>1, <1>2
<1>4. queue' = queue /\ Current' = Current
  BY DEF SendAfter, Current
<1>5. LaidOut
  BY DEF RuntimeInv
<1>6. Cardinality(InUse) + 3 <= Cardinality(PoolCell)
  <2>1. delivered + q_count + t_count + Cardinality(Current) < MaxMessages
    BY DEF SendAfter, MaySend, Current
  <2> QED
    BY <2>1, Room
<1>7. PICK E, q, t, F, U : /\ E = Current /\ q = QueueNodes /\ t = TimerNodes
                           /\ F = FreeCells /\ U = InUse
  OBVIOUS
<1>8. /\ Laid(pool, queue, t_queue, E, q, t, F, U)
      /\ Cardinality(U) + 3 <= Cardinality(PoolCell)
  BY <1>5, <1>6, <1>7 DEF LaidOut
<1>9. PICK time \in Time : time = tv_increment(now[1], now[2], delay)
  <2>1. now[1] \in Nat /\ now[2] \in Nat
    BY ConstantsAssumption DEF RuntimeInv, ConstantsAssumption
  <2>2. delay \in Nat
    BY ConstantsAssumption DEF ConstantsAssumption
  <2> QED
    BY <2>1, <2>2, TickFacts
<1>10. PICK n, x, e, at, G :
         /\ n \in PoolCell \ U /\ x \in PoolCell \ U /\ e \in PoolCell \ U
         /\ at \in 1 .. Len(t) + 1
         /\ n # x /\ n # e /\ x # e
         /\ Laid(s.pool, queue, s.t_queue, E, q, Inserted(t, at, n), G, U \cup {n, x, e})
         /\ s.pool.car[n] = x
         /\ s.pool.car[x] = time /\ s.pool.cdr[x] = e
         /\ s.pool.car[e] = a /\ s.pool.cdr[e] = m
         /\ \A u \in U : s.pool.car[u] = pool.car[u]
         /\ \A u \in U : u \notin Elements(t) => s.pool.cdr[u] = pool.cdr[u]
  <2>1. SendsAfter(s, E, q, t, U, time, a, m)
    BY <1>2, <1>8, <1>9, SendAfterLays
  <2> QED
    BY <2>1 DEF SendsAfter
<1>11. Laid(pool', queue', t_queue', Current', q, Inserted(t, at, n), G, U \cup {n, x, e})
  BY <1>3, <1>4, <1>7, <1>10
<1>12. LaidOut' /\ QueueNodes' = q /\ TimerNodes' = Inserted(t, at, n)
  BY <1>11, LaidNext
<1>13. Stays(InUse, Elements(TimerNodes))
  BY <1>3, <1>7, <1>10 DEF Stays
<1>14. /\ pool'.car[n] = x /\ pool'.car[x] = time /\ pool'.cdr[x] = e
       /\ Holds(pool', e, a, m)
  BY <1>3, <1>10 DEF Holds
<1> QED
  BY <1>7, <1>9, <1>10, <1>12, <1>13, <1>14

(* The first delayed message is queued, in new cells, and removed.         *)
LEMMA FireTimerEffect ==
  ASSUME RuntimeInv, FireTimer
  PROVE  \E n, e \in PoolCell : \E x, d :
           /\ t_queue \in Elements(TimerNodes) /\ x = pool.car[t_queue] /\ d = pool.cdr[x]
           /\ LaidOut'
           /\ QueueNodes' = Inserted(QueueNodes, Len(QueueNodes) + 1, n)
           /\ TimerNodes' = Tail(TimerNodes)
           /\ pool'.car[n] = e /\ Holds(pool', e, pool.car[d], pool.cdr[d])
           /\ Stays(((InUse \ {d}) \ {x}) \ {t_queue}, Elements(QueueNodes))
<1>1. PICK x, d : x = pool.car[t_queue] /\ d = pool.cdr[x]
  OBVIOUS
<1>2. PICK a, m, s : a = pool.car[d] /\ m = pool.cdr[d] /\ s = abe__send(a, m)
  OBVIOUS
<1>3. /\ pool' = cq_free(cq_free(cq_free(s.pool, d), x), t_queue)
      /\ queue' = s.queue
      /\ t_queue' = pool.cdr[t_queue]
      /\ t_queue # NIL
  BY <1>1, <1>2 DEF FireTimer, NothingDue
<1>4. Current' = Current
  BY DEF FireTimer, Current
<1>5. LaidOut /\ Cardinality(InUse) + 2 <= Cardinality(PoolCell)
  BY Room DEF RuntimeInv
<1>6. PICK E, q, t, F, U : /\ E = Current /\ q = QueueNodes /\ t = TimerNodes
                           /\ F = FreeCells /\ U = InUse
  OBVIOUS
<1>7. /\ Laid(pool, queue, t_queue, E, q, t, F, U)
      /\ Cardinality(U) + 2 <= Cardinality(PoolCell)
  BY <1>5, <1>6 DEF LaidOut
<1>8. PICK n, e, G :
        /\ n \in PoolCell \ U /\ e \in PoolCell \ U /\ n # e
        /\ Laid(s.pool, s.queue, t_queue, E, Inserted(q, Len(q) + 1, n), t, G, U \cup {n, e})
        /\ s.pool.car[n] = e /\ s.pool.car[e] = a /\ s.pool.cdr[e] = m
        /\ \A u \in U : s.pool.car[u] = pool.car[u]
        /\ \A u \in U : u \notin Elements(q) => s.pool.cdr[u] = pool.cdr[u]
  <2>1. Sends(s, E, q, t, U, a, m)
    BY <1>2, <1>7, SendLays
  <2> QED
    BY <2>1 DEF Sends
<1>9. t_queue \in Elements(t)
  <2>1. PICK cdr : cdr = pool.cdr
    OBVIOUS
  <2>2. Linked(cdr, t_queue, t)
    BY <1>7, <2>1 DEF Laid
  <2> QED
    BY <1>3, <2>2, PopLinks
<1>10. /\ t_queue \in U /\ x \in U /\ d \in U
       /\ t_queue \notin Elements(q) /\ x \notin Elements(q) /\ d \notin Elements(q)
  <2>1. Uses(pool.car, pool.cdr, Elements(q), Elements(t), E, U)
    BY <1>7 DEF Laid
  <2>2. WellLaid(pool, E, q, t, U)
    BY <1>7, LaidFacts
  <2> QED
    BY <1>1, <1>9, <2>1, <2>2 DEF Uses, Apart, WellLaid
<1>11. /\ x = s.pool.car[t_queue] /\ d = s.pool.cdr[x]
       /\ pool.cdr[t_queue] = s.pool.cdr[t_queue]
  BY <1>1, <1>8, <1>10
<1>12. PICK V, W : V = U \cup {n, e} /\ W = ((V \ {d}) \ {x}) \ {t_queue}
  OBVIOUS
<1>13. PICK p, qu, r : p = s.pool /\ qu = s.queue /\ r = Inserted(q, Len(q) + 1, n)
  OBVIOUS
<1>14. Laid(p, qu, t_queue, E, r, t, G, V)
  BY <1>8, <1>12, <1>13
<1>15. PICK next, z : next = p.cdr[t_queue] /\ z = cq_free(cq_free(cq_free(p, d), x), t_queue)
  OBVIOUS
<1>16. x = p.car[t_queue] /\ d = p.cdr[x]
  BY <1>11, <1>13
<1>17. \E H : Laid(z, qu, next, E, r, Tail(t), H, W)
  BY <1>3, <1>12, <1>14, <1>15, <1>16, FireLays
<1>18. Keeps(p.car, p.cdr, z.car, z.cdr, W)
  BY <1>3, <1>12, <1>14, <1>15, <1>16, FireLays
<1>19. pool' = z /\ queue' = qu /\ t_queue' = next
  BY <1>3, <1>11, <1>13, <1>15
<1>20. PICK H : Laid(pool', queue', t_queue', Current', r, Tail(t), H, W)
  BY <1>4, <1>6, <1>17, <1>19
<1>21. LaidOut' /\ QueueNodes' = r /\ TimerNodes' = Tail(t)
  BY <1>20, LaidNext
<1>22. \A u \in W : pool'.car[u] = p.car[u] /\ pool'.cdr[u] = p.cdr[u]
  BY <1>18, <1>19 DEF Keeps
<1>23. n \in W /\ e \in W
  BY <1>8, <1>10, <1>12
<1>24. pool'.car[n] = e /\ Holds(pool', e, a, m)
  BY <1>8, <1>13, <1>22, <1>23 DEF Holds
<1>25. Stays(((U \ {d}) \ {x}) \ {t_queue}, Elements(q))
  <2>1. ((U \ {d}) \ {x}) \ {t_queue} \subseteq W
    BY <1>12
  <2>2. ((U \ {d}) \ {x}) \ {t_queue} \subseteq U
    OBVIOUS
  <2> QED
    BY <1>8, <1>13, <1>22, <2>1, <2>2 DEF Stays
<1> QED
  BY <1>1, <1>2, <1>6, <1>8, <1>9, <1>13, <1>21, <1>24, <1>25

(* The first message leaves the queue; its entry becomes the one in hand.  *)
LEMMA DispatchEffect ==
  ASSUME RuntimeInv, Dispatch
  PROVE  /\ q_entry = NIL
         /\ queue.head \in PoolCell /\ QueueNodes # << >> /\ queue.head = QueueNodes[1]
         /\ q_entry' = pool.car[queue.head] /\ q_entry' \in PoolCell
         /\ LaidOut'
         /\ QueueNodes' = Tail(QueueNodes)
         /\ TimerNodes' = TimerNodes
         /\ Stays(InUse \ {queue.head}, {})
<1>1. PICK n, e : n = queue.head /\ e = pool.car[n]
  OBVIOUS
<1>2. /\ n # NIL
      /\ pool' = cq_free(pool, n)
      /\ q_entry' = e
      /\ t_queue' = t_queue
  BY <1>1 DEF Dispatch, timing
<1>3. PICK E, q, t, F, U : /\ E = Current /\ q = QueueNodes /\ t = TimerNodes
                           /\ F = FreeCells /\ U = InUse
  OBVIOUS
<1>4. Laid(pool, queue, t_queue, E, q, t, F, U)
  BY <1>3 DEF RuntimeInv, LaidOut
<1>5. q_entry = NIL /\ E = {}
  BY <1>3 DEF RuntimeInv, Dispatch, Current
<1>6. /\ n \in PoolCell /\ q # << >> /\ n = q[1] /\ n \in Elements(q)
  <2>1. PICK cdr : cdr = pool.cdr
    OBVIOUS
  <2>2. Linked(cdr, n, q)
    BY <1>1, <1>4, <2>1 DEF Laid
  <2> QED
    BY <1>2, <2>2, PopLinks
<1>7. e \in PoolCell
  <2>1. WellLaid(pool, E, q, t, U)
    BY <1>4, LaidFacts
  <2> QED
    BY <1>1, <1>6, <2>1 DEF WellLaid
<1>8. queue' = [head |-> pool.cdr[n], tail |-> queue.tail]
  <2>1. queue = [head |-> queue.head, tail |-> queue.tail]
    BY <1>4 DEF Laid
  <2>2. PICK head, tail : queue = [head |-> head, tail |-> tail]
    BY <2>1
  <2>3. queue' = [queue EXCEPT !.head = pool.cdr[n]]
    BY <1>1 DEF Dispatch
  <2> QED
    BY <2>2, <2>3
<1>9. Current' = {e}
  BY <1>2, <1>7, ConstantsAssumption DEF Current, ConstantsAssumption
<1>10. PICK p, qu, qu2, r, V, E2 :
         /\ p = pool /\ qu = queue /\ qu2 = queue' /\ r = pool'
         /\ V = U \ {n} /\ E2 = {e}
  OBVIOUS
<1>11. /\ E = {} /\ Laid(p, qu, t_queue, E, q, t, F, U) /\ qu.head # NIL
       /\ n = qu.head /\ e = p.car[n] /\ qu2 = [head |-> p.cdr[n], tail |-> qu.tail]
       /\ r = cq_free(p, n) /\ V = U \ {n} /\ E2 = {e}
  BY <1>1, <1>2, <1>4, <1>5, <1>8, <1>10
<1>12. \E G : Laid(r, qu2, t_queue, E2, Tail(q), t, G, V)
  BY <1>11, DispatchLays
<1>13. Keeps(p.car, p.cdr, r.car, r.cdr, V)
  BY <1>11, DispatchLays
<1>14. PICK G : Laid(pool', queue', t_queue', Current', Tail(q), t, G, V)
  BY <1>2, <1>9, <1>10, <1>12
<1>15. LaidOut' /\ QueueNodes' = Tail(q) /\ TimerNodes' = t
  BY <1>14, LaidNext
<1>16. Stays(U \ {n}, {})
  BY <1>10, <1>13 DEF Keeps, Stays
<1> QED
  BY <1>1, <1>2, <1>3, <1>5, <1>6, <1>7, <1>15, <1>16

(* The entry in hand is recycled; the queues stay.                         *)
LEMMA ReturnEffect ==
  ASSUME RuntimeInv, BehaviourReturns
  PROVE  /\ q_entry # NIL /\ q_entry' = NIL
         /\ LaidOut'
         /\ QueueNodes' = QueueNodes
         /\ TimerNodes' = TimerNodes
         /\ Stays(InUse \ {q_entry}, {})
<1>1. PICK e : e = q_entry
  OBVIOUS
<1>2. /\ pool' = cq_free(pool, e)
      /\ q_entry' = NIL /\ queue' = queue /\ t_queue' = t_queue
  BY <1>1 DEF BehaviourReturns, timing
<1>3. PICK E, q, t, F, U : /\ E = Current /\ q = QueueNodes /\ t = TimerNodes
                           /\ F = FreeCells /\ U = InUse
  OBVIOUS
<1>4. Laid(pool, queue, t_queue, E, q, t, F, U)
  BY <1>3 DEF RuntimeInv, LaidOut
<1>5. q_entry # NIL /\ E = {e}
  BY <1>1, <1>3 DEF RuntimeInv, BehaviourReturns, Current
<1>6. Current' = {}
  BY <1>2 DEF Current
<1>7. PICK p, qu, r, V, E2 :
         /\ p = pool /\ qu = queue /\ r = pool' /\ V = U \ {e} /\ E2 = {}
  OBVIOUS
<1>8. /\ E = {e} /\ Laid(p, qu, t_queue, E, q, t, F, U)
      /\ r = cq_free(p, e) /\ V = U \ {e} /\ E2 = {}
  BY <1>2, <1>4, <1>5, <1>7
<1>9. \E G : Laid(r, qu, t_queue, E2, q, t, G, V)
  BY <1>8, ReturnLays
<1>10. Keeps(p.car, p.cdr, r.car, r.cdr, V)
  BY <1>8, ReturnLays
<1>11. PICK G : Laid(pool', queue', t_queue', Current', q, t, G, V)
  BY <1>2, <1>6, <1>7, <1>9
<1>12. LaidOut' /\ QueueNodes' = q /\ TimerNodes' = t
  BY <1>11, LaidNext
<1>13. Stays(U \ {e}, {})
  BY <1>7, <1>10 DEF Keeps, Stays
<1> QED
  BY <1>1, <1>2, <1>3, <1>5, <1>12, <1>13

(* The other steps leave the layout alone.                                 *)
Quiet == RunConfiguration \/ BudgetSpent \/ NoClockCheck \/ ReadClock \/ TickDone
           \/ QueueEmpty \/ UNCHANGED vars

(* The remaining steps move run_configuration and its clock only.          *)
LEMMA QuietEffect ==
  ASSUME RuntimeInv, Quiet
  PROVE  /\ UNCHANGED <<pool, queue, t_queue, q_entry, q_count, t_count, delivered>>
         /\ LaidOut' /\ QueueNodes' = QueueNodes /\ TimerNodes' = TimerNodes
         /\ Current' = Current
         /\ now' \in (0 .. MaxSecond) \X (0 .. TICK_FREQ - 1)
         /\ q_entry # NIL <=> pc' = "behaviour"
<1>1. UNCHANGED <<pool, queue, t_queue, q_entry, q_count, t_count, delivered>>
  BY DEF Quiet, RunConfiguration, BudgetSpent, NoClockCheck, ReadClock, TickDone, QueueEmpty,
     vars, timing
<1>2. Current' = Current
  BY <1>1 DEF Current
<1>3. Laid(pool', queue', t_queue', Current', QueueNodes, TimerNodes, FreeCells, InUse)
  BY <1>1, <1>2 DEF RuntimeInv, LaidOut
<1>4. LaidOut' /\ QueueNodes' = QueueNodes /\ TimerNodes' = TimerNodes
  BY <1>3, LaidNext
<1>5. now' \in (0 .. MaxSecond) \X (0 .. TICK_FREQ - 1)
  BY DEF RuntimeInv, Quiet, RunConfiguration, BudgetSpent, NoClockCheck, ReadClock, TickDone,
     QueueEmpty, vars, timing
<1>6. q_entry # NIL <=> pc' = "behaviour"
  BY DEF RuntimeInv, Quiet, RunConfiguration, BudgetSpent, NoClockCheck, ReadClock, TickDone,
     QueueEmpty, vars, loop
<1> QED
  BY <1>1, <1>2, <1>4, <1>5, <1>6

(* Every step is one of these.                                             *)
LEMMA Steps ==
  ASSUME [Next]_vars
  PROVE  Send \/ SendAfter \/ FireTimer \/ Dispatch \/ BehaviourReturns \/ Quiet
BY DEF Next, Run, Quiet

(* Every step keeps the invariant.                                         *)
LEMMA RuntimeStep ==
  ASSUME RuntimeInv, [Next]_vars
  PROVE  RuntimeInv'
<1>0. /\ Len(QueueNodes) \in Nat /\ Len(TimerNodes) \in Nat
      /\ q_count \in Nat /\ t_count \in Nat /\ delivered \in Nat
      /\ Cardinality(Current) = IF q_entry = NIL THEN 0 ELSE 1
      /\ MaxMessages \in Nat
  BY Room, ConstantsAssumption DEF ConstantsAssumption
<1>1. /\ QueueNodes \in Seq(PoolCell) /\ TimerNodes \in Seq(PoolCell)
      /\ q_count = Len(QueueNodes) /\ t_count = Len(TimerNodes)
      /\ q_entry \in PoolCell \cup {NIL}
      /\ q_entry # NIL <=> pc = "behaviour"
      /\ now \in (0 .. MaxSecond) \X (0 .. TICK_FREQ - 1)
      /\ delivered + q_count + t_count + Cardinality(Current) <= MaxMessages
  BY DEF RuntimeInv, LaidOut, Laid, Linked
<1>2. CASE Send
  <2>1. PICK n \in PoolCell : /\ LaidOut'
                              /\ QueueNodes' = Inserted(QueueNodes, Len(QueueNodes) + 1, n)
                              /\ TimerNodes' = TimerNodes
    BY <1>2, SendEffect
  <2>2. Len(QueueNodes') = Len(QueueNodes) + 1
    BY <1>0, <1>1, <2>1, InsertedIsSeq
  <2>3. Current' = Current
    BY <1>2 DEF Send, Current
  <2>4. delivered + q_count + t_count + Cardinality(Current) < MaxMessages
    BY <1>2 DEF Send, MaySend, Current
  <2> QED
    BY <1>0, <1>1, <1>2, <2>1, <2>2, <2>3, <2>4 DEF RuntimeInv, Send, timing, loop
<1>3. CASE SendAfter
  <2>1. PICK n \in PoolCell : \E at \in 1 .. Len(TimerNodes) + 1 :
          LaidOut' /\ QueueNodes' = QueueNodes /\ TimerNodes' = Inserted(TimerNodes, at, n)
    BY <1>3, SendAfterEffect
  <2>2. Len(TimerNodes') = Len(TimerNodes) + 1
    BY <1>1, <2>1, InsertedIsSeq
  <2>3. Current' = Current
    BY <1>3 DEF SendAfter, Current
  <2>4. delivered + q_count + t_count + Cardinality(Current) < MaxMessages
    BY <1>3 DEF SendAfter, MaySend, Current
  <2> QED
    BY <1>0, <1>1, <1>3, <2>1, <2>2, <2>3, <2>4 DEF RuntimeInv, SendAfter, loop
<1>4. CASE FireTimer
  <2>1. PICK n \in PoolCell : /\ t_queue \in Elements(TimerNodes)
                              /\ LaidOut'
                              /\ QueueNodes' = Inserted(QueueNodes, Len(QueueNodes) + 1, n)
                              /\ TimerNodes' = Tail(TimerNodes)
    BY <1>4, FireTimerEffect
  <2>2. Len(QueueNodes') = Len(QueueNodes) + 1
    BY <1>0, <1>1, <2>1, InsertedIsSeq
  <2>3. Len(TimerNodes') = Len(TimerNodes) - 1
    <3>1. TimerNodes # << >>
      BY <2>1, EmptySeq DEF Elements
    <3> QED
      BY <1>1, <2>1, <3>1, HeadTailProperties
  <2>4. Current' = Current
    BY <1>4 DEF FireTimer, Current
  <2>5. /\ q_count' = q_count + 1 /\ t_count' = t_count - 1
        /\ delivered' = delivered /\ now' = now /\ pc' = pc /\ q_entry' = q_entry
    BY <1>4 DEF FireTimer, loop
  <2>6. q_count' = Len(QueueNodes') /\ t_count' = Len(TimerNodes')
    BY <1>1, <2>2, <2>3, <2>5
  <2>7. delivered' + q_count' + t_count' + Cardinality(Current') <= MaxMessages
    BY <1>0, <1>1, <2>4, <2>5
  <2> QED
    BY <1>0, <1>1, <2>1, <2>5, <2>6, <2>7 DEF RuntimeInv
<1>5. CASE Dispatch
  <2>1. /\ q_entry = NIL /\ q_entry' \in PoolCell
        /\ LaidOut'
        /\ QueueNodes # << >> /\ QueueNodes' = Tail(QueueNodes)
        /\ TimerNodes' = TimerNodes
    BY <1>5, DispatchEffect
  <2>2. Len(QueueNodes') = Len(QueueNodes) - 1
    BY <1>1, <2>1, HeadTailProperties
  <2>3. q_entry' # NIL /\ Cardinality(Current') = 1
    <3>1. Current' = {q_entry'}
      BY <2>1, ConstantsAssumption DEF Current, ConstantsAssumption
    <3> QED
      BY <2>1, <3>1, FS_Singleton, ConstantsAssumption DEF ConstantsAssumption
  <2>4. /\ q_count' = Len(QueueNodes') /\ t_count' = Len(TimerNodes')
        /\ delivered' = delivered /\ now' = now /\ pc' = "behaviour"
    BY <1>1, <1>5, <2>1, <2>2 DEF Dispatch, timing
  <2>5. delivered' + q_count' + t_count' + Cardinality(Current') <= MaxMessages
    BY <1>0, <1>1, <2>1, <2>2, <2>3, <2>4
  <2> QED
    BY <1>0, <1>1, <2>1, <2>3, <2>4, <2>5 DEF RuntimeInv
<1>6. CASE BehaviourReturns
  <2>1. /\ q_entry # NIL /\ q_entry' = NIL
        /\ LaidOut'
        /\ QueueNodes' = QueueNodes
        /\ TimerNodes' = TimerNodes
    BY <1>6, ReturnEffect
  <2>2. Cardinality(Current') = 0
    <3>1. Current' = {}
      BY <2>1 DEF Current
    <3> QED
      BY <3>1, FS_EmptySet
  <2> QED
    BY <1>0, <1>1, <1>6, <2>1, <2>2 DEF RuntimeInv, BehaviourReturns, timing
<1>7. CASE Quiet
  BY <1>1, <1>0, <1>7, QuietEffect DEF RuntimeInv
<1> QED
  BY <1>2, <1>3, <1>4, <1>5, <1>6, <1>7, Steps

(* The runtime's invariant holds in every reachable state.                 *)
THEOREM RuntimeInvariant == Spec => []RuntimeInv
<1>1. Init => RuntimeInv
  BY RuntimeStarts
<1>2. RuntimeInv /\ [Next]_vars => RuntimeInv'
  BY RuntimeStep
<1> QED
  BY <1>1, <1>2, PTL DEF Spec

(* The counters that cfg_gather_roots asserts are exact and the tail that  *)
(* CQ_PUT writes through is the last node, for every pool and any use.     *)
THEOREM QueuesAreExact == Spec => []QueuesExact
<1>1. RuntimeInv => QueuesExact
  BY DEF RuntimeInv, LaidOut, Laid, QueuesExact
<1> QED
  BY <1>1, RuntimeInvariant, PTL

(* No cell of the pool is lost, freed twice or used twice.                 *)
THEOREM PoolIsExact == Spec => []PoolExact
<1>1. ASSUME RuntimeInv
      PROVE  PoolExact
  <2>1. PoolOf(pool, FreeCells, InUse)
    BY <1>1 DEF RuntimeInv, LaidOut, Laid
  <2>2. Cardinality(InUse) = 2 * q_count + 3 * t_count + Cardinality(Current)
    BY <1>1, Room
  <2> QED
    BY <2>1, <2>2 DEF PoolExact, PoolOf, Current
<1> QED
  BY <1>1, RuntimeInvariant, PTL

(* SELF and WHAT are not overwritten while a behaviour uses them.          *)
THEOREM EventsAreStable == Spec => EventStable
<1>1. ASSUME RuntimeInv, [Next]_vars, q_entry # NIL, q_entry' = q_entry
      PROVE  /\ pool'.car[q_entry] = pool.car[q_entry]
             /\ pool'.cdr[q_entry] = pool.cdr[q_entry]
  <2>1. /\ q_entry \in InUse
        /\ q_entry \notin Elements(QueueNodes) /\ q_entry \notin Elements(TimerNodes)
    <3>1. Uses(pool.car, pool.cdr, Elements(QueueNodes), Elements(TimerNodes), Current, InUse)
      BY <1>1 DEF RuntimeInv, LaidOut, Laid
    <3>2. q_entry \in Current
      BY <1>1 DEF Current
    <3> QED
      BY <3>1, <3>2 DEF Uses, Used, Apart
  <2>2. pc = "behaviour"
    BY <1>1 DEF RuntimeInv
  <2>3. CASE Send
    <3>1. Stays(InUse, Elements(QueueNodes))
      BY <1>1, <2>3, SendEffect
    <3> QED
      BY <2>1, <3>1 DEF Stays
  <2>4. CASE SendAfter
    <3>1. Stays(InUse, Elements(TimerNodes))
      BY <1>1, <2>4, SendAfterEffect
    <3> QED
      BY <2>1, <3>1 DEF Stays
  <2>5. ~FireTimer /\ ~Dispatch
    BY <2>2 DEF FireTimer, Dispatch
  <2>6. ~BehaviourReturns
    BY <1>1, ReturnEffect
  <2>7. CASE Quiet
    BY <1>1, <2>7, QuietEffect
  <2> QED
    BY <1>1, <2>3, <2>4, <2>5, <2>6, <2>7, Steps
<1>2. RuntimeInv /\ [Next]_vars =>
        [q_entry # NIL /\ q_entry' = q_entry =>
           /\ pool'.car[q_entry] = pool.car[q_entry]
           /\ pool'.cdr[q_entry] = pool.cdr[q_entry]]_vars
  BY <1>1
<1> QED
  BY <1>2, RuntimeInvariant, PTL DEF Spec, EventStable

-----------------------------------------------------------------------------
(***************************************************************************)
(* The cells implement messages: module MessagePump.                       *)
(***************************************************************************)

Contents(p, e) == [target |-> p.car[e], msg |-> p.cdr[e]]

EventsOf(p, q) == [k \in DOMAIN q |-> Contents(p, p.car[q[k]])]

TimerOf(p, x) ==
  [id |-> x, due |-> Ticks(p.car[p.car[x]]), event |-> Contents(p, p.cdr[p.car[x]])]

TimersOf(p, T) == {TimerOf(p, x) : x \in T}

(* A function on 1 .. n is a sequence.                                     *)
LEMMA FunctionIsSeq ==
  ASSUME NEW S, NEW n \in Nat, NEW f \in [1 .. n -> S]
  PROVE  f \in Seq(S) /\ Len(f) = n
<1>1. f \in Seq(S)
  BY SeqDef
<1>2. Len(f) \in Nat /\ 1 .. Len(f) = 1 .. n
  BY <1>1, LenProperties
<1>3. \A j, k \in Nat : j < k => k \in 1 .. k /\ k \notin 1 .. j
  OBVIOUS
<1>4. ~(Len(f) < n) /\ ~(n < Len(f))
  BY <1>2, <1>3
<1> QED
  BY <1>1, <1>2, <1>4

(* There is a message for each node of the queue.                          *)
LEMMA EventsAreSeq ==
  ASSUME NEW p, NEW q \in Seq(PoolCell), NEW S, \A k \in 1 .. Len(q) : EventsOf(p, q)[k] \in S
  PROVE  EventsOf(p, q) \in Seq(S) /\ Len(EventsOf(p, q)) = Len(q)
<1>1. Len(q) \in Nat /\ DOMAIN q = 1 .. Len(q)
  BY LenProperties
<1>2. PICK f : f = EventsOf(p, q)
  OBVIOUS
<1>3. f \in [1 .. Len(q) -> S]
  <2>1. f = [k \in 1 .. Len(q) |-> f[k]]
    BY <1>1, <1>2 DEF EventsOf
  <2> QED
    BY <1>2, <2>1
<1> QED
  BY <1>1, <1>2, <1>3, FunctionIsSeq

(* A node inserted at the end of the queue is an event appended to it.     *)
LEMMA EventAppended ==
  ASSUME NEW p, NEW q \in Seq(PoolCell), NEW n \in PoolCell, NEW e, p.car[n] = e,
         NEW a, NEW m, Holds(p, e, a, m), NEW r, r = Inserted(q, Len(q) + 1, n)
  PROVE  EventsOf(p, r) = Append(EventsOf(p, q), [target |-> a, msg |-> m])
<1> DEFINE ev == [target |-> a, msg |-> m]
           S == {EventsOf(p, r)[k] : k \in 1 .. Len(r)} \cup {ev}
                  \cup {EventsOf(p, q)[k] : k \in 1 .. Len(q)}
<1>1. /\ Len(q) \in Nat /\ DOMAIN q = 1 .. Len(q) /\ Len(q) + 1 \in 1 .. Len(q) + 1
  BY LenProperties
<1>2. r \in Seq(PoolCell) /\ Len(r) = Len(q) + 1 /\ DOMAIN r = 1 .. Len(q) + 1
  BY <1>1, InsertedIsSeq
<1>3. /\ \A k \in 1 .. Len(q) : r[k] = q[k]
      /\ r[Len(q) + 1] = n
  BY <1>1 DEF Inserted
<1>4. PICK f, g : f = EventsOf(p, q) /\ g = EventsOf(p, r)
  OBVIOUS
<1>5. /\ \A k \in 1 .. Len(q) : g[k] = f[k]
      /\ g[Len(q) + 1] = ev
  <2>1. \A k \in 1 .. Len(q) + 1 : g[k] = Contents(p, p.car[r[k]])
    BY <1>2, <1>4 DEF EventsOf
  <2>2. \A k \in 1 .. Len(q) : f[k] = Contents(p, p.car[q[k]])
    BY <1>1, <1>4 DEF EventsOf
  <2>3. Contents(p, e) = ev
    BY DEF Contents, Holds
  <2>4. Len(q) + 1 \in 1 .. Len(q) + 1 /\ \A k \in 1 .. Len(q) : k \in 1 .. Len(q) + 1
    BY <1>1
  <2> HIDE DEF ev
  <2> QED
    BY <1>3, <2>1, <2>2, <2>3, <2>4
<1>6. PICK d, R : d = ev /\ R = S
  OBVIOUS
<1>7. f \in Seq(R) /\ Len(f) = Len(q)
  <2>1. \A k \in 1 .. Len(q) : EventsOf(p, q)[k] \in R
    BY <1>6
  <2> QED
    BY <1>4, <2>1, EventsAreSeq
<1>8. g \in Seq(R) /\ Len(g) = Len(q) + 1
  <2>1. \A k \in 1 .. Len(r) : EventsOf(p, r)[k] \in R
    BY <1>6
  <2> QED
    BY <1>2, <1>4, <2>1, EventsAreSeq
<1>9. d \in R
  BY <1>6
<1>10. /\ Append(f, d) \in Seq(R)
       /\ Len(Append(f, d)) = Len(f) + 1
       /\ \A i \in 1 .. Len(f) : Append(f, d)[i] = f[i]
       /\ Append(f, d)[Len(f) + 1] = d
  <2>1. f \in Seq(R) /\ d \in R
    BY <1>7, <1>9
  <2>2. Append(f, d) \in Seq(R) /\ Len(Append(f, d)) = Len(f) + 1
    BY <2>1, AppendProperties
  <2>3. \A i \in 1 .. Len(f) : Append(f, d)[i] = f[i]
    BY <2>1, AppendProperties
  <2>4. Append(f, d)[Len(f) + 1] = d
    BY <2>1, AppendProperties
  <2> QED
    BY <2>2, <2>3, <2>4
<1>11. PICK h : h = Append(f, d)
  OBVIOUS
<1>12. Len(g) = Len(h) /\ \A i \in 1 .. Len(g) : g[i] = h[i]
  BY <1>1, <1>5, <1>6, <1>7, <1>8, <1>10, <1>11
<1>13. g = h
  BY <1>8, <1>10, <1>11, <1>12, SeqEqual
<1> QED
  BY <1>4, <1>6, <1>11, <1>13

(* The event of the first node is the first event.                         *)
LEMMA EventTaken ==
  ASSUME NEW p, NEW q \in Seq(PoolCell), q # << >>
  PROVE  /\ EventsOf(p, q) # << >>
         /\ Head(EventsOf(p, q)) = Contents(p, p.car[q[1]])
         /\ EventsOf(p, Tail(q)) = Tail(EventsOf(p, q))
<1> DEFINE S == {EventsOf(p, q)[k] : k \in 1 .. Len(q)}
                  \cup {EventsOf(p, Tail(q))[k] : k \in 1 .. Len(Tail(q))}
<1>1. /\ Len(q) \in Nat /\ Len(q) # 0 /\ DOMAIN q = 1 .. Len(q)
  BY LenProperties, EmptySeq
<1>2. PICK t : t = Tail(q)
  OBVIOUS
<1>3. /\ t \in Seq(PoolCell) /\ Len(t) = Len(q) - 1
      /\ \A i \in 1 .. Len(t) : t[i] = q[i + 1]
  BY <1>2, HeadTailProperties
<1>4. DOMAIN t = 1 .. Len(t)
  BY <1>3, LenProperties
<1>5. PICK f, g, R : f = EventsOf(p, q) /\ g = EventsOf(p, t) /\ R = S
  OBVIOUS
<1>6. f \in Seq(R) /\ Len(f) = Len(q)
  <2>1. \A k \in 1 .. Len(q) : EventsOf(p, q)[k] \in R
    BY <1>5
  <2> QED
    BY <1>5, <2>1, EventsAreSeq
<1>7. g \in Seq(R) /\ Len(g) = Len(t)
  <2>1. \A k \in 1 .. Len(t) : EventsOf(p, t)[k] \in R
    BY <1>2, <1>5
  <2> QED
    BY <1>3, <1>5, <2>1, EventsAreSeq
<1>8. f # << >>
  BY <1>1, <1>6, EmptySeq
<1>9. /\ \A k \in 1 .. Len(q) : f[k] = Contents(p, p.car[q[k]])
      /\ \A k \in 1 .. Len(t) : g[k] = Contents(p, p.car[t[k]])
  BY <1>1, <1>4, <1>5 DEF EventsOf
<1>10. Tail(f) \in Seq(R) /\ Len(Tail(f)) = Len(f) - 1
       /\ \A i \in 1 .. Len(Tail(f)) : Tail(f)[i] = f[i + 1]
  <2>1. f \in Seq(R) /\ f # << >>
    BY <1>6, <1>8
  <2>2. Tail(f) \in Seq(R) /\ Len(Tail(f)) = Len(f) - 1
    BY <2>1, HeadTailProperties
  <2>3. \A i \in 1 .. Len(Tail(f)) : Tail(f)[i] = f[i + 1]
    BY <2>1, HeadTailProperties
  <2> QED
    BY <2>2, <2>3
<1>11. PICK h : h = Tail(f)
  OBVIOUS
<1>12. Len(g) = Len(h) /\ \A i \in 1 .. Len(g) : g[i] = h[i]
  <2>1. \A i \in 1 .. Len(t) : i + 1 \in 1 .. Len(q)
    BY <1>1, <1>3
  <2> QED
    BY <1>1, <1>3, <1>6, <1>7, <1>9, <1>10, <1>11, <2>1
<1>13. g = h
  BY <1>7, <1>10, <1>11, <1>12, SeqEqual
<1>14. Head(f) = f[1]
  BY <1>6, <1>8 
<1>15. 1 \in 1 .. Len(q)
  BY <1>1
<1> QED
  BY <1>2, <1>5, <1>8, <1>9, <1>11, <1>13, <1>14, <1>15

(* Messages in cells that keep their contents stay what they are.          *)
LEMMA EventsStay ==
  ASSUME NEW q, NEW V, NEW X, Stays(V, X),
         \A k \in DOMAIN q : /\ q[k] \in V /\ pool.car[q[k]] \in V
                             /\ pool.car[q[k]] \notin X
  PROVE  EventsOf(pool', q) = EventsOf(pool, q)
<1>1. \A k \in DOMAIN q :
        Contents(pool', pool'.car[q[k]]) = Contents(pool, pool.car[q[k]])
  BY DEF Contents, Stays
<1> QED
  BY <1>1 DEF EventsOf

(* The same of delayed messages ...                                        *)
LEMMA TimersStay ==
  ASSUME NEW T, NEW V, NEW X, Stays(V, X),
         \A x \in T : /\ x \in V /\ pool.car[x] \in V /\ pool.cdr[pool.car[x]] \in V
                      /\ pool.car[x] \notin X /\ pool.cdr[pool.car[x]] \notin X
  PROVE  TimersOf(pool', T) = TimersOf(pool, T)
<1>1. ASSUME NEW x \in T
      PROVE  TimerOf(pool', x) = TimerOf(pool, x)
  <2>1. /\ pool'.car[x] = pool.car[x]
        /\ pool'.car[pool.car[x]] = pool.car[pool.car[x]]
        /\ pool'.cdr[pool.car[x]] = pool.cdr[pool.car[x]]
    BY DEF Stays
  <2>2. PICK d : d = pool.cdr[pool.car[x]]
    OBVIOUS
  <2>3. pool'.car[d] = pool.car[d] /\ pool'.cdr[d] = pool.cdr[d]
    BY <2>2 DEF Stays
  <2> QED
    BY <2>1, <2>2, <2>3 DEF TimerOf, Contents
<1> QED
  BY <1>1 DEF TimersOf

(* Where the cells of waiting messages and of the message in hand are.     *)
LEMMA MessageCells ==
  ASSUME RuntimeInv
  PROVE  /\ QueueNodes \in Seq(PoolCell) /\ DOMAIN QueueNodes = 1 .. Len(QueueNodes)
         /\ TimerNodes \in Seq(PoolCell)
         /\ \A k \in DOMAIN QueueNodes : QueueNodes[k] \in Elements(QueueNodes)
         /\ \A n \in Elements(QueueNodes) :
              /\ n \in InUse /\ pool.car[n] \in InUse
              /\ pool.car[n] \notin Elements(QueueNodes)
              /\ pool.car[n] \notin Elements(TimerNodes)
              /\ n \notin Elements(TimerNodes)
         /\ \A x \in Elements(TimerNodes) :
              /\ x \in InUse /\ pool.car[x] \in InUse /\ pool.cdr[pool.car[x]] \in InUse
              /\ pool.car[x] \notin Elements(QueueNodes)
              /\ pool.cdr[pool.car[x]] \notin Elements(QueueNodes)
              /\ pool.car[x] \notin Elements(TimerNodes)
              /\ pool.cdr[pool.car[x]] \notin Elements(TimerNodes)
         /\ q_entry # NIL => /\ q_entry \in InUse
                             /\ q_entry \notin Elements(QueueNodes)
                             /\ q_entry \notin Elements(TimerNodes)
<1>1. PICK q, t : q = QueueNodes /\ t = TimerNodes
  OBVIOUS
<1>2. PICK car, cdr : car = pool.car /\ cdr = pool.cdr
  OBVIOUS
<1>3. Uses(car, cdr, Elements(q), Elements(t), Current, InUse)
  BY <1>1, <1>2 DEF RuntimeInv, LaidOut, Laid
<1>4. WellLaid(pool, Current, q, t, InUse)
  BY <1>1, LaidFacts DEF RuntimeInv, LaidOut
<1>5. q \in Seq(PoolCell) /\ t \in Seq(PoolCell) /\ DOMAIN q = 1 .. Len(q)
      /\ \A k \in DOMAIN q : q[k] \in Elements(q)
  BY <1>4 DEF WellLaid
<1>6. \A n \in Elements(q) :
        /\ n \in InUse /\ car[n] \in InUse
        /\ car[n] \notin Elements(q) /\ car[n] \notin Elements(t) /\ n \notin Elements(t)
  BY <1>3 DEF Uses, Used, Apart
<1>7. \A x \in Elements(t) :
        /\ x \in InUse /\ car[x] \in InUse /\ cdr[car[x]] \in InUse
        /\ car[x] \notin Elements(q) /\ cdr[car[x]] \notin Elements(q)
        /\ car[x] \notin Elements(t) /\ cdr[car[x]] \notin Elements(t)
  BY <1>3 DEF Uses, Used, Apart
<1>8. q_entry # NIL => q_entry \in InUse /\ q_entry \notin Elements(q)
                       /\ q_entry \notin Elements(t)
  <2>1. q_entry # NIL => q_entry \in Current
    BY DEF Current
  <2> QED
    BY <1>3, <2>1 DEF Uses, Used, Apart
<1> QED
  BY <1>1, <1>2, <1>5, <1>6, <1>7, <1>8

(* The state of the pump that the cells represent.                         *)
PumpQueue == EventsOf(pool, QueueNodes)
PumpTimers == TimersOf(pool, Elements(TimerNodes))
PumpCurrent == IF q_entry = NIL THEN << >> ELSE <<Contents(pool, q_entry)>>

(* ... and of the message in hand.                                         *)
LEMMA CurrentStays ==
  ASSUME NEW V, NEW X, Stays(V, X), q_entry' = q_entry,
         q_entry # NIL => q_entry \in V /\ q_entry \notin X
  PROVE  PumpCurrent' = PumpCurrent
BY DEF PumpCurrent, Contents, Stays

(* A message is appended to the queue.                                     *)
LEMMA PumpSend ==
  ASSUME RuntimeInv, Send
  PROVE  /\ \E a \in Actor, m \in Message :
              PumpQueue' = Append(PumpQueue, [target |-> a, msg |-> m])
         /\ UNCHANGED <<PumpTimers, now, PumpCurrent>>
<1>1. PICK a \in Actor, m \in Message, n, e \in PoolCell :
        /\ QueueNodes' = Inserted(QueueNodes, Len(QueueNodes) + 1, n)
        /\ TimerNodes' = TimerNodes
        /\ pool'.car[n] = e /\ Holds(pool', e, a, m)
        /\ Stays(InUse, Elements(QueueNodes))
  BY SendEffect
<1>2. EventsOf(pool', QueueNodes) = EventsOf(pool, QueueNodes)
  BY <1>1, MessageCells, EventsStay
<1>3. EventsOf(pool', QueueNodes') = Append(EventsOf(pool', QueueNodes),
                                            [target |-> a, msg |-> m])
  <2>1. PICK p, q, r : p = pool' /\ q = QueueNodes /\ r = QueueNodes'
    OBVIOUS
  <2>2. /\ q \in Seq(PoolCell) /\ p.car[n] = e /\ Holds(p, e, a, m)
        /\ r = Inserted(q, Len(q) + 1, n)
    BY <1>1, <2>1, MessageCells
  <2>3. EventsOf(p, r) = Append(EventsOf(p, q), [target |-> a, msg |-> m])
    BY <2>2, EventAppended
  <2> QED
    BY <2>1, <2>3
<1>4. TimersOf(pool', Elements(TimerNodes)) = TimersOf(pool, Elements(TimerNodes))
  BY <1>1, MessageCells, TimersStay
<1>5. PumpTimers' = PumpTimers
  BY <1>1, <1>4 DEF PumpTimers, Elements
<1>6. q_entry' = q_entry /\ now' = now
  BY DEF Send, timing
<1>7. PumpCurrent' = PumpCurrent
  BY <1>1, <1>6, MessageCells, CurrentStays
<1> QED
  BY <1>2, <1>3, <1>5, <1>6, <1>7 DEF PumpQueue

(* A message is delayed under the name of its node, which is new.          *)
LEMMA PumpSendAfter ==
  ASSUME RuntimeInv, SendAfter
  PROVE  /\ \E a \in Actor, m \in Message, d \in Delay, i \in PoolCell :
              /\ i \notin Elements(TimerNodes)
              /\ PumpTimers' = PumpTimers \cup
                   {[id |-> i, due |-> Ticks(now) + d, event |-> [target |-> a, msg |-> m]]}
         /\ UNCHANGED <<PumpQueue, now, PumpCurrent>>
<1>1. PICK a \in Actor, m \in Message, d \in Delay, n, x, e \in PoolCell :
      \E at \in 1 .. Len(TimerNodes) + 1 :
        /\ QueueNodes' = QueueNodes
        /\ TimerNodes' = Inserted(TimerNodes, at, n) /\ n \notin InUse
        /\ pool'.car[n] = x /\ pool'.car[x] = tv_increment(now[1], now[2], d)
        /\ pool'.cdr[x] = e /\ Holds(pool', e, a, m)
        /\ Stays(InUse, Elements(TimerNodes))
  BY SendAfterEffect
<1>2. Elements(TimerNodes') = Elements(TimerNodes) \cup {n}
  BY <1>1, MessageCells, InsertedIsSeq
<1>3. TimersOf(pool', Elements(TimerNodes)) = TimersOf(pool, Elements(TimerNodes))
  BY <1>1, MessageCells, TimersStay
<1>4. TimerOf(pool', n) = [id |-> n, due |-> Ticks(now) + d,
                           event |-> [target |-> a, msg |-> m]]
  <2>1. Ticks(tv_increment(now[1], now[2], d)) = Ticks(now) + d
    <3>1. now[1] \in Nat /\ now[2] \in Nat /\ d \in Nat
      BY ConstantsAssumption DEF RuntimeInv, ConstantsAssumption
    <3>2. Ticks(tv_increment(now[1], now[2], d)) = Ticks(<<now[1], now[2]>>) + d
      BY <3>1, TickFacts
    <3> QED
      BY <3>2 DEF Ticks
  <2>2. Contents(pool', e) = [target |-> a, msg |-> m]
    BY <1>1 DEF Contents, Holds
  <2>3. /\ pool'.car[pool'.car[n]] = tv_increment(now[1], now[2], d)
        /\ pool'.cdr[pool'.car[n]] = e
    BY <1>1
  <2> QED
    BY <2>1, <2>2, <2>3 DEF TimerOf
<1>5. PumpTimers' = PumpTimers \cup {TimerOf(pool', n)}
  <2>1. TimersOf(pool', Elements(TimerNodes')) =
          TimersOf(pool', Elements(TimerNodes)) \cup {TimerOf(pool', n)}
    BY <1>2 DEF TimersOf
  <2>2. PumpTimers' = TimersOf(pool', Elements(TimerNodes'))
    BY DEF PumpTimers, Elements
  <2> QED
    BY <1>3, <2>1, <2>2 DEF PumpTimers
<1>6. EventsOf(pool', QueueNodes) = EventsOf(pool, QueueNodes)
  BY <1>1, MessageCells, EventsStay
<1>7. q_entry' = q_entry /\ now' = now
  BY DEF SendAfter
<1>8. PumpCurrent' = PumpCurrent
  BY <1>1, <1>7, MessageCells, CurrentStays
<1>9. n \notin Elements(TimerNodes)
  BY <1>1, MessageCells
<1> QED
  BY <1>1, <1>4, <1>5, <1>6, <1>7, <1>8, <1>9 DEF PumpQueue

(* The node that FireTimer takes is that of a message whose time has come. *)
LEMMA PumpFire ==
  ASSUME RuntimeInv, FireTimer
  PROVE  /\ \E x \in PumpTimers : /\ x.due <= Ticks(now)
                                  /\ PumpTimers' = PumpTimers \ {x}
                                  /\ PumpQueue' = Append(PumpQueue, x.event)
         /\ UNCHANGED <<now, PumpCurrent>>
<1> DEFINE Q == Elements(QueueNodes)
           T == Elements(TimerNodes)
<1>1. PICK n, e, x, d :
        /\ n \in PoolCell /\ e \in PoolCell
        /\ t_queue \in T /\ x = pool.car[t_queue] /\ d = pool.cdr[x]
        /\ QueueNodes' = Inserted(QueueNodes, Len(QueueNodes) + 1, n)
        /\ TimerNodes' = Tail(TimerNodes)
        /\ pool'.car[n] = e /\ Holds(pool', e, pool.car[d], pool.cdr[d])
        /\ Stays(((InUse \ {d}) \ {x}) \ {t_queue}, Q)
  BY FireTimerEffect
<1>2. PICK V : V = ((InUse \ {d}) \ {x}) \ {t_queue}
  OBVIOUS
<1>3. Uses(pool.car, pool.cdr, Q, T, Current, InUse)
  BY DEF RuntimeInv, LaidOut, Laid
<1>4. /\ \A k \in DOMAIN QueueNodes :
           /\ QueueNodes[k] \in V /\ pool.car[QueueNodes[k]] \in V
           /\ pool.car[QueueNodes[k]] \notin Q
      /\ \A y \in T \ {t_queue} :
           /\ y \in V /\ pool.car[y] \in V /\ pool.cdr[pool.car[y]] \in V
           /\ pool.car[y] \notin Q /\ pool.cdr[pool.car[y]] \notin Q
  <2>1. \A y \in Q : y \in V /\ pool.car[y] \in V /\ pool.car[y] \notin Q
    BY <1>1, <1>2, <1>3 DEF Uses, Used, Apart
  <2>2. \A y \in T \ {t_queue} :
           /\ y \in V /\ pool.car[y] \in V /\ pool.cdr[pool.car[y]] \in V
           /\ pool.car[y] \notin Q /\ pool.cdr[pool.car[y]] \notin Q
    BY <1>1, <1>2, <1>3 DEF Uses, Used, Apart
  <2>3. \A k \in DOMAIN QueueNodes : QueueNodes[k] \in Q
    BY MessageCells
  <2> QED
    BY <2>1, <2>2, <2>3
<1>5. EventsOf(pool', QueueNodes) = EventsOf(pool, QueueNodes)
  <2>1. PICK X : X = Q
    OBVIOUS
  <2>2. /\ Stays(V, X)
        /\ \A k \in DOMAIN QueueNodes : /\ QueueNodes[k] \in V
                                        /\ pool.car[QueueNodes[k]] \in V
                                        /\ pool.car[QueueNodes[k]] \notin X
    BY <1>1, <1>2, <1>4, <2>1
  <2> QED
    BY <2>2, EventsStay
<1>6. TimersOf(pool', T \ {t_queue}) = TimersOf(pool, T \ {t_queue})
  <2>1. PICK S : S = T \ {t_queue}
    OBVIOUS
  <2>2. TimersOf(pool', S) = TimersOf(pool, S)
    BY <1>1, <1>2, <1>4, <2>1, TimersStay
  <2> QED
    BY <2>1, <2>2
<1>7. PumpQueue' = Append(PumpQueue, Contents(pool, d))
  <2>1. PICK p, q, r, a, m : /\ p = pool' /\ q = QueueNodes /\ r = QueueNodes'
                             /\ a = pool.car[d] /\ m = pool.cdr[d]
    OBVIOUS
  <2>2. /\ q \in Seq(PoolCell) /\ p.car[n] = e /\ Holds(p, e, a, m)
        /\ r = Inserted(q, Len(q) + 1, n)
    BY <1>1, <2>1, MessageCells
  <2>3. EventsOf(p, r) = Append(EventsOf(p, q), [target |-> a, msg |-> m])
    BY <1>1, <2>2, EventAppended, SMTT(20)
  <2> QED
    BY <1>5, <2>1, <2>3 DEF PumpQueue, Contents
<1>8. PumpTimers' = TimersOf(pool, T \ {t_queue})
  <2>1. Elements(Tail(TimerNodes)) = T \ {t_queue}
    <3>1. PICK cdr : cdr = pool.cdr
      OBVIOUS
    <3>2. Linked(cdr, t_queue, TimerNodes) /\ t_queue # NIL
      BY <3>1 DEF RuntimeInv, LaidOut, Laid, FireTimer, NothingDue
    <3> QED
      BY <3>2, PopLinks
  <2>2. PumpTimers' = TimersOf(pool', Elements(TimerNodes'))
    BY DEF PumpTimers, Elements
  <2> QED
    BY <1>1, <1>6, <2>1, <2>2
<1>9. PICK f : f = TimerOf(pool, t_queue)
  OBVIOUS
<1>10. f.id = t_queue /\ f.due = Ticks(pool.car[x]) /\ f.event = Contents(pool, d)
  BY <1>1, <1>9 DEF TimerOf
<1>11. f \in PumpTimers /\ PumpTimers' = PumpTimers \ {f}
  <2>1. \A y \in T : TimerOf(pool, y) = f => y = t_queue
    <3>1. \A y \in T : TimerOf(pool, y).id = y
      BY DEF TimerOf
    <3> QED
      BY <1>10, <3>1
  <2>2. TimersOf(pool, T \ {t_queue}) = TimersOf(pool, T) \ {f}
    BY <1>9, <2>1 DEF TimersOf
  <2>3. f \in TimersOf(pool, T)
    BY <1>1, <1>9 DEF TimersOf
  <2> QED
    BY <1>8, <2>2, <2>3 DEF PumpTimers
<1>12. f.due <= Ticks(now)
  <2>1. ~Later(pool.car[x], now)
    BY <1>1 DEF FireTimer, NothingDue, TimeOf
  <2>2. pool.car[x] \in Time
    BY <1>1 DEF RuntimeInv, LaidOut, Laid
  <2>3. now \in Time
    BY ConstantsAssumption DEF RuntimeInv, Time, ConstantsAssumption
  <2>4. PICK u, v : u = pool.car[x] /\ v = now
    OBVIOUS
  <2>5. Ticks(u) <= Ticks(v)
    BY <2>1, <2>2, <2>3, <2>4, NotLater
  <2> QED
    BY <1>10, <2>4, <2>5
<1>13. q_entry' = q_entry /\ now' = now /\ q_entry = NIL
  BY DEF FireTimer, RuntimeInv
<1>14. PumpCurrent' = PumpCurrent
  BY <1>13 DEF PumpCurrent
<1> QED
  BY <1>7, <1>10, <1>11, <1>12, <1>13, <1>14

(* The oldest message is taken off the queue.                              *)
LEMMA PumpDeliver ==
  ASSUME RuntimeInv, Dispatch
  PROVE  /\ PumpCurrent = << >> /\ PumpQueue # << >>
         /\ PumpCurrent' = <<Head(PumpQueue)>>
         /\ PumpQueue' = Tail(PumpQueue)
         /\ UNCHANGED <<PumpTimers, now>>
<1> DEFINE Q == Elements(QueueNodes)
           T == Elements(TimerNodes)
           head == QueueNodes[1]
<1>1. /\ q_entry = NIL
      /\ QueueNodes # << >> /\ queue.head = head
      /\ q_entry' = pool.car[head] /\ q_entry' \in PoolCell
      /\ QueueNodes' = Tail(QueueNodes)
      /\ TimerNodes' = TimerNodes
      /\ Stays(InUse \ {head}, {})
  BY DispatchEffect
<1>2. QueueNodes \in Seq(PoolCell) /\ DOMAIN QueueNodes = 1 .. Len(QueueNodes)
  BY MessageCells
<1>3. head \in Q
  <2>1. 1 \in DOMAIN QueueNodes
    BY <1>1, <1>2, EmptySeq
  <2> QED
    BY <2>1, MessageCells
<1>4. Uses(pool.car, pool.cdr, Q, T, Current, InUse)
  BY DEF RuntimeInv, LaidOut, Laid
<1>5. Elements(Tail(QueueNodes)) = Q \ {head}
  <2>1. PICK cdr, c : cdr = pool.cdr /\ c = head
    OBVIOUS
  <2>2. Linked(cdr, c, QueueNodes) /\ c # NIL
    <3>1. queue.head # NIL /\ Linked(pool.cdr, queue.head, QueueNodes)
      BY DEF RuntimeInv, LaidOut, Laid, Dispatch
    <3> QED
      BY <1>1, <2>1, <3>1
  <2> QED
    BY <2>1, <2>2, PopLinks
<1>6. PICK V, X : V = InUse \ {head} /\ X = {}
  OBVIOUS
<1>7. /\ pool.car[head] \in V
      /\ \A y \in Q \ {head} : y \in V /\ pool.car[y] \in V
      /\ \A y \in T : y \in V /\ pool.car[y] \in V /\ pool.cdr[pool.car[y]] \in V
  BY <1>3, <1>4, <1>6 DEF Uses, Used, Apart
<1>8. Stays(V, X)
  BY <1>1, <1>6
<1>9. EventsOf(pool', QueueNodes') = EventsOf(pool, QueueNodes')
  <2>1. PICK q : q = QueueNodes'
    OBVIOUS
  <2>2. \A k \in DOMAIN q : q[k] \in Q \ {head}
    BY <1>1, <1>5, <2>1 DEF Elements
  <2>3. \A k \in DOMAIN q : q[k] \in V /\ pool.car[q[k]] \in V /\ pool.car[q[k]] \notin X
    BY <1>6, <1>7, <2>2
  <2>4. EventsOf(pool', q) = EventsOf(pool, q)
    BY <1>8, <2>3, EventsStay
  <2> QED
    BY <2>1, <2>4
<1>10. /\ PumpQueue # << >>
       /\ Head(PumpQueue) = Contents(pool, pool.car[head])
       /\ EventsOf(pool, Tail(QueueNodes)) = Tail(PumpQueue)
  BY <1>1, <1>2, EventTaken DEF PumpQueue
<1>11. PumpQueue' = Tail(PumpQueue)
  BY <1>1, <1>9, <1>10 DEF PumpQueue
<1>12. TimersOf(pool', T) = TimersOf(pool, T)
  <2>1. PICK S : S = T
    OBVIOUS
  <2>2. \A y \in S : /\ y \in V /\ pool.car[y] \in V /\ pool.cdr[pool.car[y]] \in V
                     /\ pool.car[y] \notin X /\ pool.cdr[pool.car[y]] \notin X
    BY <1>6, <1>7, <2>1
  <2>3. TimersOf(pool', S) = TimersOf(pool, S)
    BY <1>8, <2>2, TimersStay
  <2> QED
    BY <2>1, <2>3
<1>13. PumpTimers' = PumpTimers
  BY <1>1, <1>12 DEF PumpTimers, Elements
<1>14. Contents(pool', q_entry') = Contents(pool, pool.car[head])
  BY <1>1, <1>6, <1>7, <1>8 DEF Contents, Stays
<1>15. PumpCurrent' = <<Head(PumpQueue)>> /\ PumpCurrent = << >>
  <2>1. q_entry' # NIL
    BY <1>1, ConstantsAssumption DEF ConstantsAssumption
  <2> QED
    BY <1>1, <1>10, <1>14, <2>1 DEF PumpCurrent
<1>16. now' = now
  BY DEF Dispatch, timing
<1> QED
  BY <1>10, <1>11, <1>13, <1>15, <1>16

(* The message in hand has been handled.                                   *)
LEMMA PumpFinish ==
  ASSUME RuntimeInv, BehaviourReturns
  PROVE  /\ PumpCurrent # << >> /\ PumpCurrent' = << >>
         /\ UNCHANGED <<PumpQueue, PumpTimers, now>>
<1>1. /\ q_entry # NIL /\ q_entry' = NIL
      /\ QueueNodes' = QueueNodes /\ TimerNodes' = TimerNodes
      /\ Stays(InUse \ {q_entry}, {})
  BY ReturnEffect
<1>2. PICK q, T, V, X : /\ q = QueueNodes /\ T = Elements(TimerNodes)
                        /\ V = InUse \ {q_entry} /\ X = {}
  OBVIOUS
<1>3. Stays(V, X)
  BY <1>1, <1>2
<1>4. Uses(pool.car, pool.cdr, Elements(q), T, {q_entry}, InUse)
  BY <1>1, <1>2 DEF RuntimeInv, LaidOut, Laid, Current
<1>5. /\ \A n \in Elements(q) : n \in V /\ pool.car[n] \in V
      /\ \A y \in T : y \in V /\ pool.car[y] \in V /\ pool.cdr[pool.car[y]] \in V
  BY <1>2, <1>4 DEF Uses, Used, Apart
<1>6. EventsOf(pool', q) = EventsOf(pool, q)
  <2>1. \A k \in DOMAIN q : q[k] \in Elements(q)
    BY DEF Elements
  <2>2. \A k \in DOMAIN q : q[k] \in V /\ pool.car[q[k]] \in V /\ pool.car[q[k]] \notin X
    BY <1>2, <1>5, <2>1
  <2> QED
    BY <1>3, <2>2, EventsStay
<1>7. TimersOf(pool', T) = TimersOf(pool, T)
  <2>1. \A y \in T : /\ y \in V /\ pool.car[y] \in V /\ pool.cdr[pool.car[y]] \in V
                     /\ pool.car[y] \notin X /\ pool.cdr[pool.car[y]] \notin X
    BY <1>2, <1>5
  <2> QED
    BY <1>3, <2>1, TimersStay
<1>8. PumpQueue' = PumpQueue /\ PumpTimers' = PumpTimers
  BY <1>1, <1>2, <1>6, <1>7 DEF PumpQueue, PumpTimers, Elements
<1>9. PumpCurrent # << >> /\ PumpCurrent' = << >>
  BY <1>1 DEF PumpCurrent
<1>10. now' = now
  BY DEF BehaviourReturns, timing
<1> QED
  BY <1>8, <1>9, <1>10

-----------------------------------------------------------------------------
(***************************************************************************)
(* The refinement.                                                         *)
(***************************************************************************)

(* The messages that the cells hold are those that Pump is instantiated    *)
(* with, in every state and after every step.                              *)
PumpVars == <<PumpQueue, PumpTimers, Ticks(now), PumpCurrent>>

(* The abstract steps, in terms of these messages.                         *)
LEMMA PumpSteps ==
  /\ Pump!vars = PumpVars
  /\ Pump!Init <=> /\ PumpQueue = << >> /\ PumpTimers = {} /\ Ticks(now) \in Nat
                   /\ PumpCurrent = << >>
  /\ Pump!Send <=> /\ \E e \in Pump!Event : PumpQueue' = Append(PumpQueue, e)
                   /\ UNCHANGED <<PumpTimers, Ticks(now), PumpCurrent>>
  /\ Pump!SendAfter <=>
       /\ \E e \in Pump!Event, d \in Delay, i \in PoolCell \ {x.id : x \in PumpTimers} :
            PumpTimers' = PumpTimers \cup {[id |-> i, due |-> Ticks(now) + d, event |-> e]}
       /\ UNCHANGED <<PumpQueue, Ticks(now), PumpCurrent>>
  /\ Pump!SetClock <=> /\ Ticks(now)' \in Nat
                       /\ UNCHANGED <<PumpQueue, PumpTimers, PumpCurrent>>
  /\ Pump!Fire <=> /\ \E x \in PumpTimers : /\ x.due <= Ticks(now)
                                            /\ PumpTimers' = PumpTimers \ {x}
                                            /\ PumpQueue' = Append(PumpQueue, x.event)
                   /\ UNCHANGED <<Ticks(now), PumpCurrent>>
  /\ Pump!Deliver <=> /\ PumpCurrent = << >>
                      /\ PumpQueue # << >>
                      /\ PumpCurrent' = <<Head(PumpQueue)>>
                      /\ PumpQueue' = Tail(PumpQueue)
                      /\ UNCHANGED <<PumpTimers, Ticks(now)>>
  /\ Pump!Finish <=> /\ PumpCurrent # << >>
                     /\ PumpCurrent' = << >>
                     /\ UNCHANGED <<PumpQueue, PumpTimers, Ticks(now)>>
<1> USE DEF PumpQueue, PumpTimers, PumpCurrent, EventsOf, TimersOf, TimerOf, Contents,
            EventAt, TimeOf
<1>1. Pump!vars = PumpVars
  BY DEF Pump!vars, PumpVars
<1>2. Pump!Init <=> /\ PumpQueue = << >> /\ PumpTimers = {} /\ Ticks(now) \in Nat
                   /\ PumpCurrent = << >>
  BY DEF Pump!Init
<1>3. Pump!Send <=> /\ \E e \in Pump!Event : PumpQueue' = Append(PumpQueue, e)
                   /\ UNCHANGED <<PumpTimers, Ticks(now), PumpCurrent>>
  BY DEF Pump!Send
<1>4. Pump!SendAfter <=>
       /\ \E e \in Pump!Event, d \in Delay, i \in PoolCell \ {x.id : x \in PumpTimers} :
            PumpTimers' = PumpTimers \cup {[id |-> i, due |-> Ticks(now) + d, event |-> e]}
       /\ UNCHANGED <<PumpQueue, Ticks(now), PumpCurrent>>
  BY DEF Pump!SendAfter
<1>5. Pump!SetClock <=> /\ Ticks(now)' \in Nat
                       /\ UNCHANGED <<PumpQueue, PumpTimers, PumpCurrent>>
  BY DEF Pump!SetClock
<1>6. Pump!Fire <=> /\ \E x \in PumpTimers : /\ x.due <= Ticks(now)
                                            /\ PumpTimers' = PumpTimers \ {x}
                                            /\ PumpQueue' = Append(PumpQueue, x.event)
                   /\ UNCHANGED <<Ticks(now), PumpCurrent>>
  BY DEF Pump!Fire
<1>7. Pump!Deliver <=> /\ PumpCurrent = << >>
                      /\ PumpQueue # << >>
                      /\ PumpCurrent' = <<Head(PumpQueue)>>
                      /\ PumpQueue' = Tail(PumpQueue)
                      /\ UNCHANGED <<PumpTimers, Ticks(now)>>
  BY DEF Pump!Deliver
<1>8. Pump!Finish <=> /\ PumpCurrent # << >>
                     /\ PumpCurrent' = << >>
                     /\ UNCHANGED <<PumpQueue, PumpTimers, Ticks(now)>>
  BY DEF Pump!Finish
<1> QED
  BY <1>1, <1>2, <1>3, <1>4, <1>5, <1>6, <1>7, <1>8
(* now counts ticks.                                                       *)
LEMMA ClockTicks ==
  ASSUME NEW t \in (0 .. MaxSecond) \X (0 .. TICK_FREQ - 1)
  PROVE  Ticks(t) \in Nat
<1>1. t[1] \in Nat /\ t[2] \in Nat /\ TICK_FREQ \in Nat /\ MaxSecond \in Nat
  BY ConstantsAssumption DEF ConstantsAssumption
<1>2. \A a, b \in Nat : a * b \in Nat
  OBVIOUS
<1>3. t[1] * TICK_FREQ \in Nat
  BY <1>1, <1>2
<1> QED
  BY <1>1, <1>3 DEF Ticks

(* The cells represent no message at first.                                *)
LEMMA PumpStarts == Init => Pump!Init
<1> SUFFICES ASSUME Init
             PROVE  Pump!Init
  OBVIOUS
<1>1. RuntimeInv /\ q_count = 0 /\ t_count = 0 /\ q_entry = NIL
  BY RuntimeStarts DEF Init
<1>2. QueueNodes = << >> /\ TimerNodes = << >>
  BY <1>1, MessageCells, EmptySeq DEF RuntimeInv
<1>3. PumpQueue = << >>
  BY <1>2 DEF PumpQueue, EventsOf
<1>4. PumpTimers = {} /\ PumpCurrent = << >>
  BY <1>1, <1>2 DEF PumpTimers, TimersOf, Elements, PumpCurrent
<1>5. Ticks(now) \in Nat
  BY <1>1, ClockTicks DEF RuntimeInv
<1> QED
  BY <1>3, <1>4, <1>5, PumpSteps

(* Every step is a step of the pump, or the pump does not notice it.       *)
LEMMA PumpStep ==
  ASSUME RuntimeInv, [Next]_vars
  PROVE  [Pump!Next]_(Pump!vars)
<1>1. \A a \in Actor, m \in Message : [target |-> a, msg |-> m] \in Pump!Event
  BY DEF Pump!Event
<1>2. CASE Send
  <2>1. UNCHANGED Ticks(now)
    BY <1>2, PumpSend
  <2> QED
    BY <1>1, <1>2, <2>1, PumpSend, PumpSteps DEF Pump!Next
<1>3. CASE SendAfter
  <2>1. UNCHANGED Ticks(now)
    BY <1>3, PumpSendAfter
  <2>2. {x.id : x \in PumpTimers} = Elements(TimerNodes)
    <3>1. \A x : TimerOf(pool, x).id = x
      BY DEF TimerOf
    <3>2. PumpTimers = {TimerOf(pool, x) : x \in Elements(TimerNodes)}
      BY DEF PumpTimers, TimersOf
    <3>3. \A y : y \in PumpTimers <=> \E x \in Elements(TimerNodes) : y = TimerOf(pool, x)
      BY <3>2
    <3> QED
      BY <3>1, <3>3
  <2>3. PICK a \in Actor, m \in Message, d \in Delay, i \in PoolCell :
          /\ i \notin Elements(TimerNodes)
          /\ PumpTimers' = PumpTimers \cup
               {[id |-> i, due |-> Ticks(now) + d, event |-> [target |-> a, msg |-> m]]}
    BY <1>3, PumpSendAfter
  <2>4. i \in PoolCell \ {x.id : x \in PumpTimers}
    BY <2>2, <2>3
  <2>5. PICK e \in Pump!Event : e = [target |-> a, msg |-> m]
    BY <1>1
  <2>6. PumpTimers' = PumpTimers \cup {[id |-> i, due |-> Ticks(now) + d, event |-> e]}
    BY <2>3, <2>5
  <2>7. UNCHANGED <<PumpQueue, Ticks(now), PumpCurrent>>
    BY <1>3, <2>1, PumpSendAfter
  <2>8. Pump!SendAfter
    BY <2>4, <2>6, <2>7, PumpSteps
  <2> QED
    BY <2>8 DEF Pump!Next
<1>4. CASE FireTimer
  <2>1. UNCHANGED Ticks(now)
    BY <1>4, PumpFire
  <2> QED
    BY <1>4, <2>1, PumpFire, PumpSteps DEF Pump!Next
<1>5. CASE Dispatch
  <2>1. UNCHANGED Ticks(now)
    BY <1>5, PumpDeliver
  <2> QED
    BY <1>5, <2>1, PumpDeliver, PumpSteps DEF Pump!Next
<1>6. CASE BehaviourReturns
  <2>1. UNCHANGED Ticks(now)
    BY <1>6, PumpFinish
  <2> QED
    BY <1>6, <2>1, PumpFinish, PumpSteps DEF Pump!Next
<1>7. CASE Quiet
  <2>1. PumpQueue' = PumpQueue /\ PumpTimers' = PumpTimers /\ PumpCurrent' = PumpCurrent
    <3>1. pool' = pool /\ QueueNodes' = QueueNodes /\ TimerNodes' = TimerNodes
          /\ q_entry' = q_entry
      BY <1>7, QuietEffect
    <3> QED
      BY <3>1 DEF PumpQueue, PumpTimers, PumpCurrent, EventsOf, TimersOf, TimerOf, Contents,
                  Elements
  <2>2. Ticks(now)' \in Nat
    BY <1>7, QuietEffect, ClockTicks
  <2> QED
    BY <2>1, <2>2, PumpSteps DEF Pump!Next
<1> QED
  BY <1>2, <1>3, <1>4, <1>5, <1>6, <1>7, Steps

(* Whatever the number of messages and of cells, cells linked into queues  *)
(* deliver every message once, in order and never early.                   *)
THEOREM PumpIsImplemented == Spec => ImplementsPump
<1>1. Init => Pump!Init
  BY PumpStarts
<1>2. RuntimeInv /\ [Next]_vars => [Pump!Next]_(Pump!vars)
  BY PumpStep
<1> QED
  BY <1>1, <1>2, RuntimeInvariant, PTL DEF Spec, Pump!Spec, ImplementsPump

-----------------------------------------------------------------------------
(***************************************************************************)
(* The counter of handled messages.                                        *)
(***************************************************************************)

CountInv ==
  /\ delivered \in Nat
  /\ msg_cnt \in Nat \X (0 .. INT_MAX)
  /\ MessageCountExact

(* Counting a message carries from the low half to the high half.          *)
LEMMA CountStep ==
  ASSUME CountInv
  PROVE  /\ CountMessage \in Nat \X (0 .. INT_MAX)
         /\ CountMessage[1] * (INT_MAX + 1) + CountMessage[2] = delivered + 1
<1> DEFINE hi == msg_cnt[1]
           lo == msg_cnt[2]
           M == INT_MAX + 1
<1>1. /\ msg_cnt \in Nat \X (0 .. INT_MAX)
      /\ delivered = hi * M + lo
      /\ hi \in Nat /\ lo \in 0 .. INT_MAX /\ INT_MAX \in Nat
  BY ConstantsAssumption DEF CountInv, MessageCountExact, ConstantsAssumption
<1>2. CASE lo + 1 > INT_MAX
  <2>1. CountMessage = <<hi + 1, 0>>
    BY <1>2 DEF CountMessage
  <2>2. lo + 1 = M
    BY <1>1, <1>2
  <2>3. (hi + 1) * M + 0 = hi * M + M
    BY <1>1
  <2> QED
    BY <1>1, <2>1, <2>2, <2>3
<1>3. CASE ~(lo + 1 > INT_MAX)
  <2>1. CountMessage = <<hi, lo + 1>>
    BY <1>3 DEF CountMessage
  <2>2. lo + 1 \in 0 .. INT_MAX
    BY <1>1, <1>3
  <2> HIDE DEF hi, lo, M
  <2>3. hi * M + (lo + 1) = (hi * M + lo) + 1
    BY <1>1, ConstantsAssumption DEF M, ConstantsAssumption
  <2> QED
    BY <1>1, <2>1, <2>2, <2>3 DEF M
<1> QED
  BY <1>2, <1>3

(* The split counter of handled messages equals their number, however many *)
(* messages a configuration handles: none is lost when the low half wraps. *)
THEOREM MessageCountIsExact == Spec => []MessageCountExact
<1>1. Init => CountInv
  BY ConstantsAssumption DEF Init, CountInv, MessageCountExact, ConstantsAssumption
<1>2. ASSUME CountInv, [Next]_vars
      PROVE  CountInv'
  <2>1. CASE BehaviourReturns
    <3>1. msg_cnt' = CountMessage /\ delivered' = delivered + 1
      BY <2>1 DEF BehaviourReturns
    <3> QED
      BY <1>2, <3>1, CountStep DEF CountInv, MessageCountExact
  <2>2. CASE ~BehaviourReturns
    <3>1. UNCHANGED <<msg_cnt, delivered>>
      BY <1>2, <2>2 DEF Next, Run, Send, SendAfter, RunConfiguration, BudgetSpent,
         NoClockCheck, ReadClock, FireTimer, TickDone, QueueEmpty, Dispatch, vars
    <3> QED
      BY <1>2, <3>1 DEF CountInv, MessageCountExact
  <2> QED
    BY <2>1, <2>2
<1>3. CountInv => MessageCountExact
  BY DEF CountInv
<1> QED
  BY <1>1, <1>2, <1>3, PTL DEF Spec

=============================================================================
