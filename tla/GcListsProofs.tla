---------------------------- MODULE GcListsProofs ----------------------------
(***************************************************************************)
(* Proofs about the pointer operations of module GcLists, for any number   *)
(* of lists and cells: the links stay inverse of each other, and what they *)
(* thread are sequences of cells, without common cells, that the           *)
(* operations change as those of module Deques say.                        *)
(***************************************************************************)
EXTENDS GcLists, Inductions, SequenceTheorems, TLAPS

LinksOK == TypeOK /\ LinksInverse

(* In consistent links a node has neighbours other than itself on both     *)
(* sides or on neither, and no two nodes have the same neighbour.          *)
LEMMA Neighbours ==
  ASSUME LinksOK, NEW n \in Node
  PROVE  /\ next[n] \in Node /\ prev[n] \in Node
         /\ prev[next[n]] = n /\ next[prev[n]] = n
         /\ next[n] = n <=> prev[n] = n
  BY DEF LinksOK, TypeOK, LinksInverse

(* No assignment of an operation reads a link that an earlier one changed: *)
(* the links are those that it would make of the old ones all at once.     *)
LEMMA InsertAfterWrites ==
  ASSUME TypeOK, NEW p \in Node, NEW item \in Node, p # item, gc_insert_after(p, item)
  PROVE  /\ prev' = [prev EXCEPT ![item] = p, ![next[p]] = item]
         /\ next' = [next EXCEPT ![item] = next[p], ![p] = item]
BY DEF TypeOK, gc_insert_after

LEMMA InsertBeforeWrites ==
  ASSUME TypeOK, NEW p \in Node, NEW item \in Node, p # item, gc_insert_before(p, item)
  PROVE  /\ next' = [next EXCEPT ![item] = p, ![prev[p]] = item]
         /\ prev' = [prev EXCEPT ![item] = prev[p], ![p] = item]
BY DEF TypeOK, gc_insert_before

LEMMA ExtractWrites ==
  ASSUME TypeOK, NEW item \in Node, gc_extract(item)
  PROVE  /\ next' = [next EXCEPT ![prev[item]] = next[item], ![item] = item]
         /\ prev' = [prev EXCEPT ![next[item]] = prev[item], ![item] = item]
BY DEF TypeOK, gc_extract

LEMMA AppendWrites ==
  ASSUME LinksOK, NEW to \in List, NEW from \in List, to # from, gc_append_list(to, from)
  PROVE  /\ next' = [next EXCEPT ![prev[from]] = to, ![prev[to]] = next[from], ![from] = from]
         /\ prev' = [prev EXCEPT ![next[from]] = prev[to], ![to] = prev[from], ![from] = from]
         /\ next[from] # from /\ to \in Node /\ from \in Node
<1>1. next[from] # from /\ to \in Node /\ from \in Node
  BY DEF gc_append_list, Node
<1>2. prev[from] # from /\ prev[next[from]] = from /\ prev[next[to]] = to
      /\ next[prev[to]] = to /\ next[prev[from]] = from
  BY <1>1, Neighbours
<1>3. next \in [Node -> Node] /\ prev \in [Node -> Node]
  BY DEF LinksOK, TypeOK
<1> DEFINE next1 == [next EXCEPT ![prev[from]] = to]
           prev1 == [prev EXCEPT ![next1[from]] = prev[to]]
           next2 == [next1 EXCEPT ![prev1[to]] = next1[from]]
           prev2 == [prev1 EXCEPT ![to] = prev1[from]]
<1>4. next' = [next2 EXCEPT ![from] = from] /\ prev' = [prev2 EXCEPT ![from] = from]
  BY DEF gc_append_list
<1>5. next1[from] = next[from]
  BY <1>1, <1>2, <1>3
<1>6. prev1[to] = prev[to] /\ prev1[from] = prev[from]
  BY <1>1, <1>2, <1>3, <1>5
<1> QED
  BY <1>1, <1>3, <1>4, <1>5, <1>6

(* Insertion of a detached cell, on either side of a node.                 *)
LEMMA InsertAfter ==
  ASSUME LinksOK, NEW p \in Node, NEW item \in Node, p # item,
         Detached(item), gc_insert_after(p, item)
  PROVE  /\ next' \in [Node -> Node] /\ prev' \in [Node -> Node]
         /\ LinksInverse'
<1>1. /\ next \in [Node -> Node] /\ prev \in [Node -> Node]
      /\ \A n \in Node : prev[next[n]] = n /\ next[prev[n]] = n
  BY DEF LinksOK, TypeOK, LinksInverse
<1>2. /\ prev' = [prev EXCEPT ![item] = p, ![next[p]] = item]
      /\ next' = [next EXCEPT ![item] = next[p], ![p] = item]
      /\ next[item] = item /\ prev[item] = item
  BY InsertAfterWrites DEF LinksOK, Detached
<1>3. next' \in [Node -> Node] /\ prev' \in [Node -> Node]
  BY <1>1, <1>2
<1>4. ASSUME NEW n \in Node
      PROVE  prev'[next'[n]] = n /\ next'[prev'[n]] = n
  BY <1>1, <1>2
<1> QED
  BY <1>3, <1>4 DEF LinksInverse

LEMMA InsertBefore ==
  ASSUME LinksOK, NEW p \in Node, NEW item \in Node, p # item,
         Detached(item), gc_insert_before(p, item)
  PROVE  /\ next' \in [Node -> Node] /\ prev' \in [Node -> Node]
         /\ LinksInverse'
<1>1. /\ next \in [Node -> Node] /\ prev \in [Node -> Node]
      /\ \A n \in Node : prev[next[n]] = n /\ next[prev[n]] = n
  BY DEF LinksOK, TypeOK, LinksInverse
<1>2. /\ next' = [next EXCEPT ![item] = p, ![prev[p]] = item]
      /\ prev' = [prev EXCEPT ![item] = prev[p], ![p] = item]
      /\ next[item] = item /\ prev[item] = item
  BY InsertBeforeWrites DEF LinksOK, Detached
<1>3. next' \in [Node -> Node] /\ prev' \in [Node -> Node]
  BY <1>1, <1>2
<1>4. ASSUME NEW n \in Node
      PROVE  prev'[next'[n]] = n /\ next'[prev'[n]] = n
  BY <1>1, <1>2
<1> QED
  BY <1>3, <1>4 DEF LinksInverse

(* Extraction of any node, attached or not.                                *)
LEMMA Extract ==
  ASSUME LinksOK, NEW item \in Node, gc_extract(item)
  PROVE  /\ next' \in [Node -> Node] /\ prev' \in [Node -> Node]
         /\ LinksInverse'
<1>1. /\ next \in [Node -> Node] /\ prev \in [Node -> Node]
      /\ \A n \in Node : prev[next[n]] = n /\ next[prev[n]] = n
  BY DEF LinksOK, TypeOK, LinksInverse
<1>2. /\ next' = [next EXCEPT ![prev[item]] = next[item], ![item] = item]
      /\ prev' = [prev EXCEPT ![next[item]] = prev[item], ![item] = item]
  BY ExtractWrites DEF LinksOK
<1>3. next' \in [Node -> Node] /\ prev' \in [Node -> Node]
  BY <1>1, <1>2
<1>4. ASSUME NEW n \in Node
      PROVE  prev'[next'[n]] = n /\ next'[prev'[n]] = n
  BY <1>1, <1>2
<1> QED
  BY <1>3, <1>4 DEF LinksInverse

(* Two circles become one that goes through the second head no more.       *)
LEMMA AppendList ==
  ASSUME LinksOK, NEW to \in List, NEW from \in List, to # from,
         gc_append_list(to, from)
  PROVE  /\ next' \in [Node -> Node] /\ prev' \in [Node -> Node]
         /\ LinksInverse'
<1>1. /\ next \in [Node -> Node] /\ prev \in [Node -> Node]
      /\ \A n \in Node : prev[next[n]] = n /\ next[prev[n]] = n
  BY DEF LinksOK, TypeOK, LinksInverse
<1>2. /\ next' = [next EXCEPT ![prev[from]] = to, ![prev[to]] = next[from],
                              ![from] = from]
      /\ prev' = [prev EXCEPT ![next[from]] = prev[to], ![to] = prev[from],
                              ![from] = from]
      /\ next[from] # from /\ to \in Node /\ from \in Node
  BY AppendWrites
<1>3. next' \in [Node -> Node] /\ prev' \in [Node -> Node]
  BY <1>1, <1>2
<1>4. ASSUME NEW n \in Node
      PROVE  prev'[next'[n]] = n /\ next'[prev'[n]] = n
  BY <1>1, <1>2
<1> QED
  BY <1>3, <1>4 DEF LinksInverse

LEMMA LinksStep ==
  ASSUME LinksOK, [Next]_vars
  PROVE  LinksOK'
<1> USE DEF LinksOK
<1>1. ASSUME NEW l \in List, gc_pop(l) \/ gc_pull(l)
      PROVE  LinksOK'
  <2>1. next[l] \in Node /\ prev[l] \in Node
    BY Neighbours DEF Node
  <2>2. size' \in [List -> Int]
    BY <1>1 DEF gc_pop, gc_pull, TypeOK
  <2> QED
    BY <1>1, <2>1, <2>2, Extract DEF gc_pop, gc_pull, TypeOK
<1>2. ASSUME NEW l \in List, NEW i \in Item, gc_push(l, i) \/ gc_put(l, i) \/ TakeFrom(l, i)
      PROVE  LinksOK'
  <2>1. l \in Node /\ i \in Node /\ l # i
    BY ListItemAssumption DEF Node
  <2>2. size' \in [List -> Int]
    BY <1>2 DEF gc_push, gc_put, TakeFrom, TypeOK
  <2> QED
    BY <1>2, <2>1, <2>2, InsertAfter, InsertBefore, Extract
       DEF gc_push, gc_put, TakeFrom, TypeOK
<1>3. ASSUME NEW to \in List, NEW from \in List, to # from, gc_append_list(to, from)
      PROVE  LinksOK'
  <2>1. size' \in [List -> Int]
    BY <1>3 DEF gc_append_list, TypeOK
  <2> QED
    BY <1>3, <2>1, AppendList DEF TypeOK
<1>4. CASE UNCHANGED vars
  BY <1>4 DEF vars, TypeOK, LinksInverse
<1> QED
  BY <1>1, <1>2, <1>3, <1>4 DEF Next

(* GC_PREV(GC_NEXT(p)) == p and GC_NEXT(GC_PREV(p)) == p at every list     *)
(* head and every cell, whatever lists are pushed, popped, searched and    *)
(* appended: the assertion that gc_sanity_check makes at every node.       *)
THEOREM LinksStayInverse == Spec => []LinksInverse
<1>1. Init => LinksOK
  BY DEF Init, gc_initialize, LinksOK, TypeOK, LinksInverse
<1>2. LinksOK /\ [Next]_vars => LinksOK'
  BY LinksStep
<1>3. LinksOK => LinksInverse
  BY DEF LinksOK
<1> QED
  BY <1>1, <1>2, <1>3, PTL DEF Spec

-----------------------------------------------------------------------------
(***************************************************************************)
(* Rings of links.                                                         *)
(***************************************************************************)

(* The k-th node of the ring that has the head l and the cells s.          *)
At(l, s, k) == IF k \in 1 .. Len(s) THEN s[k] ELSE l

(* The links f lead from each node of this ring to the next one.           *)
Ring(f, l, s) ==
  /\ s \in Seq(Item)
  /\ \A k \in 0 .. Len(s) : f[At(l, s, k)] = At(l, s, k + 1)

(* No cell is on two lists, or twice on one.                               *)
Apart(q) ==
  \A l, m \in List : \A j \in 1 .. Len(q[l]), k \in 1 .. Len(q[m]) :
    q[l][j] = q[m][k] => l = m /\ j = k

(* The lists have the contents q.                                          *)
Threaded(f, q) ==
  /\ q = [l \in List |-> q[l]]
  /\ \A l \in List : Ring(f, l, q[l])
  /\ Apart(q)

(* What a ring of cells is.                                                *)
LEMMA RingFacts ==
  ASSUME NEW f, NEW l, NEW s, Ring(f, l, s)
  PROVE  /\ s \in Seq(Item) /\ Len(s) \in Nat /\ DOMAIN s = 1 .. Len(s)
         /\ \A k \in 1 .. Len(s) : s[k] \in Item
         /\ At(l, s, 0) = l /\ At(l, s, Len(s) + 1) = l
         /\ \A k \in 1 .. Len(s) : At(l, s, k) = s[k]
         /\ \A k \in 0 .. Len(s) : f[At(l, s, k)] = At(l, s, k + 1)
<1>1. s \in Seq(Item) /\ Len(s) \in Nat /\ DOMAIN s = 1 .. Len(s)
  BY LenProperties DEF Ring
<1>2. \A k \in 1 .. Len(s) : s[k] \in Item
  BY <1>1, ElementOfSeq
<1>3. At(l, s, 0) = l /\ At(l, s, Len(s) + 1) = l
  BY <1>1 DEF At
<1> QED
  BY <1>1, <1>2, <1>3 DEF Ring, At

(* The nodes of the rings are different from one another.                  *)
LEMMA NodesApart ==
  ASSUME NEW f, NEW q, Threaded(f, q),
         NEW l \in List, NEW m \in List,
         NEW j \in 0 .. Len(q[l]), NEW k \in 0 .. Len(q[m]),
         At(l, q[l], j) = At(m, q[m], k)
  PROVE  l = m /\ j = k
<1>1. /\ Len(q[l]) \in Nat /\ Len(q[m]) \in Nat
      /\ \A i \in 1 .. Len(q[l]) : q[l][i] \in Item
      /\ \A i \in 1 .. Len(q[m]) : q[m][i] \in Item
  BY RingFacts DEF Threaded
<1>2. l \notin Item /\ m \notin Item
  BY ListItemAssumption
<1>3. CASE j # 0 /\ k # 0
  <2>1. j \in 1 .. Len(q[l]) /\ k \in 1 .. Len(q[m])
    BY <1>1, <1>3
  <2>2. q[l][j] = q[m][k]
    BY <2>1 DEF At
  <2> QED
    BY <2>1, <2>2 DEF Threaded, Apart
<1>4. CASE j = 0 /\ k = 0
  BY <1>4 DEF At
<1>5. CASE j # 0 /\ k = 0
  <2>1. j \in 1 .. Len(q[l])
    BY <1>1, <1>5
  <2>2. At(l, q[l], j) \in Item /\ At(m, q[m], k) = m
    BY <1>1, <1>5, <2>1 DEF At
  <2> QED
    BY <1>2, <2>2
<1>6. CASE j = 0 /\ k # 0
  <2>1. k \in 1 .. Len(q[m])
    BY <1>1, <1>6
  <2>2. At(m, q[m], k) \in Item /\ At(l, q[l], j) = l
    BY <1>1, <1>6, <2>1 DEF At
  <2> QED
    BY <1>2, <2>2
<1> QED
  BY <1>3, <1>4, <1>5, <1>6

(* They are nodes.                                                         *)
LEMMA RingNodes ==
  ASSUME NEW f, NEW l \in List, NEW s, Ring(f, l, s), NEW k
  PROVE  At(l, s, k) \in Node
<1>1. \A i \in 1 .. Len(s) : s[i] \in Item
  BY RingFacts
<1> QED
  BY <1>1 DEF At, Node

(* A walk that starts at the head of a ring goes round it ...              *)
LEMMA OrbitOfRing ==
  ASSUME NEW f, NEW l, NEW s, Ring(f, l, s)
  PROVE  \A k \in 0 .. Len(s) + 1 : Orbit(f, l)[k] = At(l, s, k)
<1> DEFINE S == {k \in Nat : k <= Len(s) + 1 => Orbit(f, l)[k] = At(l, s, k)}
<1>1. /\ Len(s) \in Nat /\ At(l, s, 0) = l
      /\ \A k \in 0 .. Len(s) : f[At(l, s, k)] = At(l, s, k + 1)
  BY RingFacts
<1>2. Orbit(f, l)[0] = l /\ \A k \in Nat : Orbit(f, l)[k + 1] = f[Orbit(f, l)[k]]
  BY OrbitDef
<1>3. 0 \in S
  BY <1>1, <1>2
<1>4. ASSUME NEW k \in Nat, k \in S
      PROVE  k + 1 \in S
  <2> SUFFICES ASSUME k + 1 <= Len(s) + 1
               PROVE  Orbit(f, l)[k + 1] = At(l, s, k + 1)
    OBVIOUS
  <2>1. k \in 0 .. Len(s) /\ Orbit(f, l)[k] = At(l, s, k)
    BY <1>1, <1>4
  <2> QED
    BY <1>1, <1>2, <2>1
<1> HIDE DEF S
<1>5. \A k \in Nat : k \in S
  BY <1>3, <1>4, NatSetInduction
<1> QED
  BY <1>1, <1>5 DEF S

(* The length of the round that the links f make from l.                   *)
Round(f, l, n) == /\ Orbit(f, l)[n + 1] = l
                  /\ \A k \in 1 .. n : Orbit(f, l)[k] # l

Count(f, l) == CHOOSE n \in 0 .. Cardinality(Item) : Round(f, l, n)

(* ... and counts its cells.                                               *)
LEMMA CountOfRing ==
  ASSUME NEW f, NEW l \in List, NEW s, Ring(f, l, s),
         \A j, k \in 1 .. Len(s) : s[j] = s[k] => j = k
  PROVE  /\ Count(f, l) = Len(s)
         /\ Len(s) \in 0 .. Cardinality(Item) /\ Orbit(f, l)[Len(s) + 1] = l
         /\ s = [k \in 1 .. Count(f, l) |-> Orbit(f, l)[k]]
<1>1. /\ s \in Seq(Item) /\ Len(s) \in Nat /\ DOMAIN s = 1 .. Len(s)
      /\ \A k \in 1 .. Len(s) : s[k] \in Item
      /\ At(l, s, Len(s) + 1) = l
      /\ \A k \in 1 .. Len(s) : At(l, s, k) = s[k]
  BY RingFacts
<1>2. \A k \in 0 .. Len(s) + 1 : Orbit(f, l)[k] = At(l, s, k)
  BY OrbitOfRing
<1>3. PICK n \in Nat : n = Len(s)
  BY <1>1
<1>4. n \in 0 .. Cardinality(Item)
  <2>1. s \in Injection(1 .. n, Item)
    BY <1>1, <1>3, LenProperties DEF Injection, IsInjective
  <2>2. IsFiniteSet(1 .. n) /\ Cardinality(1 .. n) = n
    <3>1. Cardinality(1 .. n) = IF 1 > n THEN 0 ELSE n - 1 + 1
      BY FS_Interval
    <3> QED
      BY <3>1, FS_Interval
  <2>3. n <= Cardinality(Item)
    BY <2>1, <2>2, ListItemAssumption, FS_Injection
  <2>4. Cardinality(Item) \in Nat
    BY ListItemAssumption, FS_CardinalityType
  <2> QED
    BY <2>3, <2>4
<1>5. l \notin Item
  BY ListItemAssumption
<1>6. \A k \in 1 .. n : Orbit(f, l)[k] = s[k] /\ Orbit(f, l)[k] # l
  BY <1>1, <1>2, <1>3, <1>5
<1>7. Orbit(f, l)[n + 1] = l
  BY <1>1, <1>2, <1>3
<1>8. Round(f, l, n)
  BY <1>6, <1>7 DEF Round
<1>9. ASSUME NEW m \in 0 .. Cardinality(Item), Round(f, l, m)
      PROVE  m = n
  <2>1. ~(m < n)
    <3>1. m < n => m + 1 \in 1 .. n
      OBVIOUS
    <3> QED
      BY <1>6, <1>9, <3>1 DEF Round
  <2>2. ~(n < m)
    <3>1. n < m => n + 1 \in 1 .. m
      OBVIOUS
    <3> QED
      BY <1>7, <1>9, <3>1 DEF Round
  <2> QED
    BY <2>1, <2>2
<1>10. Count(f, l) = n
  BY <1>4, <1>8, <1>9 DEF Count
<1>11. s = [k \in 1 .. n |-> Orbit(f, l)[k]]
  <2>1. s = [k \in 1 .. n |-> s[k]]
    BY <1>1, <1>3, LenProperties
  <2> QED
    BY <1>6, <2>1
<1> QED
  BY <1>3, <1>4, <1>7, <1>10, <1>11

-----------------------------------------------------------------------------
(***************************************************************************)
(* Surgery on rings.                                                       *)
(***************************************************************************)

(* The sequence s with i as its at-th element, without its at-th element.  *)
Inserted(s, at, i) ==
  [k \in 1 .. Len(s) + 1 |-> IF k < at THEN s[k] ELSE IF k = at THEN i ELSE s[k - 1]]

Removed(s, at) == [k \in 1 .. Len(s) - 1 |-> IF k < at THEN s[k] ELSE s[k + 1]]

(* r is s with i as its at-th element.                                     *)
Extends(r, s, at, i) ==
  /\ r \in Seq(Item) /\ Len(r) = Len(s) + 1
  /\ \A k \in 1 .. Len(s) + 1 :
       r[k] = IF k < at THEN s[k] ELSE IF k = at THEN i ELSE s[k - 1]

LEMMA InsertedFacts ==
  ASSUME NEW s \in Seq(Item), NEW at \in 1 .. Len(s) + 1, NEW i \in Item
  PROVE  Extends(Inserted(s, at, i), s, at, i)
<1>1. Len(s) \in Nat /\ \A k \in 1 .. Len(s) : s[k] \in Item
  BY ElementOfSeq, LenProperties
<1>2. PICK n \in Nat : n = Len(s) + 1
  BY <1>1
<1>3. \A k \in 1 .. n : (IF k < at THEN s[k] ELSE IF k = at THEN i ELSE s[k - 1]) \in Item
  BY <1>1, <1>2
<1>4. Inserted(s, at, i) \in [1 .. n -> Item]
  BY <1>2, <1>3 DEF Inserted
<1>5. Inserted(s, at, i) \in Seq(Item) /\ Len(Inserted(s, at, i)) = n
  BY <1>4, LenProperties
<1> QED
  BY <1>2, <1>5 DEF Inserted, Extends

(* r is s without its at-th element.                                       *)
Omits(r, s, at) ==
  /\ r \in Seq(Item) /\ Len(r) = Len(s) - 1
  /\ \A k \in 1 .. Len(s) - 1 : r[k] = IF k < at THEN s[k] ELSE s[k + 1]

LEMMA RemovedFacts ==
  ASSUME NEW s \in Seq(Item), NEW at \in 1 .. Len(s)
  PROVE  Omits(Removed(s, at), s, at)
<1>1. Len(s) \in Nat /\ \A k \in 1 .. Len(s) : s[k] \in Item
  BY ElementOfSeq, LenProperties
<1>2. PICK n \in Nat : n = Len(s) - 1
  BY <1>1
<1>3. \A k \in 1 .. n : (IF k < at THEN s[k] ELSE s[k + 1]) \in Item
  BY <1>1, <1>2
<1>4. Removed(s, at) \in [1 .. n -> Item]
  BY <1>2, <1>3 DEF Removed
<1>5. Removed(s, at) \in Seq(Item) /\ Len(Removed(s, at)) = n
  BY <1>4, LenProperties
<1> QED
  BY <1>2, <1>5 DEF Removed, Omits

(* Links that change elsewhere leave a ring as it is.                      *)
LEMMA RingStays ==
  ASSUME NEW f, NEW g, NEW l, NEW s, Ring(f, l, s),
         \A k \in 0 .. Len(s) : g[At(l, s, k)] = f[At(l, s, k)]
  PROVE  Ring(g, l, s)
BY DEF Ring

(* A cell enters a ring between two of its nodes.                          *)
LEMMA RingInsert ==
  ASSUME NEW f, NEW g, NEW l, NEW s, Ring(f, l, s),
         NEW at \in 1 .. Len(s) + 1, NEW i \in Item,
         g[At(l, s, at - 1)] = i, g[i] = At(l, s, at),
         \A k \in 0 .. Len(s) : k # at - 1 => g[At(l, s, k)] = f[At(l, s, k)]
  PROVE  Ring(g, l, Inserted(s, at, i))
<1> DEFINE r == Inserted(s, at, i)
<1>1. /\ s \in Seq(Item) /\ Len(s) \in Nat
      /\ \A k \in 0 .. Len(s) : f[At(l, s, k)] = At(l, s, k + 1)
  BY RingFacts
<1>2. /\ r \in Seq(Item) /\ Len(r) = Len(s) + 1
      /\ \A k \in 1 .. Len(s) + 1 :
           r[k] = IF k < at THEN s[k] ELSE IF k = at THEN i ELSE s[k - 1]
  BY <1>1, InsertedFacts DEF Extends
<1> HIDE DEF r
<1>3. \A k \in 0 .. Len(s) + 2 :
        At(l, r, k) = IF k < at THEN At(l, s, k)
                      ELSE IF k = at THEN i ELSE At(l, s, k - 1)
  BY <1>1, <1>2 DEF At
<1>4. ASSUME NEW k \in 0 .. Len(r)
      PROVE  g[At(l, r, k)] = At(l, r, k + 1)
  <2>1. CASE k < at - 1
    <3>1. k \in 0 .. Len(s) /\ k + 1 \in 0 .. Len(s) /\ k + 1 < at /\ k < at
      BY <1>1, <1>2, <2>1
    <3>2. At(l, r, k) = At(l, s, k) /\ At(l, r, k + 1) = At(l, s, k + 1)
      BY <1>1, <1>3, <3>1
    <3> QED
      BY <1>1, <2>1, <3>1, <3>2
  <2>2. CASE k = at - 1
    BY <1>1, <1>2, <1>3, <2>2
  <2>3. CASE k = at
    BY <1>1, <1>2, <1>3, <2>3
  <2>4. CASE k > at
    <3>1. PICK j : j = k - 1
      OBVIOUS
    <3>2. j \in 0 .. Len(s) /\ j # at - 1
      BY <1>1, <1>2, <2>4, <3>1
    <3>3. At(l, r, k) = At(l, s, j) /\ At(l, r, k + 1) = At(l, s, j + 1)
      BY <1>1, <1>2, <1>3, <2>4, <3>1
    <3> QED
      BY <1>1, <3>2, <3>3
  <2> QED
    BY <1>1, <1>2, <2>1, <2>2, <2>3, <2>4
<1> QED
  BY <1>2, <1>4 DEF Ring, r

(* A cell leaves a ring.                                                   *)
LEMMA RingRemove ==
  ASSUME NEW f, NEW g, NEW l, NEW s, Ring(f, l, s), NEW at \in 1 .. Len(s),
         g[At(l, s, at - 1)] = At(l, s, at + 1),
         \A k \in 0 .. Len(s) : k # at - 1 /\ k # at => g[At(l, s, k)] = f[At(l, s, k)]
  PROVE  Ring(g, l, Removed(s, at))
<1> DEFINE r == Removed(s, at)
<1>1. /\ s \in Seq(Item) /\ Len(s) \in Nat
      /\ \A k \in 0 .. Len(s) : f[At(l, s, k)] = At(l, s, k + 1)
  BY RingFacts
<1>2. /\ r \in Seq(Item) /\ Len(r) = Len(s) - 1
      /\ \A k \in 1 .. Len(s) - 1 : r[k] = IF k < at THEN s[k] ELSE s[k + 1]
  BY <1>1, RemovedFacts DEF Omits
<1> HIDE DEF r
<1>3. \A k \in 0 .. Len(s) :
        At(l, r, k) = IF k < at THEN At(l, s, k) ELSE At(l, s, k + 1)
  BY <1>1, <1>2 DEF At
<1>4. ASSUME NEW k \in 0 .. Len(r)
      PROVE  g[At(l, r, k)] = At(l, r, k + 1)
  <2>1. CASE k < at - 1
    <3>1. k \in 0 .. Len(s) /\ k + 1 \in 0 .. Len(s) /\ k + 1 < at /\ k < at
      BY <1>1, <1>2, <2>1
    <3>2. At(l, r, k) = At(l, s, k) /\ At(l, r, k + 1) = At(l, s, k + 1)
      BY <1>1, <1>3, <3>1
    <3> QED
      BY <1>1, <2>1, <3>1, <3>2
  <2>2. CASE k = at - 1
    BY <1>1, <1>2, <1>3, <2>2
  <2>3. CASE k >= at
    <3>1. PICK j : j = k + 1
      OBVIOUS
    <3>2. j \in 0 .. Len(s) /\ j # at - 1 /\ j # at
      BY <1>1, <1>2, <2>3, <3>1
    <3>3. At(l, r, k) = At(l, s, j) /\ At(l, r, k + 1) = At(l, s, j + 1)
      BY <1>1, <1>2, <1>3, <2>3, <3>1
    <3> QED
      BY <1>1, <3>2, <3>3
  <2> QED
    BY <1>1, <1>2, <2>1, <2>2, <2>3
<1> QED
  BY <1>2, <1>4 DEF Ring, r

(* The cells of one ring join the end of another.                          *)
LEMMA RingAppend ==
  ASSUME NEW f, NEW g, NEW l, NEW s, Ring(f, l, s), NEW m, NEW t, Ring(f, m, t),
         Len(t) # 0, g[At(l, s, Len(s))] = t[1], g[At(m, t, Len(t))] = l,
         \A k \in 0 .. Len(s) - 1 : g[At(l, s, k)] = f[At(l, s, k)],
         \A k \in 1 .. Len(t) - 1 : g[At(m, t, k)] = f[At(m, t, k)]
  PROVE  Ring(g, l, s \o t)
<1> DEFINE r == s \o t
<1>1. /\ s \in Seq(Item) /\ Len(s) \in Nat
      /\ \A k \in 0 .. Len(s) : f[At(l, s, k)] = At(l, s, k + 1)
  BY RingFacts
<1>2. /\ t \in Seq(Item) /\ Len(t) \in Nat
      /\ \A k \in 0 .. Len(t) : f[At(m, t, k)] = At(m, t, k + 1)
  BY RingFacts
<1>3. /\ r \in Seq(Item) /\ Len(r) = Len(s) + Len(t)
      /\ \A k \in 1 .. Len(s) + Len(t) :
           r[k] = IF k <= Len(s) THEN s[k] ELSE t[k - Len(s)]
  BY <1>1, <1>2, ConcatProperties
<1> HIDE DEF r
<1>4. \A k \in 0 .. Len(s) : At(l, r, k) = At(l, s, k)
  BY <1>1, <1>2, <1>3 DEF At
<1>5. \A k \in 1 .. Len(t) : At(l, r, Len(s) + k) = At(m, t, k)
  BY <1>1, <1>2, <1>3 DEF At
<1>6. At(l, r, Len(s) + Len(t) + 1) = l
  BY <1>1, <1>2, <1>3 DEF At
<1>7. ASSUME NEW k \in 0 .. Len(r)
      PROVE  g[At(l, r, k)] = At(l, r, k + 1)
  <2>1. CASE k < Len(s)
    <3>1. k \in 0 .. Len(s) - 1 /\ k \in 0 .. Len(s) /\ k + 1 \in 0 .. Len(s)
      BY <1>1, <2>1
    <3> QED
      BY <1>1, <1>4, <3>1
  <2>2. CASE k = Len(s)
    <3>1. At(l, r, k) = At(l, s, Len(s))
      BY <1>1, <1>4, <2>2
    <3>2. At(l, r, k + 1) = t[1]
      BY <1>1, <1>2, <1>5, <2>2 DEF At
    <3> QED
      BY <3>1, <3>2
  <2>3. CASE k > Len(s) /\ k < Len(r)
    <3>1. PICK j : j = k - Len(s)
      OBVIOUS
    <3>2. j \in 1 .. Len(t) - 1 /\ j \in 0 .. Len(t) /\ j \in 1 .. Len(t)
          /\ j + 1 \in 1 .. Len(t) /\ Len(s) + j = k /\ Len(s) + (j + 1) = k + 1
      BY <1>1, <1>2, <1>3, <2>3, <3>1
    <3>3. At(l, r, k) = At(m, t, j) /\ At(l, r, k + 1) = At(m, t, j + 1)
      BY <1>5, <3>2
    <3> QED
      BY <1>2, <3>2, <3>3
  <2>4. CASE k = Len(r)
    <3>1. /\ Len(t) \in 1 .. Len(t) /\ k = Len(s) + Len(t)
          /\ k + 1 = Len(s) + Len(t) + 1
      BY <1>1, <1>2, <1>3, <2>4
    <3>2. At(l, r, k) = At(m, t, Len(t))
      BY <1>5, <3>1
    <3> QED
      BY <1>6, <3>1, <3>2
  <2>5. k < Len(s) \/ k = Len(s) \/ (k > Len(s) /\ k < Len(r)) \/ k = Len(r)
    <3>1. PICK a \in Nat, b \in Nat : a = Len(s) /\ b = Len(r)
      BY <1>1, <1>2, <1>3
    <3>2. k \in 0 .. b
      BY <3>1
    <3> QED
      BY <3>1, <3>2
  <2> QED
    BY <2>1, <2>2, <2>3, <2>4, <2>5
<1> QED
  BY <1>3, <1>7 DEF Ring, r

LEMMA EmptyRing ==
  ASSUME NEW f, NEW l, f[l] = l
  PROVE  Ring(f, l, << >>)
BY DEF Ring, At

-----------------------------------------------------------------------------
(***************************************************************************)
(* Surgery on the lists.                                                   *)
(***************************************************************************)

(* The cell i is on no list.                                               *)
Unlisted(q, i) == \A m \in List : \A k \in 1 .. Len(q[m]) : q[m][k] # i

LEMMA ListedApart ==
  ASSUME NEW q, Apart(q), NEW l \in List, NEW m \in List,
         NEW j \in 1 .. Len(q[l]), NEW k \in 1 .. Len(q[m]), q[l][j] = q[m][k]
  PROVE  l = m /\ j = k
BY DEF Apart

LEMMA ThreadFacts ==
  ASSUME NEW f, NEW q, Threaded(f, q), NEW l \in List
  PROVE  /\ q[l] \in Seq(Item) /\ Len(q[l]) \in Nat
         /\ At(l, q[l], 0) = l /\ At(l, q[l], Len(q[l]) + 1) = l
         /\ \A k \in 1 .. Len(q[l]) : q[l][k] \in Item /\ At(l, q[l], k) = q[l][k]
         /\ \A k : At(l, q[l], k) \in Node
         /\ \A k \in 0 .. Len(q[l]) : f[At(l, q[l], k)] = At(l, q[l], k + 1)
<1>1. Ring(f, l, q[l])
  BY DEF Threaded
<1> QED
  BY <1>1, RingFacts, RingNodes DEF Node

(* An unlisted cell is no node of a ring.                                  *)
LEMMA UnlistedNode ==
  ASSUME NEW f, NEW q, Threaded(f, q), NEW i \in Item, Unlisted(q, i),
         NEW l \in List, NEW k
  PROVE  At(l, q[l], k) # i
<1>1. l # i
  BY ListItemAssumption
<1> QED
  BY <1>1 DEF At, Unlisted

(* g is f with the cell i in front of the at-th node of the ring of l and  *)
(* s, or without the at-th one.                                            *)
LinksIn(f, g, l, s, at, i) ==
  /\ g[At(l, s, at - 1)] = i /\ g[i] = At(l, s, at)
  /\ \A n \in Node : n # i /\ n # At(l, s, at - 1) => g[n] = f[n]

LinksOut(f, g, l, s, at) ==
  /\ g[At(l, s, at - 1)] = At(l, s, at + 1)
  /\ \A n \in Node : n # At(l, s, at - 1) /\ n # s[at] => g[n] = f[n]

LEMMA ThreadInsert ==
  ASSUME NEW f, NEW q, Threaded(f, q), NEW l \in List, NEW at \in 1 .. Len(q[l]) + 1,
         NEW i \in Item, Unlisted(q, i),
         NEW g, LinksIn(f, g, l, q[l], at, i)
  PROVE  Threaded(g, [q EXCEPT ![l] = Inserted(q[l], at, i)])
<1> DEFINE r == [q EXCEPT ![l] = Inserted(q[l], at, i)]
<1>1. r = [m \in List |-> r[m]] /\ r[l] = Inserted(q[l], at, i)
      /\ \A m \in List : m # l => r[m] = q[m]
  BY DEF Threaded
<1> HIDE DEF r
<1>2. /\ q[l] \in Seq(Item) /\ Len(q[l]) \in Nat
      /\ Len(r[l]) = Len(q[l]) + 1
      /\ \A k \in 1 .. Len(q[l]) + 1 :
           r[l][k] = IF k < at THEN q[l][k] ELSE IF k = at THEN i ELSE q[l][k - 1]
  <2>1. PICK s : s = q[l] /\ s \in Seq(Item) /\ Len(s) \in Nat
    BY ThreadFacts
  <2>2. r[l] = Inserted(s, at, i)
    BY <1>1, <2>1
  <2>3. at \in 1 .. Len(s) + 1
    BY <2>1
  <2>4. Extends(r[l], s, at, i)
    BY <2>1, <2>2, <2>3, InsertedFacts
  <2> QED
    BY <2>1, <2>4 DEF Extends
<1>3. at - 1 \in 0 .. Len(q[l])
  BY <1>2
<1>4. ASSUME NEW m \in List, NEW k \in 0 .. Len(q[m]), m # l \/ k # at - 1
      PROVE  g[At(m, q[m], k)] = f[At(m, q[m], k)]
  <2>1. At(m, q[m], k) # At(l, q[l], at - 1)
    <3>1. PICK j \in 0 .. Len(q[l]) : j = at - 1
      BY <1>3
    <3>2. At(m, q[m], k) # At(l, q[l], j)
      BY <1>4, <3>1, NodesApart
    <3> QED
      BY <3>1, <3>2
  <2>2. At(m, q[m], k) # i
    BY UnlistedNode
  <2>3. At(m, q[m], k) \in Node
    BY ThreadFacts
  <2> QED
    BY <2>1, <2>2, <2>3 DEF LinksIn
<1>5. ASSUME NEW m \in List
      PROVE  Ring(g, m, r[m])
  <2>1. Ring(f, m, q[m])
    BY DEF Threaded
  <2>2. CASE m = l
    BY <1>1, <1>4, <2>1, <2>2, RingInsert DEF LinksIn
  <2>3. CASE m # l
    BY <1>1, <1>4, <2>1, <2>3, RingStays
  <2> QED
    BY <2>2, <2>3
<1>6. ASSUME NEW m \in List, NEW k \in 1 .. Len(r[m]), m # l \/ k # at
      PROVE  \E j \in 1 .. Len(q[m]) :
               /\ r[m][k] = q[m][j]
               /\ k = IF m = l /\ j >= at THEN j + 1 ELSE j
  <2>1. CASE m # l
    BY <1>1, <2>1
  <2>2. CASE m = l /\ k < at
    <3>1. k \in 1 .. Len(q[m]) /\ r[m][k] = q[m][k]
      BY <1>2, <2>2
    <3> QED
      BY <2>2, <3>1
  <2>3. CASE m = l /\ k > at
    <3>1. k - 1 \in 1 .. Len(q[m]) /\ r[m][k] = q[m][k - 1] /\ k - 1 >= at
      BY <1>2, <2>3
    <3> QED
      BY <2>3, <3>1
  <2> QED
    BY <1>2, <1>6, <2>1, <2>2, <2>3
<1>7. r[l][at] = i
  BY <1>2
<1>8. ASSUME NEW m \in List, NEW n \in List, NEW j \in 1 .. Len(r[m]),
             NEW k \in 1 .. Len(r[n]), r[m][j] = r[n][k]
      PROVE  m = n /\ j = k
  <2>1. CASE (m # l \/ j # at) /\ (n # l \/ k # at)
    <3>1. PICK a \in 1 .. Len(q[m]) : /\ r[m][j] = q[m][a]
                                      /\ j = IF m = l /\ a >= at THEN a + 1 ELSE a
      BY <1>6, <2>1
    <3>2. PICK b \in 1 .. Len(q[n]) : /\ r[n][k] = q[n][b]
                                      /\ k = IF n = l /\ b >= at THEN b + 1 ELSE b
      BY <1>6, <2>1
    <3>3. m = n /\ a = b
      <4>1. q[m][a] = q[n][b]
        BY <1>8, <3>1, <3>2
      <4>2. Apart(q)
        BY DEF Threaded
      <4> QED
        BY <4>1, <4>2, ListedApart, SMTT(30)
    <3> QED
      BY <3>1, <3>2, <3>3
  <2>2. CASE m = l /\ j = at /\ (n # l \/ k # at)
    <3>1. PICK b \in 1 .. Len(q[n]) : r[n][k] = q[n][b]
      BY <1>6, <2>2
    <3> QED
      BY <1>7, <1>8, <2>2, <3>1 DEF Unlisted
  <2>3. CASE n = l /\ k = at /\ (m # l \/ j # at)
    <3>1. PICK b \in 1 .. Len(q[m]) : r[m][j] = q[m][b]
      BY <1>6, <2>3
    <3> QED
      BY <1>7, <1>8, <2>3, <3>1 DEF Unlisted
  <2> QED
    BY <2>1, <2>2, <2>3
<1>9. Threaded(g, r)
  BY <1>1, <1>5, <1>8 DEF Threaded, Apart
<1> QED
  BY <1>9 DEF r

LEMMA ThreadRemove ==
  ASSUME NEW f, NEW q, Threaded(f, q), NEW l \in List, NEW at \in 1 .. Len(q[l]),
         NEW g, LinksOut(f, g, l, q[l], at)
  PROVE  Threaded(g, [q EXCEPT ![l] = Removed(q[l], at)])
<1> DEFINE r == [q EXCEPT ![l] = Removed(q[l], at)]
<1>1. r = [m \in List |-> r[m]] /\ r[l] = Removed(q[l], at)
      /\ \A m \in List : m # l => r[m] = q[m]
  BY DEF Threaded
<1> HIDE DEF r
<1>2. /\ q[l] \in Seq(Item) /\ Len(q[l]) \in Nat
      /\ Len(r[l]) = Len(q[l]) - 1
      /\ \A k \in 1 .. Len(q[l]) - 1 :
           r[l][k] = IF k < at THEN q[l][k] ELSE q[l][k + 1]
  <2>1. PICK s : s = q[l] /\ s \in Seq(Item) /\ Len(s) \in Nat
    BY ThreadFacts
  <2>2. r[l] = Removed(s, at)
    BY <1>1, <2>1
  <2>3. at \in 1 .. Len(s)
    BY <2>1
  <2>4. Omits(r[l], s, at)
    BY <2>1, <2>2, <2>3, RemovedFacts
  <2> QED
    BY <2>1, <2>4 DEF Omits
<1>3. at - 1 \in 0 .. Len(q[l]) /\ at \in 0 .. Len(q[l])
  BY <1>2
<1>4. ASSUME NEW m \in List, NEW k \in 0 .. Len(q[m]), m # l \/ (k # at - 1 /\ k # at)
      PROVE  g[At(m, q[m], k)] = f[At(m, q[m], k)]
  <2>1. At(m, q[m], k) # At(l, q[l], at - 1) /\ At(m, q[m], k) # At(l, q[l], at)
    <3>1. PICK i, j \in 0 .. Len(q[l]) : i = at /\ j = at - 1
      BY <1>3
    <3>2. At(m, q[m], k) # At(l, q[l], i)
      BY <1>4, <3>1, NodesApart
    <3>3. At(m, q[m], k) # At(l, q[l], j)
      BY <1>4, <3>1, NodesApart
    <3> QED
      BY <3>1, <3>2, <3>3
  <2>2. At(m, q[m], k) \in Node
    BY ThreadFacts
  <2>3. At(l, q[l], at) = q[l][at]
    BY ThreadFacts
  <2> QED
    BY <2>1, <2>2, <2>3 DEF LinksOut
<1>5. ASSUME NEW m \in List
      PROVE  Ring(g, m, r[m])
  <2>1. Ring(f, m, q[m])
    BY DEF Threaded
  <2>2. CASE m = l
    BY <1>1, <1>4, <2>1, <2>2, RingRemove DEF LinksOut
  <2>3. CASE m # l
    BY <1>1, <1>4, <2>1, <2>3, RingStays
  <2> QED
    BY <2>2, <2>3
<1>6. ASSUME NEW m \in List, NEW k \in 1 .. Len(r[m])
      PROVE  \E j \in 1 .. Len(q[m]) :
               /\ r[m][k] = q[m][j]
               /\ j = IF m = l /\ k >= at THEN k + 1 ELSE k
  <2>1. CASE m # l
    BY <1>1, <2>1
  <2>2. CASE m = l /\ k < at
    <3>1. k \in 1 .. Len(q[m]) /\ r[m][k] = q[m][k]
      BY <1>2, <2>2
    <3> QED
      BY <2>2, <3>1
  <2>3. CASE m = l /\ k >= at
    <3>1. k + 1 \in 1 .. Len(q[m]) /\ r[m][k] = q[m][k + 1]
      BY <1>2, <2>3
    <3> QED
      BY <2>3, <3>1
  <2> QED
    BY <2>1, <2>2, <2>3
<1>7. ASSUME NEW m \in List, NEW n \in List, NEW j \in 1 .. Len(r[m]),
             NEW k \in 1 .. Len(r[n]), r[m][j] = r[n][k]
      PROVE  m = n /\ j = k
  <2>1. PICK a \in 1 .. Len(q[m]) : /\ r[m][j] = q[m][a]
                                    /\ a = IF m = l /\ j >= at THEN j + 1 ELSE j
    BY <1>6
  <2>2. PICK b \in 1 .. Len(q[n]) : /\ r[n][k] = q[n][b]
                                    /\ b = IF n = l /\ k >= at THEN k + 1 ELSE k
    BY <1>6
  <2>3. m = n /\ a = b
    <3>1. q[m][a] = q[n][b]
      BY <1>7, <2>1, <2>2
    <3>2. Apart(q)
      BY DEF Threaded
    <3> QED
      BY <3>1, <3>2, ListedApart, SMTT(30)
  <2> QED
    BY <2>1, <2>2, <2>3
<1>8. Threaded(g, r)
  BY <1>1, <1>5, <1>7 DEF Threaded, Apart
<1> QED
  BY <1>8 DEF r

(* g is f with the ring of m and t appended to that of l and s.            *)
LinksUp(f, g, l, s, m, t) ==
  /\ g[At(l, s, Len(s))] = t[1] /\ g[At(m, t, Len(t))] = l /\ g[m] = m
  /\ \A n \in Node : n # At(l, s, Len(s)) /\ n # At(m, t, Len(t)) /\ n # m => g[n] = f[n]

(* The cell at k on the list m of r was at j on the list p of q, where the *)
(* list from went behind the n cells of the list to.                       *)
Comes(r, q, to, from, n, m, k, p, j) ==
  /\ p \in List /\ j \in 1 .. Len(q[p]) /\ r[m][k] = q[p][j]
  /\ \/ p # from /\ m = p /\ k = j
     \/ p = from /\ m = to /\ k = j + n
  /\ p = to => k <= n

LEMMA ThreadAppend ==
  ASSUME NEW f, NEW q, Threaded(f, q), NEW to \in List, NEW from \in List, to # from,
         Len(q[from]) # 0, NEW g, LinksUp(f, g, to, q[to], from, q[from])
  PROVE  Threaded(g, [q EXCEPT ![to] = q[to] \o q[from], ![from] = << >>])
<1> DEFINE r == [q EXCEPT ![to] = q[to] \o q[from], ![from] = << >>]
<1>1. /\ r = [m \in List |-> r[m]]
      /\ r[to] = q[to] \o q[from] /\ r[from] = << >>
      /\ \A m \in List : m # to /\ m # from => r[m] = q[m]
  BY DEF Threaded
<1> HIDE DEF r
<1>2. PICK s : s = q[to] /\ s \in Seq(Item) /\ Len(s) \in Nat
  BY ThreadFacts
<1>3. PICK t : t = q[from] /\ t \in Seq(Item) /\ Len(t) \in Nat /\ Len(t) # 0
  BY ThreadFacts
<1>4. /\ Len(r[to]) = Len(s) + Len(t)
      /\ \A k \in 1 .. Len(s) : r[to][k] = s[k]
      /\ \A k \in 1 .. Len(t) : r[to][Len(s) + k] = t[k]
  <2>0. Len(s) \in Nat /\ Len(t) \in Nat
    BY <1>2, <1>3
  <2>1. r[to] = s \o t
    BY <1>1, <1>2, <1>3
  <2>2. Len(s \o t) = Len(s) + Len(t)
    BY <1>2, <1>3, ConcatProperties
  <2>3. ASSUME NEW k \in 1 .. Len(s) + Len(t)
        PROVE  (s \o t)[k] = IF k <= Len(s) THEN s[k] ELSE t[k - Len(s)]
    BY <1>2, <1>3, ConcatProperties
  <2>4. ASSUME NEW k \in 1 .. Len(s)
        PROVE  (s \o t)[k] = s[k]
    <3>1. k \in 1 .. Len(s) + Len(t) /\ k <= Len(s)
      BY <2>0
    <3> QED
      BY <2>3, <3>1
  <2>5. ASSUME NEW k \in 1 .. Len(t)
        PROVE  (s \o t)[Len(s) + k] = t[k]
    <3>1. PICK j : j = Len(s) + k
      OBVIOUS
    <3>2. j \in 1 .. Len(s) + Len(t) /\ ~(j <= Len(s)) /\ j - Len(s) = k
      BY <2>0, <3>1
    <3>3. (s \o t)[j] = t[j - Len(s)]
      BY <2>3, <3>2
    <3> QED
      BY <3>1, <3>2, <3>3
  <2> QED
    BY <2>1, <2>2, <2>4, <2>5
<1>5. Ring(f, to, s) /\ Ring(f, from, t)
  BY <1>2, <1>3 DEF Threaded
<1>6. ASSUME NEW m \in List, NEW k \in 0 .. Len(q[m]),
             m = to => k # Len(s), m = from => k # Len(t) /\ k # 0
      PROVE  g[At(m, q[m], k)] = f[At(m, q[m], k)]
  <2>1. At(m, q[m], k) # At(to, s, Len(s))
    <3>1. PICK j \in 0 .. Len(q[to]) : j = Len(s)
      BY <1>2
    <3>2. At(m, q[m], k) # At(to, q[to], j)
      BY <1>6, <3>1, NodesApart
    <3> QED
      BY <1>2, <3>1, <3>2
  <2>2. At(m, q[m], k) # At(from, t, Len(t)) /\ At(m, q[m], k) # from
    <3>1. PICK i, j \in 0 .. Len(q[from]) : i = Len(t) /\ j = 0
      BY <1>3
    <3>2. At(m, q[m], k) # At(from, q[from], i)
      BY <1>6, <3>1, NodesApart
    <3>3. At(m, q[m], k) # At(from, q[from], j)
      BY <1>6, <3>1, NodesApart
    <3>4. At(from, q[from], 0) = from
      BY ThreadFacts
    <3> QED
      BY <1>3, <3>1, <3>2, <3>3, <3>4
  <2>3. At(m, q[m], k) \in Node
    BY ThreadFacts
  <2> QED
    BY <1>2, <1>3, <2>1, <2>2, <2>3 DEF LinksUp
<1>7. Ring(g, to, s \o t)
  <2>1. g[At(to, s, Len(s))] = t[1] /\ g[At(from, t, Len(t))] = to
    BY <1>2, <1>3 DEF LinksUp
  <2>2. \A k \in 0 .. Len(s) - 1 : g[At(to, s, k)] = f[At(to, s, k)]
    BY <1>2, <1>6
  <2>3. \A k \in 1 .. Len(t) - 1 : g[At(from, t, k)] = f[At(from, t, k)]
    BY <1>3, <1>6
  <2> QED
    BY <1>3, <1>5, <2>1, <2>2, <2>3, RingAppend
<1>8. Ring(g, from, << >>)
  BY EmptyRing DEF LinksUp
<1>9. ASSUME NEW m \in List
      PROVE  Ring(g, m, r[m])
  <2>1. CASE m = to
    BY <1>1, <1>2, <1>3, <1>7, <2>1
  <2>2. CASE m = from
    BY <1>1, <1>8, <2>2
  <2>3. CASE m # to /\ m # from
    <3>1. Ring(f, m, q[m]) /\ r[m] = q[m]
      BY <1>1, <2>3 DEF Threaded
    <3> QED
      BY <1>6, <2>3, <3>1, RingStays
  <2> QED
    BY <2>1, <2>2, <2>3
<1>10. ASSUME NEW m \in List, NEW k \in 1 .. Len(r[m])
       PROVE  \E p, j : Comes(r, q, to, from, Len(s), m, k, p, j)
  <2>1. CASE m = from
    BY <1>1, <2>1
  <2>2. CASE m # to /\ m # from
    <3>1. r[m] = q[m]
      BY <1>1, <2>2
    <3>2. Comes(r, q, to, from, Len(s), m, k, m, k)
      BY <2>2, <3>1 DEF Comes
    <3> QED
      BY <3>2
  <2>3. CASE m = to /\ k <= Len(s)
    <3>1. k \in 1 .. Len(s)
      BY <1>2, <1>3, <1>4, <2>3
    <3>2. k \in 1 .. Len(q[m]) /\ r[m][k] = q[m][k]
      BY <1>2, <1>4, <2>3, <3>1
    <3>3. Comes(r, q, to, from, Len(s), m, k, to, k)
      BY <2>3, <3>2 DEF Comes
    <3> QED
      BY <3>3
  <2>4. CASE m = to /\ k > Len(s)
    <3>1. PICK j : j = k - Len(s)
      OBVIOUS
    <3>2. j \in 1 .. Len(t) /\ Len(s) + j = k /\ j + Len(s) = k
      <4>1. PICK a \in Nat, b \in Nat : a = Len(s) /\ b = Len(t)
        BY <1>2, <1>3
      <4>2. k \in 1 .. a + b /\ k > a /\ j = k - a
        BY <1>4, <2>4, <3>1, <4>1
      <4> QED
        BY <4>1, <4>2
    <3>3. r[m][k] = q[from][j] /\ j \in 1 .. Len(q[from])
      BY <1>3, <1>4, <2>4, <3>2
    <3>4. Comes(r, q, to, from, Len(s), m, k, from, j)
      BY <2>4, <3>2, <3>3 DEF Comes
    <3> QED
      BY <3>4
  <2>5. m = to => k <= Len(s) \/ k > Len(s)
    <3>1. PICK a \in Nat : a = Len(s)
      BY <1>2
    <3> QED
      BY <3>1
  <2> QED
    BY <2>1, <2>2, <2>3, <2>4, <2>5
<1>11. ASSUME NEW m \in List, NEW n \in List, NEW j \in 1 .. Len(r[m]),
              NEW k \in 1 .. Len(r[n]), r[m][j] = r[n][k]
       PROVE  m = n /\ j = k
  <2>1. PICK p, a : Comes(r, q, to, from, Len(s), m, j, p, a)
    BY <1>10
  <2>2. PICK o, b : Comes(r, q, to, from, Len(s), n, k, o, b)
    BY <1>10
  <2>3. p = o /\ a = b
    <3>1. /\ p \in List /\ a \in 1 .. Len(q[p]) /\ o \in List /\ b \in 1 .. Len(q[o])
          /\ q[p][a] = q[o][b]
      BY <1>11, <2>1, <2>2 DEF Comes
    <3>2. Apart(q)
      BY DEF Threaded
    <3> QED
      BY <3>1, <3>2, ListedApart, SMTT(30)
  <2> QED
    BY <2>1, <2>2, <2>3 DEF Comes
<1>12. Threaded(g, r)
  BY <1>1, <1>9, <1>11 DEF Threaded, Apart
<1> QED
  BY <1>12 DEF r

-----------------------------------------------------------------------------
(***************************************************************************)
(* The surgery as operations on sequences.                                 *)
(***************************************************************************)
LEMMA InsertedFirst ==
  ASSUME NEW s \in Seq(Item), NEW i \in Item
  PROVE  Inserted(s, 1, i) = <<i>> \o s
<1>1. Len(s) \in Nat
  BY LenProperties
<1>2. PICK r : r = Inserted(s, 1, i) /\ Extends(r, s, 1, i)
  BY <1>1, InsertedFacts
<1>3. <<i>> \in Seq(Item) /\ Len(<<i>>) = 1 /\ <<i>>[1] = i
  OBVIOUS
<1>4. PICK t : t = <<i>> \o s
  OBVIOUS
<1>5. t \in Seq(Item) /\ Len(t) = Len(s) + 1
  BY <1>1, <1>3, <1>4, ConcatProperties
<1>6. ASSUME NEW k \in 1 .. Len(s) + 1
      PROVE  r[k] = t[k]
  <2>1. r[k] = IF k < 1 THEN s[k] ELSE IF k = 1 THEN i ELSE s[k - 1]
    BY <1>2 DEF Extends
  <2>2. t[k] = IF k <= 1 THEN <<i>>[k] ELSE s[k - 1]
    <3>1. k \in 1 .. Len(<<i>>) + Len(s)
      BY <1>1, <1>3
    <3>2. t[k] = IF k <= Len(<<i>>) THEN <<i>>[k] ELSE s[k - Len(<<i>>)]
      BY <1>3, <1>4, <3>1, ConcatProperties
    <3> QED
      BY <1>3, <3>2
  <2> QED
    BY <1>3, <2>1, <2>2
<1>7. r \in Seq(Item) /\ Len(r) = Len(t) /\ \A k \in 1 .. Len(r) : r[k] = t[k]
  BY <1>2, <1>5, <1>6 DEF Extends
<1>8. r = t
  BY <1>5, <1>7, SeqEqual
<1> QED
  BY <1>2, <1>4, <1>8

LEMMA InsertedLast ==
  ASSUME NEW s \in Seq(Item), NEW i \in Item
  PROVE  Inserted(s, Len(s) + 1, i) = Append(s, i)
<1>1. Len(s) \in Nat
  BY LenProperties
<1>2. PICK r : r = Inserted(s, Len(s) + 1, i) /\ Extends(r, s, Len(s) + 1, i)
  BY <1>1, InsertedFacts
<1>3. PICK t : t = Append(s, i)
  OBVIOUS
<1>4. /\ t \in Seq(Item) /\ Len(t) = Len(s) + 1 /\ t[Len(s) + 1] = i
      /\ \A k \in 1 .. Len(s) : t[k] = s[k]
  BY <1>3, AppendProperties
<1>5. ASSUME NEW k \in 1 .. Len(s) + 1
      PROVE  r[k] = t[k]
  <2>1. r[k] = IF k < Len(s) + 1 THEN s[k] ELSE IF k = Len(s) + 1 THEN i ELSE s[k - 1]
    BY <1>2 DEF Extends
  <2>2. CASE k = Len(s) + 1
    BY <1>1, <1>4, <2>1, <2>2
  <2>3. CASE k # Len(s) + 1
    <3>1. k \in 1 .. Len(s) /\ k < Len(s) + 1
      BY <1>1, <2>3
    <3> QED
      BY <1>4, <2>1, <3>1
  <2> QED
    BY <2>2, <2>3
<1>6. r \in Seq(Item) /\ Len(r) = Len(t) /\ \A k \in 1 .. Len(r) : r[k] = t[k]
  BY <1>2, <1>4, <1>5 DEF Extends
<1>7. r = t
  BY <1>4, <1>6, SeqEqual
<1> QED
  BY <1>2, <1>3, <1>7

LEMMA RemovedAt ==
  ASSUME NEW s \in Seq(Item), NEW at \in 1 .. Len(s)
  PROVE  Removed(s, at) = SubSeq(s, 1, at - 1) \o SubSeq(s, at + 1, Len(s))
<1>1. PICK n \in Nat : n = Len(s)
  BY LenProperties
<1>2. at \in 1 .. n /\ \A k \in 1 .. n : s[k] \in Item
  BY <1>1, ElementOfSeq
<1>3. PICK a, b, r : /\ a = SubSeq(s, 1, at - 1) /\ b = SubSeq(s, at + 1, n)
                     /\ r = Removed(s, at)
  OBVIOUS
<1>4. /\ a \in Seq(Item) /\ Len(a) = at - 1
      /\ \A k \in 1 .. at - 1 : a[k] = s[k]
  <2>1. PICK m \in Int : m = at - 1
    BY <1>2
  <2>2. \A k \in 1 .. m : s[k] \in Item
    BY <1>2, <2>1
  <2>3. /\ SubSeq(s, 1, m) \in Seq(Item)
        /\ Len(SubSeq(s, 1, m)) = IF 1 <= m THEN m - 1 + 1 ELSE 0
        /\ \A k \in 1 .. m - 1 + 1 : SubSeq(s, 1, m)[k] = s[1 + k - 1]
    BY <2>2, SubSeqProperties
  <2> QED
    BY <1>2, <1>3, <2>1, <2>3
<1>5. /\ b \in Seq(Item) /\ Len(b) = n - at
      /\ \A k \in 1 .. n - at : b[k] = s[at + k]
  <2>1. PICK m \in Int : m = at + 1
    BY <1>2
  <2>2. \A k \in m .. n : s[k] \in Item
    BY <1>2, <2>1
  <2>3. /\ SubSeq(s, m, n) \in Seq(Item)
        /\ Len(SubSeq(s, m, n)) = IF m <= n THEN n - m + 1 ELSE 0
        /\ \A k \in 1 .. n - m + 1 : SubSeq(s, m, n)[k] = s[m + k - 1]
    BY <2>2, SubSeqProperties
  <2>4. Len(b) = n - at
    BY <1>2, <1>3, <2>1, <2>3
  <2>5. ASSUME NEW k \in 1 .. n - at
        PROVE  b[k] = s[at + k]
    <3>1. k \in 1 .. n - m + 1 /\ m + k - 1 = at + k
      BY <1>2, <2>1
    <3> QED
      BY <1>3, <2>1, <2>3, <3>1
  <2> QED
    BY <1>3, <2>1, <2>3, <2>4, <2>5
<1>6. /\ r \in Seq(Item) /\ Len(r) = n - 1
      /\ \A k \in 1 .. n - 1 : r[k] = IF k < at THEN s[k] ELSE s[k + 1]
  <2>1. r \in Seq(Item) /\ Len(r) = n - 1
    BY <1>1, <1>3, RemovedFacts DEF Omits
  <2>2. r = [k \in 1 .. n - 1 |-> IF k < at THEN s[k] ELSE s[k + 1]]
    BY <1>1, <1>3 DEF Removed
  <2> QED
    BY <2>1, <2>2
<1>7. a \o b \in Seq(Item) /\ Len(a \o b) = n - 1
  <2>1. a \o b \in Seq(Item) /\ Len(a \o b) = Len(a) + Len(b)
    BY <1>4, <1>5, ConcatProperties
  <2> QED
    BY <1>2, <1>4, <1>5, <2>1
<1>8. ASSUME NEW k \in 1 .. n - 1
      PROVE  r[k] = (a \o b)[k]
  <2>1. k \in 1 .. Len(a) + Len(b)
    BY <1>2, <1>4, <1>5
  <2>2. (a \o b)[k] = IF k <= Len(a) THEN a[k] ELSE b[k - Len(a)]
    BY <1>4, <1>5, <2>1, ConcatProperties
  <2>3. CASE k < at
    <3>1. k \in 1 .. at - 1
      BY <1>2, <2>3
    <3> QED
      BY <1>2, <1>4, <1>6, <2>2, <2>3, <3>1
  <2>4. CASE ~(k < at)
    <3>1. PICK j : j = k - Len(a)
      OBVIOUS
    <3>2. j \in 1 .. n - at /\ at + j = k + 1 /\ ~(k <= Len(a))
      BY <1>2, <1>4, <2>4, <3>1
    <3>3. (a \o b)[k] = s[at + j]
      BY <1>5, <2>2, <3>1, <3>2
    <3> QED
      BY <1>6, <2>4, <3>2, <3>3
  <2> QED
    BY <2>3, <2>4
<1>9. r = a \o b
  BY <1>6, <1>7, <1>8, SeqEqual
<1> QED
  BY <1>1, <1>3, <1>9

LEMMA RemovedFirst ==
  ASSUME NEW s \in Seq(Item), Len(s) # 0
  PROVE  Removed(s, 1) = Tail(s)
<1>1. PICK n \in Nat : n = Len(s) /\ n # 0
  BY LenProperties
<1>2. s # << >>
  BY <1>1
<1>3. Tail(s) = SubSeq(s, 2, n)
  BY <1>1, <1>2, TailIsSubSeq
<1>4. Tail(s) \in Seq(Item)
  BY <1>2, HeadTailProperties
<1>5. 1 \in 1 .. Len(s)
  BY <1>1
<1>6. Removed(s, 1) = SubSeq(s, 1, 1 - 1) \o SubSeq(s, 1 + 1, Len(s))
  BY <1>5, RemovedAt
<1>7. SubSeq(s, 1, 0) = << >>
  BY SubSeqEmpty
<1>8. << >> \o Tail(s) = Tail(s)
  BY <1>4, ConcatEmptySeq
<1> QED
  BY <1>1, <1>3, <1>6, <1>7, <1>8

LEMMA RemovedLast ==
  ASSUME NEW s \in Seq(Item), Len(s) # 0
  PROVE  Removed(s, Len(s)) = SubSeq(s, 1, Len(s) - 1)
<1>1. PICK n \in Nat : n = Len(s) /\ n # 0
  BY LenProperties
<1>2. n \in 1 .. Len(s)
  BY <1>1
<1>3. PICK t : t = SubSeq(s, 1, n - 1)
  OBVIOUS
<1>4. Removed(s, n) = t \o SubSeq(s, n + 1, n)
  BY <1>1, <1>2, <1>3, RemovedAt
<1>5. SubSeq(s, n + 1, n) = << >>
  <2>1. n + 1 \in Int /\ n \in Int /\ n < n + 1
    OBVIOUS
  <2> QED
    BY <2>1, SubSeqEmpty
<1>6. t \in Seq(Item)
  <2>1. \A k \in 1 .. n - 1 : s[k] \in Item
    BY <1>1, ElementOfSeq
  <2>2. n - 1 \in Int
    OBVIOUS
  <2> QED
    BY <1>3, <2>1, <2>2, SubSeqProperties
<1>7. t \o << >> = t
  BY <1>6, ConcatEmptySeq
<1> QED
  BY <1>1, <1>3, <1>4, <1>5, <1>7

-----------------------------------------------------------------------------
(***************************************************************************)
(* The lists in every state.                                               *)
(***************************************************************************)
Rings == [l \in List |-> Contents(l)]

(* Of the links of TypeOK and LinksInverse: they make the lists of Rings,  *)
(* without common cells, and each list has as many cells as its size says. *)
ListsInv ==
  /\ LinksOK
  /\ Threaded(next, Rings)
  /\ \A l \in List : size[l] = Len(Contents(l))

(* What the walks of a state find where the links have the lists q.        *)
LEMMA WalksFind ==
  ASSUME NEW q, Threaded(next, q)
  PROVE  /\ Rings = q
         /\ \A l \in List : /\ Contents(l) = q[l] /\ gc_count(l) = Len(q[l]) /\ Returns(l)
                            /\ Cells(l) = {q[l][k] : k \in 1 .. Len(q[l])}
<1>1. ASSUME NEW l \in List
      PROVE  /\ Contents(l) = q[l] /\ gc_count(l) = Len(q[l]) /\ Returns(l)
             /\ Cells(l) = {q[l][k] : k \in 1 .. Len(q[l])}
  <2>1. PICK s : s = q[l]
    OBVIOUS
  <2>2. Ring(next, l, s) /\ \A j, k \in 1 .. Len(s) : s[j] = s[k] => j = k
    BY <2>1 DEF Threaded, Apart
  <2>3. /\ Count(next, l) = Len(s)
        /\ Len(s) \in 0 .. Cardinality(Item) /\ Orbit(next, l)[Len(s) + 1] = l
        /\ s = [k \in 1 .. Count(next, l) |-> Orbit(next, l)[k]]
    BY <2>2, CountOfRing
  <2>4. Walk(l) = Orbit(next, l)
    BY DEF Walk, Orbit
  <2>5. gc_count(l) = Count(next, l)
    BY <2>4 DEF gc_count, Count, Round
  <2>6. Contents(l) = s
    BY <2>3, <2>4, <2>5 DEF Contents
  <2>7. Returns(l)
    BY <2>3, <2>4 DEF Returns
  <2>8. Cells(l) = {s[k] : k \in 1 .. Len(s)}
    <3>1. \A k \in 1 .. Len(s) : Walk(l)[k] = s[k]
      BY <2>3, <2>4
    <3> QED
      BY <2>3, <2>5, <3>1 DEF Cells
  <2> QED
    BY <2>1, <2>3, <2>5, <2>6, <2>7, <2>8
<1>2. Rings = q
  BY <1>1 DEF Rings, Threaded
<1> QED
  BY <1>1, <1>2

(* The same of the state after a step.                                     *)
LEMMA WalksFindNext ==
  ASSUME NEW q, Threaded(next', q)
  PROVE  Rings' = q /\ \A l \in List : Contents(l)' = q[l]
<1>1. ASSUME NEW l \in List
      PROVE  Contents(l)' = q[l]
  <2>1. PICK s : s = q[l]
    OBVIOUS
  <2>2. Ring(next', l, s) /\ \A j, k \in 1 .. Len(s) : s[j] = s[k] => j = k
    BY <2>1 DEF Threaded, Apart
  <2>3. PICK f : f = next'
    OBVIOUS
  <2>4. s = [k \in 1 .. Count(f, l) |-> Orbit(f, l)[k]]
    BY <2>2, <2>3, CountOfRing
  <2>5. Walk(l)' = Orbit(f, l)
    BY <2>3 DEF Walk, Orbit
  <2>6. gc_count(l)' = Count(f, l)
    BY <2>5 DEF gc_count, Count, Round
  <2> QED
    BY <2>1, <2>4, <2>5, <2>6 DEF Contents
<1>2. Rings' = q
  BY <1>1 DEF Rings, Threaded
<1> QED
  BY <1>1, <1>2

(* The state after a step has the lists q, of the cached sizes.            *)
Leaves(q) ==
  /\ Threaded(next', q)
  /\ \A l \in List : size'[l] = Len(q[l])

LEMMA ListsStay ==
  ASSUME ListsInv, [Next]_vars, NEW q, Leaves(q)
  PROVE  ListsInv' /\ Rings' = q
<1>1. LinksOK'
  BY LinksStep DEF ListsInv
<1>2. Rings' = q /\ \A l \in List : Contents(l)' = q[l]
  BY WalksFindNext DEF Leaves
<1>3. Threaded(next', Rings')
  BY <1>2 DEF Leaves
<1> QED
  BY <1>1, <1>2, <1>3 DEF ListsInv, Leaves

(* What is known of a list before a step.                                  *)
LEMMA ListFacts ==
  ASSUME ListsInv, NEW l \in List
  PROVE  /\ Contents(l) = Rings[l] /\ Rings[l] \in Seq(Item) /\ Len(Rings[l]) \in Nat
         /\ size[l] = Len(Rings[l])
         /\ \A k \in 0 .. Len(Rings[l]) :
              /\ next[At(l, Rings[l], k)] = At(l, Rings[l], k + 1)
              /\ prev[At(l, Rings[l], k + 1)] = At(l, Rings[l], k)
         /\ At(l, Rings[l], 0) = l /\ At(l, Rings[l], Len(Rings[l]) + 1) = l
         /\ \A k \in 1 .. Len(Rings[l]) :
              At(l, Rings[l], k) = Rings[l][k] /\ Rings[l][k] \in Item
<1>1. Threaded(next, Rings) /\ Contents(l) = Rings[l]
  BY DEF ListsInv, Rings
<1>2. PICK s : s = Rings[l]
  OBVIOUS
<1>3. /\ s \in Seq(Item) /\ Len(s) \in Nat
      /\ At(l, s, 0) = l /\ At(l, s, Len(s) + 1) = l
      /\ \A k \in 1 .. Len(s) : s[k] \in Item /\ At(l, s, k) = s[k]
      /\ \A k : At(l, s, k) \in Node
      /\ \A k \in 0 .. Len(s) : next[At(l, s, k)] = At(l, s, k + 1)
  <2>1. Ring(next, l, s)
    BY <1>1, <1>2 DEF Threaded
  <2> QED
    BY <2>1, RingFacts, RingNodes
<1>4. \A k \in 0 .. Len(s) : prev[At(l, s, k + 1)] = At(l, s, k)
  BY <1>3 DEF ListsInv, LinksOK, LinksInverse
<1>5. size[l] = Len(s)
  BY <1>1, <1>2 DEF ListsInv
<1> QED
  BY <1>1, <1>2, <1>3, <1>4, <1>5

(* A detached cell is on no list.                                          *)
LEMMA DetachedUnlisted ==
  ASSUME ListsInv, NEW i \in Item, Detached(i)
  PROVE  Unlisted(Rings, i)
<1> SUFFICES ASSUME NEW m \in List, NEW k \in 1 .. Len(Rings[m]), Rings[m][k] = i
             PROVE  FALSE
  BY DEF Unlisted
<1>1. PICK s : s = Rings[m]
  OBVIOUS
<1>2. Threaded(next, Rings)
  BY DEF ListsInv
<1>3. /\ Len(s) \in Nat /\ k \in 1 .. Len(s) /\ At(m, s, k) = i
      /\ At(m, s, Len(s) + 1) = m
      /\ next[At(m, s, k)] = At(m, s, k + 1)
  BY <1>1, <1>2, ThreadFacts
<1>4. At(m, s, k + 1) = i
  BY <1>3 DEF Detached
<1>5. CASE k = Len(s)
  BY <1>3, <1>4, <1>5, ListItemAssumption
<1>6. CASE k # Len(s)
  <2>1. PICK j : j = k + 1
    OBVIOUS
  <2>2. j \in 1 .. Len(s) /\ j # k
    BY <1>3, <1>6, <2>1
  <2>3. s[j] = s[k]
    BY <1>3, <1>4, <2>1, <2>2 DEF At
  <2>4. Apart(Rings)
    BY <1>2 DEF Threaded
  <2> QED
    BY <1>1, <1>3, <2>2, <2>3, <2>4, ListedApart
<1> QED
  BY <1>5, <1>6

-----------------------------------------------------------------------------
(***************************************************************************)
(* What each operation does to the lists.                                  *)
(***************************************************************************)
LEMMA PushLists ==
  ASSUME ListsInv, NEW l \in List, NEW i \in Item, gc_push(l, i)
  PROVE  /\ Unlisted(Rings, i)
         /\ Leaves([Rings EXCEPT ![l] = <<i>> \o @])
<1>1. PICK s : s = Rings[l]
  OBVIOUS
<1>2. /\ s \in Seq(Item) /\ Len(s) \in Nat /\ size[l] = Len(s)
      /\ At(l, s, 0) = l /\ next[l] = At(l, s, 1)
  <2>1. 0 \in 0 .. Len(Rings[l])
    BY ListFacts
  <2> QED
    BY <1>1, <2>1, ListFacts
<1>3. Unlisted(Rings, i) /\ Threaded(next, Rings)
  BY DetachedUnlisted DEF gc_push, ListsInv
<1>4. PICK g : g = next'
  OBVIOUS
<1>5. LinksIn(next, g, l, s, 1, i)
  <2>2. l \in Node /\ i \in Node /\ l # i /\ DOMAIN next = Node
    BY ListItemAssumption DEF Node, ListsInv, LinksOK, TypeOK
  <2>1. g = [next EXCEPT ![i] = next[l], ![l] = i]
    BY <1>4, <2>2, InsertAfterWrites DEF gc_push, ListsInv, LinksOK
  <2>3. g[l] = i /\ g[i] = next[l] /\ \A n \in Node : n # i /\ n # l => g[n] = next[n]
    BY <2>1, <2>2
  <2> QED
    BY <1>2, <2>3 DEF LinksIn
<1>6. 1 \in 1 .. Len(s) + 1
  BY <1>2
<1>7. Threaded(g, [Rings EXCEPT ![l] = Inserted(Rings[l], 1, i)])
  BY <1>1, <1>3, <1>5, <1>6, ThreadInsert
<1>8. Inserted(Rings[l], 1, i) = <<i>> \o Rings[l] /\ Len(<<i>> \o s) = Len(s) + 1
  <2>1. <<i>> \in Seq(Item) /\ Len(<<i>>) = 1
    OBVIOUS
  <2>2. Len(<<i>> \o s) = 1 + Len(s)
    BY <1>2, <2>1, ConcatProperties
  <2> QED
    BY <1>1, <1>2, <2>2, InsertedFirst
<1>9. PICK r : r = [Rings EXCEPT ![l] = <<i>> \o @]
  OBVIOUS
<1>10. Threaded(next', r)
  BY <1>4, <1>7, <1>8, <1>9
<1>11. ASSUME NEW m \in List
       PROVE  size'[m] = Len(r[m])
  <2>1. size' = [size EXCEPT ![l] = @ + 1] /\ DOMAIN size = List /\ DOMAIN Rings = List
    BY DEF gc_push, ListsInv, LinksOK, TypeOK, Rings
  <2>2. CASE m = l
    BY <1>1, <1>2, <1>8, <1>9, <2>1, <2>2
  <2>3. CASE m # l
    BY <1>9, <2>1, <2>3, ListFacts
  <2> QED
    BY <2>2, <2>3
<1> QED
  BY <1>3, <1>9, <1>10, <1>11 DEF Leaves

LEMMA PutLists ==
  ASSUME ListsInv, NEW l \in List, NEW i \in Item, gc_put(l, i)
  PROVE  /\ Unlisted(Rings, i)
         /\ Leaves([Rings EXCEPT ![l] = Append(@, i)])
<1>1. PICK s : s = Rings[l]
  OBVIOUS
<1>2. /\ s \in Seq(Item) /\ Len(s) \in Nat /\ size[l] = Len(s)
      /\ At(l, s, Len(s) + 1) = l /\ prev[l] = At(l, s, Len(s))
  <2>1. Len(Rings[l]) \in 0 .. Len(Rings[l])
    BY ListFacts
  <2> QED
    BY <1>1, <2>1, ListFacts
<1>3. Unlisted(Rings, i) /\ Threaded(next, Rings)
  BY DetachedUnlisted DEF gc_put, ListsInv
<1>4. PICK g : g = next'
  OBVIOUS
<1>5. LinksIn(next, g, l, s, Len(s) + 1, i)
  <2>1. PICK p : p = At(l, s, Len(s))
    OBVIOUS
  <2>2. g = [next EXCEPT ![i] = l, ![p] = i]
    BY <1>2, <1>4, <2>1, ListItemAssumption, InsertBeforeWrites DEF gc_put, ListsInv, LinksOK, Node
  <2>3. p \in Node /\ i \in Node /\ p # i /\ DOMAIN next = Node
    <3>1. p \in Node
      <4>1. l \in Node /\ p = prev[l]
        BY <1>2, <2>1 DEF Node
      <4> QED
        BY <4>1 DEF ListsInv, LinksOK, TypeOK
    <3>2. p # i
      BY <1>1, <1>3, <2>1, UnlistedNode
    <3> QED
      BY <3>1, <3>2 DEF Node, ListsInv, LinksOK, TypeOK
  <2>4. g[p] = i /\ g[i] = l /\ \A n \in Node : n # i /\ n # p => g[n] = next[n]
    BY <2>2, <2>3
  <2>5. Len(s) + 1 - 1 = Len(s)
    BY <1>2
  <2> QED
    BY <1>2, <2>1, <2>4, <2>5 DEF LinksIn
<1>6. Len(s) + 1 \in 1 .. Len(s) + 1
  BY <1>2
<1>7. Threaded(g, [Rings EXCEPT ![l] = Inserted(s, Len(s) + 1, i)])
  <2>1. PICK at : at = Len(s) + 1
    OBVIOUS
  <2>2. at \in 1 .. Len(Rings[l]) + 1 /\ LinksIn(next, g, l, Rings[l], at, i)
    BY <1>1, <1>5, <1>6, <2>1
  <2>3. Threaded(g, [Rings EXCEPT ![l] = Inserted(Rings[l], at, i)])
    BY <1>3, <2>2, ThreadInsert
  <2> QED
    BY <1>1, <2>1, <2>3
<1>8. Inserted(s, Len(s) + 1, i) = Append(s, i) /\ Len(Append(s, i)) = Len(s) + 1
  BY <1>2, InsertedLast, AppendProperties
<1>9. PICK r : r = [Rings EXCEPT ![l] = Append(@, i)]
  OBVIOUS
<1>10. Threaded(next', r)
  BY <1>1, <1>4, <1>7, <1>8, <1>9
<1>11. ASSUME NEW m \in List
       PROVE  size'[m] = Len(r[m])
  <2>1. size' = [size EXCEPT ![l] = @ + 1] /\ DOMAIN size = List /\ DOMAIN Rings = List
    BY DEF gc_put, ListsInv, LinksOK, TypeOK, Rings
  <2>2. CASE m = l
    BY <1>1, <1>2, <1>8, <1>9, <2>1, <2>2
  <2>3. CASE m # l
    BY <1>9, <2>1, <2>3, ListFacts
  <2> QED
    BY <2>2, <2>3
<1> QED
  BY <1>3, <1>9, <1>10, <1>11 DEF Leaves

(* The cell at a place of a list is extracted and not counted any more.    *)
LEMMA ExtractLists ==
  ASSUME ListsInv, NEW l \in List, NEW at \in 1 .. Len(Rings[l]),
         gc_extract(Rings[l][at]), size' = [size EXCEPT ![l] = @ - 1]
  PROVE  Leaves([Rings EXCEPT ![l] = Removed(@, at)])
<1>1. PICK s : s = Rings[l]
  OBVIOUS
<1>2. PICK i, before, after : /\ i = s[at] /\ before = At(l, s, at - 1)
                              /\ after = At(l, s, at + 1)
  OBVIOUS
<1>3. /\ s \in Seq(Item) /\ Len(s) \in Nat /\ size[l] = Len(s)
      /\ at \in 1 .. Len(s) /\ at \in 0 .. Len(s) /\ at - 1 \in 0 .. Len(s)
      /\ (at - 1) + 1 = at
  BY <1>1, ListFacts
<1>4. i \in Item /\ At(l, s, at) = i /\ prev[i] = before /\ next[i] = after
  <2>1. i \in Item /\ At(l, s, at) = i
    BY <1>1, <1>2, <1>3, ListFacts
  <2>2. next[At(l, s, at)] = At(l, s, at + 1)
    BY <1>1, <1>3, ListFacts
  <2>3. PICK k \in 0 .. Len(Rings[l]) : k = at - 1
    BY <1>1, <1>3
  <2>4. prev[At(l, s, k + 1)] = At(l, s, k)
    BY <1>1, ListFacts
  <2> QED
    BY <1>2, <1>3, <2>1, <2>2, <2>3, <2>4
<1>5. PICK g : g = next'
  OBVIOUS
<1>6. Threaded(next, Rings)
  BY DEF ListsInv
<1>7. before # i /\ before \in Node /\ i \in Node /\ DOMAIN next = Node
  <2>1. PICK j, k \in 0 .. Len(Rings[l]) : j = at - 1 /\ k = at
    BY <1>1, <1>3
  <2>2. At(l, Rings[l], j) # At(l, Rings[l], k)
    BY <1>6, <2>1, NodesApart
  <2>3. before # i
    BY <1>1, <1>2, <1>4, <2>1, <2>2
  <2>4. i \in Node /\ before \in Node
    BY <1>4 DEF Node, ListsInv, LinksOK, TypeOK
  <2> QED
    BY <2>3, <2>4 DEF ListsInv, LinksOK, TypeOK
<1>8. LinksOut(next, g, l, s, at)
  <2>1. g = [next EXCEPT ![before] = after, ![i] = i]
    BY <1>1, <1>2, <1>4, <1>5, <1>7, ExtractWrites DEF ListsInv, LinksOK
  <2>2. g[before] = after /\ \A n \in Node : n # before /\ n # i => g[n] = next[n]
    BY <1>7, <2>1
  <2> QED
    BY <1>2, <2>2 DEF LinksOut
<1>9. Threaded(g, [Rings EXCEPT ![l] = Removed(Rings[l], at)])
  BY <1>1, <1>6, <1>8, ThreadRemove
<1>10. PICK r : r = [Rings EXCEPT ![l] = Removed(@, at)]
  OBVIOUS
<1>11. Threaded(next', r)
  BY <1>5, <1>9, <1>10
<1>12. Len(Removed(s, at)) = Len(s) - 1
  BY <1>3, RemovedFacts DEF Omits
<1>13. ASSUME NEW m \in List
       PROVE  size'[m] = Len(r[m])
  <2>1. DOMAIN size = List /\ DOMAIN Rings = List
    BY DEF ListsInv, LinksOK, TypeOK, Rings
  <2>2. CASE m = l
    BY <1>1, <1>3, <1>10, <1>12, <2>1, <2>2
  <2>3. CASE m # l
    BY <1>10, <2>1, <2>3, ListFacts
  <2> QED
    BY <2>2, <2>3
<1> QED
  BY <1>10, <1>11, <1>13 DEF Leaves

LEMMA PopLists ==
  ASSUME ListsInv, NEW l \in List, gc_pop(l)
  PROVE  Rings[l] # << >> /\ Leaves([Rings EXCEPT ![l] = Tail(@)])
<1>1. PICK s : s = Rings[l]
  OBVIOUS
<1>2. s \in Seq(Item) /\ Len(s) \in Nat /\ next[l] = At(l, s, 1)
  <2>1. 0 \in 0 .. Len(Rings[l])
    BY ListFacts
  <2> QED
    BY <1>1, <2>1, ListFacts
<1>3. Len(s) # 0
  BY <1>2 DEF gc_pop, At
<1>4. 1 \in 1 .. Len(s) /\ next[l] = s[1] /\ s # << >>
  BY <1>2, <1>3 DEF At
<1>5. gc_extract(Rings[l][1]) /\ size' = [size EXCEPT ![l] = @ - 1]
  BY <1>1, <1>4 DEF gc_pop
<1>6. Leaves([Rings EXCEPT ![l] = Removed(Rings[l], 1)])
  BY <1>1, <1>4, <1>5, ExtractLists
<1>7. Removed(Rings[l], 1) = Tail(Rings[l])
  BY <1>1, <1>2, <1>3, RemovedFirst
<1> QED
  BY <1>1, <1>4, <1>6, <1>7

LEMMA PullLists ==
  ASSUME ListsInv, NEW l \in List, gc_pull(l)
  PROVE  Rings[l] # << >> /\ Leaves([Rings EXCEPT ![l] = SubSeq(@, 1, Len(@) - 1)])
<1>1. PICK s : s = Rings[l]
  OBVIOUS
<1>2. s \in Seq(Item) /\ Len(s) \in Nat /\ prev[l] = At(l, s, Len(s)) /\ At(l, s, 0) = l
  <2>1. Len(Rings[l]) \in 0 .. Len(Rings[l])
    BY ListFacts
  <2> QED
    BY <1>1, <2>1, ListFacts
<1>3. Len(s) # 0
  BY <1>2 DEF gc_pull
<1>4. Len(s) \in 1 .. Len(s) /\ prev[l] = s[Len(s)] /\ s # << >>
  BY <1>2, <1>3 DEF At
<1>5. PICK at : at = Len(s)
  OBVIOUS
<1>6. gc_extract(Rings[l][at]) /\ size' = [size EXCEPT ![l] = @ - 1]
  BY <1>1, <1>4, <1>5 DEF gc_pull
<1>7. Leaves([Rings EXCEPT ![l] = Removed(Rings[l], at)])
  BY <1>1, <1>4, <1>5, <1>6, ExtractLists
<1>8. Removed(Rings[l], at) = SubSeq(Rings[l], 1, Len(Rings[l]) - 1)
  BY <1>1, <1>2, <1>3, <1>5, RemovedLast
<1> QED
  BY <1>1, <1>4, <1>7, <1>8

LEMMA TakeLists ==
  ASSUME ListsInv, NEW l \in List, NEW i \in Item, TakeFrom(l, i)
  PROVE  \E k \in DOMAIN Rings[l] :
           /\ Rings[l][k] = i
           /\ Leaves([Rings EXCEPT ![l] = SubSeq(@, 1, k - 1) \o SubSeq(@, k + 1, Len(@))])
<1>1. Cells(l) = {Rings[l][k] : k \in 1 .. Len(Rings[l])}
  BY WalksFind DEF ListsInv
<1>2. PICK at \in 1 .. Len(Rings[l]) : Rings[l][at] = i
  BY <1>1 DEF TakeFrom
<1>3. Leaves([Rings EXCEPT ![l] = Removed(Rings[l], at)])
  BY <1>2, ExtractLists DEF TakeFrom
<1>4. PICK s : s = Rings[l] /\ s \in Seq(Item)
  BY ListFacts
<1>5. Removed(s, at) = SubSeq(s, 1, at - 1) \o SubSeq(s, at + 1, Len(s))
  BY <1>4, RemovedAt
<1>6. at \in DOMAIN s
  BY <1>4, LenProperties
<1> QED
  BY <1>2, <1>3, <1>4, <1>5, <1>6

LEMMA AppendLists ==
  ASSUME ListsInv, NEW to \in List, NEW from \in List, to # from,
         gc_append_list(to, from)
  PROVE  Leaves([Rings EXCEPT ![to] = @ \o Rings[from], ![from] = << >>])
<1>1. PICK s, t : s = Rings[to] /\ t = Rings[from]
  OBVIOUS
<1>2. PICK a, b : a = At(to, s, Len(s)) /\ b = At(from, t, Len(t))
  OBVIOUS
<1>3. s \in Seq(Item) /\ Len(s) \in Nat /\ size[to] = Len(s) /\ prev[to] = a
  <2>1. Len(Rings[to]) \in 0 .. Len(Rings[to])
    BY ListFacts
  <2> QED
    BY <1>1, <1>2, <2>1, ListFacts
<1>4. /\ t \in Seq(Item) /\ Len(t) \in Nat /\ size[from] = Len(t) /\ prev[from] = b
      /\ At(from, t, 0) = from /\ next[from] = At(from, t, 1)
  <2>1. Len(Rings[from]) \in 0 .. Len(Rings[from]) /\ 0 \in 0 .. Len(Rings[from])
    BY ListFacts
  <2> QED
    BY <1>1, <1>2, <2>1, ListFacts
<1>5. Len(t) # 0 /\ next[from] = t[1]
  BY <1>4 DEF gc_append_list, At
<1>6. Threaded(next, Rings)
  BY DEF ListsInv
<1>7. a # b /\ a # from /\ b # from
  <2>1. PICK i \in 0 .. Len(Rings[to]) : i = Len(s)
    BY <1>1, <1>3
  <2>2. PICK j, k \in 0 .. Len(Rings[from]) : j = Len(t) /\ k = 0
    BY <1>1, <1>4
  <2>3. At(to, Rings[to], i) # At(from, Rings[from], j)
    BY <1>6, NodesApart
  <2>4. At(to, Rings[to], i) # At(from, Rings[from], k)
    BY <1>6, NodesApart
  <2>5. At(from, Rings[from], j) # At(from, Rings[from], k)
    BY <1>5, <1>6, <2>2, NodesApart
  <2> QED
    BY <1>1, <1>2, <1>4, <2>1, <2>2, <2>3, <2>4, <2>5
<1>8. a \in Node /\ b \in Node /\ from \in Node /\ DOMAIN next = Node
  <2>1. to \in Node /\ from \in Node
    BY DEF Node
  <2> QED
    BY <1>3, <1>4, <2>1 DEF ListsInv, LinksOK, TypeOK
<1>9. PICK g : g = next'
  OBVIOUS
<1>10. LinksUp(next, g, to, s, from, t)
  <2>1. g = [next EXCEPT ![b] = to, ![a] = t[1], ![from] = from]
    BY <1>3, <1>4, <1>5, <1>9, AppendWrites DEF ListsInv
  <2>2. /\ g[a] = t[1] /\ g[b] = to /\ g[from] = from
        /\ \A n \in Node : n # a /\ n # b /\ n # from => g[n] = next[n]
    BY <1>7, <1>8, <2>1
  <2> QED
    BY <1>2, <2>2 DEF LinksUp
<1>11. Threaded(g, [Rings EXCEPT ![to] = Rings[to] \o Rings[from], ![from] = << >>])
  BY <1>1, <1>5, <1>6, <1>10, ThreadAppend
<1>12. PICK r : r = [Rings EXCEPT ![to] = @ \o Rings[from], ![from] = << >>]
  OBVIOUS
<1>13. Threaded(next', r)
  BY <1>9, <1>11, <1>12
<1>14. Len(s \o t) = Len(s) + Len(t)
  BY <1>3, <1>4, ConcatProperties
<1>15. ASSUME NEW m \in List
       PROVE  size'[m] = Len(r[m])
  <2>1. /\ size' = [size EXCEPT ![to] = @ + size[from], ![from] = 0]
        /\ DOMAIN size = List /\ DOMAIN Rings = List
    BY DEF gc_append_list, ListsInv, LinksOK, TypeOK, Rings
  <2>2. CASE m = to
    BY <1>1, <1>3, <1>4, <1>12, <1>14, <2>1, <2>2
  <2>3. CASE m = from
    BY <1>12, <2>1, <2>3
  <2>4. CASE m # to /\ m # from
    BY <1>12, <2>1, <2>4, ListFacts
  <2> QED
    BY <2>2, <2>3, <2>4
<1> QED
  BY <1>12, <1>13, <1>15 DEF Leaves

-----------------------------------------------------------------------------
(***************************************************************************)
(* The invariant, and what follows from it.                                *)
(***************************************************************************)
LEMMA ListsStart ==
  ASSUME Init
  PROVE  ListsInv /\ Rings = [l \in List |-> << >>]
<1>1. LinksOK
  BY DEF Init, gc_initialize, LinksOK, TypeOK, LinksInverse
<1>2. PICK q : q = [l \in List |-> << >>]
  OBVIOUS
<1>3. ASSUME NEW l \in List
      PROVE  q[l] = << >> /\ Ring(next, l, q[l])
  <2>1. next[l] = l
    BY DEF Init, gc_initialize, Node
  <2> QED
    BY <1>2, <2>1, EmptyRing
<1>4. Threaded(next, q)
  <2>1. Apart(q)
    BY <1>3 DEF Apart
  <2> QED
    BY <1>2, <1>3, <2>1 DEF Threaded
<1>5. Rings = q /\ \A l \in List : Contents(l) = q[l]
  BY <1>4, WalksFind
<1>6. \A l \in List : size[l] = Len(Contents(l))
  BY <1>3, <1>5 DEF Init, gc_initialize
<1> QED
  BY <1>1, <1>2, <1>4, <1>5, <1>6 DEF ListsInv

LEMMA UnlistedIsNotListed ==
  ASSUME ListsInv, NEW i, Unlisted(Rings, i)
  PROVE  i \notin D!Listed
<1> SUFFICES ASSUME NEW l \in List, i \in D!ToSet(Contents(l))
             PROVE  FALSE
  BY DEF D!Listed
<1>1. PICK k \in DOMAIN Rings[l] : Rings[l][k] = i
  BY ListFacts DEF D!ToSet
<1>2. k \in 1 .. Len(Rings[l])
  BY ListFacts, LenProperties
<1> QED
  BY <1>1, <1>2 DEF Unlisted

(* Each operation is the one of Deques that its name says.                 *)
LEMMA PushIsPushFront ==
  ASSUME ListsInv, [Next]_vars, NEW l \in List, NEW i \in Item, gc_push(l, i)
  PROVE  ListsInv' /\ D!PushFront(l, i)
<1>1. Unlisted(Rings, i) /\ Leaves([Rings EXCEPT ![l] = <<i>> \o @])
  BY PushLists
<1>2. ListsInv' /\ Rings' = [Rings EXCEPT ![l] = <<i>> \o @]
  BY <1>1, ListsStay
<1>3. i \notin D!Listed
  BY <1>1, UnlistedIsNotListed
<1> QED
  BY <1>2, <1>3 DEF D!PushFront, Rings

LEMMA PutIsPushBack ==
  ASSUME ListsInv, [Next]_vars, NEW l \in List, NEW i \in Item, gc_put(l, i)
  PROVE  ListsInv' /\ D!PushBack(l, i)
<1>1. Unlisted(Rings, i) /\ Leaves([Rings EXCEPT ![l] = Append(@, i)])
  BY PutLists
<1>2. ListsInv' /\ Rings' = [Rings EXCEPT ![l] = Append(@, i)]
  BY <1>1, ListsStay
<1>3. i \notin D!Listed
  BY <1>1, UnlistedIsNotListed
<1> QED
  BY <1>2, <1>3 DEF D!PushBack, Rings

LEMMA PopIsPopFront ==
  ASSUME ListsInv, [Next]_vars, NEW l \in List, gc_pop(l)
  PROVE  ListsInv' /\ D!PopFront(l)
BY PopLists, ListsStay DEF D!PopFront, Rings

LEMMA PullIsPopBack ==
  ASSUME ListsInv, [Next]_vars, NEW l \in List, gc_pull(l)
  PROVE  ListsInv' /\ D!PopBack(l)
BY PullLists, ListsStay DEF D!PopBack, D!Front, Rings

LEMMA TakeFromIsTake ==
  ASSUME ListsInv, [Next]_vars, NEW l \in List, NEW i \in Item, TakeFrom(l, i)
  PROVE  ListsInv' /\ D!Take(l, i)
<1>1. PICK k \in DOMAIN Rings[l] :
        /\ Rings[l][k] = i
        /\ Leaves([Rings EXCEPT ![l] = SubSeq(@, 1, k - 1) \o SubSeq(@, k + 1, Len(@))])
  BY TakeLists
<1>2. /\ ListsInv'
      /\ Rings' = [Rings EXCEPT ![l] = SubSeq(@, 1, k - 1) \o SubSeq(@, k + 1, Len(@))]
  BY <1>1, ListsStay
<1> QED
  BY <1>1, <1>2 DEF D!Take, D!RemoveAt, Rings

LEMMA AppendIsConcatenate ==
  ASSUME ListsInv, [Next]_vars, NEW to \in List, NEW from \in List, to # from,
         gc_append_list(to, from)
  PROVE  ListsInv' /\ D!Concatenate(to, from)
BY AppendLists, ListsStay DEF D!Concatenate, Rings

(* A step of the lists is a step of Deques.                                *)
LEMMA ListsStep ==
  ASSUME ListsInv, [Next]_vars
  PROVE  ListsInv' /\ [D!Next]_Rings
<1>1. ASSUME NEW l \in List, gc_pop(l) \/ gc_pull(l)
      PROVE  ListsInv' /\ [D!Next]_Rings
  BY <1>1, PopIsPopFront, PullIsPopBack DEF D!Next, Rings
<1>2. ASSUME NEW l \in List, NEW i \in Item, gc_push(l, i) \/ gc_put(l, i) \/ TakeFrom(l, i)
      PROVE  ListsInv' /\ [D!Next]_Rings
  BY <1>2, PushIsPushFront, PutIsPushBack, TakeFromIsTake DEF D!Next, Rings
<1>3. ASSUME NEW to \in List, NEW from \in List, to # from, gc_append_list(to, from)
      PROVE  ListsInv' /\ [D!Next]_Rings
  BY <1>3, AppendIsConcatenate DEF D!Next, Rings
<1>4. CASE UNCHANGED vars
  <2>1. Leaves(Rings)
    BY <1>4, ListFacts DEF Leaves, ListsInv, vars
  <2> QED
    BY <2>1, ListsStay
<1> QED
  BY <1>1, <1>2, <1>3, <1>4 DEF Next

(* The inductive invariant of the lists: the links are inverse of each     *)
(* other, from every head they lead round a sequence of cells and back, no *)
(* cell is on two lists or twice on one, and the sizes are the lengths.    *)
THEOREM ListsInvariant == Spec => []ListsInv
<1>1. Init => ListsInv
  BY ListsStart
<1>2. ListsInv /\ [Next]_vars => ListsInv'
  BY ListsStep
<1> QED
  BY <1>1, <1>2, PTL DEF Spec

(* Every list closes on its head and has the length that GC_SIZE caches,   *)
(* after any operations in any order: the walk of gc_sanity_check ends     *)
(* and its last assertion holds.                                           *)
THEOREM SizesAreTrue == Spec => []gc_sanity_check
<1>1. ListsInv => gc_sanity_check
  <2> SUFFICES ASSUME ListsInv, NEW l \in List
               PROVE  Returns(l) /\ size[l] = gc_count(l)
    BY DEF gc_sanity_check
  <2>1. gc_count(l) = Len(Rings[l]) /\ Returns(l)
    BY WalksFind DEF ListsInv
  <2> QED
    BY <2>1, ListFacts
<1> QED
  BY <1>1, ListsInvariant, PTL

(* The pointer assignments of gc.c keep sequences of cells, disjoint from  *)
(* one another: each step is a step of Deques on what the lists contain,   *)
(* so no operation loses a cell or moves one of another list.              *)
THEOREM DequesAreImplemented == Spec => ImplementsDeques
<1>1. Init => D!Init
  BY ListsStart DEF D!Init, Rings
<1>2. ListsInv /\ [Next]_vars => [D!Next]_Rings
  BY ListsStep
<1>3. ListsInv /\ [Next]_vars => [D!Next]_([l \in List |-> Contents(l)])
  BY <1>2 DEF Rings
<1> QED
  BY <1>1, <1>3, ListsInvariant, PTL DEF Spec, ImplementsDeques, D!Spec

(* Push and pop work on the front of a list, put and pull on its back, and *)
(* appending keeps the order of both lists.                                *)
THEOREM ListOperationsAreNamed == Spec => OperationsAsNamed
<1> DEFINE Named ==
      /\ \A l \in List, i \in Item :
           /\ gc_push(l, i) => D!PushFront(l, i)
           /\ gc_put(l, i) => D!PushBack(l, i)
      /\ \A l \in List :
           /\ gc_pop(l) => D!PopFront(l)
           /\ gc_pull(l) => D!PopBack(l)
      /\ \A to, from \in List :
           to # from /\ gc_append_list(to, from) => D!Concatenate(to, from)
<1>1. ListsInv /\ [Next]_vars => Named
  BY PushIsPushFront, PutIsPushBack, PopIsPopFront, PullIsPopBack, AppendIsConcatenate
<1>2. ListsInv /\ [Next]_vars => [Named]_vars
  BY <1>1
<1> QED
  BY <1>2, ListsInvariant, PTL DEF Spec, OperationsAsNamed

=============================================================================
