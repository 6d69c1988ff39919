------------------------------- MODULE GcLists -------------------------------
(***************************************************************************)
(* The circular doubly linked lists of gc.c at the level of its pointers:  *)
(* GC_NEXT and GC_PREV of every list head and every cell, and the length   *)
(* cached in the head (GC_SIZE).  A cell that is on no list points to      *)
(* itself, as gc_extract leaves it "for safety"; cells enter a list only   *)
(* from that state.                                                        *)
(*                                                                         *)
(* An operation is a sequence of pointer assignments, one after another as *)
(* in the code: next1 and prev1 are the links after the first assignment   *)
(* to each field, which those behind it read, next2 and prev2 after the    *)
(* second one.                                                             *)
(***************************************************************************)
EXTENDS Integers, FiniteSets

CONSTANTS
  List,  \* the list heads (AGED, SCAN, FRESH, FREE, PERM)
  Item   \* the cells

ASSUME ListItemAssumption == List \cap Item = {} /\ IsFiniteSet(Item)

Node == List \cup Item

VARIABLES
  next,  \* GC_NEXT
  prev,  \* GC_PREV
  size   \* GC_SIZE of each head

links == <<next, prev>>
vars == <<next, prev, size>>

gc_initialize ==
  /\ next = [n \in Node |-> n]
  /\ prev = [n \in Node |-> n]
  /\ size = [l \in List |-> 0]

Detached(i) == next[i] = i /\ prev[i] = i

-----------------------------------------------------------------------------
(* Operators named Faulty... are mistakes used to validate the properties. *)
Faulty_gc_insert_before(p, item) ==
  LET next1 == [next EXCEPT ![item] = p]
      prev1 == [prev EXCEPT ![item] = prev[p]]
      prev2 == [prev1 EXCEPT ![p] = item]
      next2 == [next1 EXCEPT ![prev2[p]] = item]  \* too late
  IN next' = next2 /\ prev' = prev2

gc_insert_before(p, item) ==
  LET next1 == [next EXCEPT ![item] = p]
      prev1 == [prev EXCEPT ![item] = prev[p]]
      next2 == [next1 EXCEPT ![prev1[p]] = item]
      prev2 == [prev1 EXCEPT ![p] = item]
  IN next' = next2 /\ prev' = prev2

Faulty_gc_insert_after(p, item) == gc_insert_before(p, item)

gc_insert_after(p, item) ==
  LET prev1 == [prev EXCEPT ![item] = p]
      next1 == [next EXCEPT ![item] = next[p]]
      prev2 == [prev1 EXCEPT ![next1[p]] = item]
      next2 == [next1 EXCEPT ![p] = item]
  IN next' = next2 /\ prev' = prev2

gc_extract(item) ==
  LET next1 == [next EXCEPT ![prev[item]] = next[item]]
      prev1 == [prev EXCEPT ![next1[item]] = prev[item]]
  IN next' = [next1 EXCEPT ![item] = item] /\ prev' = [prev1 EXCEPT ![item] = item]

-----------------------------------------------------------------------------
gc_push(l, item) ==
  /\ Detached(item)
  /\ size' = [size EXCEPT ![l] = @ + 1]
  /\ gc_insert_after(l, item)

gc_put(l, item) ==
  /\ Detached(item)
  /\ size' = [size EXCEPT ![l] = @ + 1]
  /\ gc_insert_before(l, item)

gc_pop(l) ==
  /\ next[l] # l
  /\ size' = [size EXCEPT ![l] = @ - 1]
  /\ gc_extract(next[l])

gc_pull(l) ==
  /\ prev[l] # l
  /\ size' = [size EXCEPT ![l] = @ - 1]
  /\ gc_extract(prev[l])

(* Mutant: the cells of one list are put in front of those of the other.   *)
Prepend_gc_append_list(to, from) ==
  /\ next[from] # from
  /\ size' = [size EXCEPT ![to] = @ + size[from], ![from] = 0]
  /\ next' = [next EXCEPT ![prev[from]] = next[to], ![to] = next[from], ![from] = from]
  /\ prev' = [prev EXCEPT ![next[to]] = prev[from], ![next[from]] = to, ![from] = from]

(* Mutant: the size of the emptied list is kept.                           *)
Faulty_gc_append_list(to, from) ==
  /\ next[from] # from
  /\ size' = [size EXCEPT ![to] = @ + size[from]]
  /\ next' = [next EXCEPT ![prev[from]] = to, ![prev[to]] = next[from], ![from] = from]
  /\ prev' = [prev EXCEPT ![next[from]] = prev[to], ![to] = prev[from], ![from] = from]

(* An empty list is appended by leaving everything alone, sizes included.  *)
gc_append_list(to, from) ==
  /\ next[from] # from
  /\ size' = [size EXCEPT ![to] = @ + size[from], ![from] = 0]
  /\ LET next1 == [next EXCEPT ![prev[from]] = to]
         prev1 == [prev EXCEPT ![next1[from]] = prev[to]]
         next2 == [next1 EXCEPT ![prev1[to]] = next1[from]]
         prev2 == [prev1 EXCEPT ![to] = prev1[from]]
     IN next' = [next2 EXCEPT ![from] = from] /\ prev' = [prev2 EXCEPT ![from] = from]

-----------------------------------------------------------------------------
(* The node that k steps along GC_NEXT lead to from list head l.           *)
Walk(l) ==
  LET step[k \in Nat] == IF k = 0 THEN l ELSE next[step[k - 1]] IN step

(* The number of steps before the walk is back at the head.                *)
gc_count(l) ==
  CHOOSE n \in 0 .. Cardinality(Item) :
    /\ Walk(l)[n + 1] = l
    /\ \A k \in 1 .. n : Walk(l)[k] # l

Returns(l) == \E n \in 0 .. Cardinality(Item) : Walk(l)[n + 1] = l

Contents(l) == [k \in 1 .. gc_count(l) |-> Walk(l)[k]]

Cells(l) == {Walk(l)[k] : k \in 1 .. gc_count(l)}

(* gc_scan_cell takes a cell from AGED, wherever it is in the list.        *)
TakeFrom(l, item) ==
  /\ item \in Cells(l)
  /\ size' = [size EXCEPT ![l] = @ - 1]
  /\ gc_extract(item)

Init == gc_initialize

Next ==
  \/ \E l \in List : gc_pop(l) \/ gc_pull(l)
  \/ \E l \in List, i \in Item : gc_push(l, i) \/ gc_put(l, i) \/ TakeFrom(l, i)
  \/ \E to, from \in List : to # from /\ gc_append_list(to, from)

Spec == Init /\ [][Next]_vars

-----------------------------------------------------------------------------
TypeOK ==
  /\ next \in [Node -> Node]
  /\ prev \in [Node -> Node]
  /\ size \in [List -> Int]

(* GC_PREV and GC_NEXT stay inverse of each other at every node            *)
(* (gc.c: assert(GC_PREV(q) == p) in gc_sanity_check).                     *)
LinksInverse == \A n \in Node : prev[next[n]] = n /\ next[prev[n]] = n

(* Every list closes on its head and has the cached length: the walk of    *)
(* gc_sanity_check ends and its last assertion holds.                      *)
gc_sanity_check == \A l \in List : Returns(l) /\ size[l] = gc_count(l)

(* The pointer operations implement sequences of cells, disjoint from one  *)
(* another: no operation on one list can lose or move a cell of another.   *)
D == INSTANCE Deques WITH contents <- [l \in List |-> Contents(l)]
ImplementsDeques == D!Spec

(* Each operation is the one its name says: push and pop work on the       *)
(* front, put and pull on the back, so what is put first is popped first.  *)
OperationsAsNamed ==
  [][/\ \A l \in List, i \in Item :
          /\ gc_push(l, i) => D!PushFront(l, i)
          /\ gc_put(l, i) => D!PushBack(l, i)
     /\ \A l \in List :
          /\ gc_pop(l) => D!PopFront(l)
          /\ gc_pull(l) => D!PopBack(l)
     /\ \A to, from \in List :
          to # from /\ gc_append_list(to, from) => D!Concatenate(to, from)]_vars
=============================================================================
