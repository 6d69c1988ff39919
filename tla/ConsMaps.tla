------------------------------- MODULE ConsMaps -------------------------------
(***************************************************************************)
(* Lists and association maps of cons.c on cells.  A value is NIL, the     *)
(* index of a cell in the store, or a datum (a number or an atom), which   *)
(* is negative here.  A map is a list of pairs of a key and a value.       *)
(*                                                                         *)
(* A function of cons.c takes a store and returns a store with a result.   *)
(* The client keeps maps in variables, so that they share cells in every   *)
(* way the operations allow.  Cells that it cannot reach any more are      *)
(* dropped and the others renumbered, which module Treadmill justifies.    *)
(***************************************************************************)
EXTENDS Integers, Sequences, FiniteSets

LOCAL INSTANCE SequencesExt
Assoc == INSTANCE AssocLists

CONSTANTS
  Datum,     \* keys and values, negative integers
  DataLists, \* bound: lists of keys or of values
  Register,  \* the client's variables, 1 .. n
  MaxCells   \* bound: cells in use

VARIABLES
  store,  \* the cells, each <<car, cdr>>
  reg     \* what each variable holds

mapVars == <<store, reg>>

Empty == 0  \* NIL
consp(p) == p >= Empty

car(s, p) == IF p = Empty THEN Empty ELSE s[p][1]
cdr(s, p) == IF p = Empty THEN Empty ELSE s[p][2]

Result(s, v) == [store |-> s, val |-> v]

(* The cells of a list, which every loop of cons.c walks along, and what   *)
(* their cars are.                                                         *)
RECURSIVE Spine(_, _)
Spine(s, p) == IF p <= Empty THEN << >> ELSE <<p>> \o Spine(s, cdr(s, p))

Cars(s, p) == LET walk == Spine(s, p) IN [i \in DOMAIN walk |-> car(s, walk[i])]

(* One cons after another: the last element comes first in the result.     *)
Pushed(s, elements, tail) ==
  Result(s \o [i \in DOMAIN elements |->
                 <<elements[i], IF i = 1 THEN tail ELSE Len(s) + i - 1>>],
         IF elements = << >> THEN tail ELSE Len(s) + Len(elements))

length(s, p) == Len(Spine(s, p))

RECURSIVE equal(_, _, _)
equal(s, x, y) ==
  \/ x = y
  \/ /\ {x, y} \cap {Empty} = {} /\ consp(x) /\ consp(y)
     /\ equal(s, car(s, x), car(s, y)) /\ equal(s, cdr(s, x), cdr(s, y))

reverse(s, p) == Pushed(s, Cars(s, p), Empty)
append(s, x, y) == Pushed(s, Reverse(Cars(s, x)), y)

RECURSIVE map_find(_, _, _)
map_find(s, m, k) ==
  IF m = Empty THEN Empty
  ELSE IF car(s, car(s, m)) = k THEN car(s, m)
  ELSE map_find(s, cdr(s, m), k)

map_get_def(s, m, k, def) ==
  LET entry == map_find(s, m, k) IN IF entry = Empty THEN def ELSE cdr(s, entry)

RECURSIVE replace(_, _, _)
replace(s, form, m) ==
  IF form = Empty THEN Result(s, Empty)
  ELSE IF map_find(s, m, form) # Empty THEN Result(s, map_get_def(s, m, form, Empty))
  ELSE IF ~consp(form) THEN Result(s, form)
  ELSE LET a == replace(s, car(s, form), m)
           d == replace(a.store, cdr(s, form), m)
       IN Pushed(d.store, <<a.val>>, d.val)

(* New pairs are pushed on m.                                              *)
map_put_each(s, m, pairs) ==
  Pushed(s \o pairs, [i \in DOMAIN pairs |-> Len(s) + i], m)

map_put(s, m, k, v) == map_put_each(s, m, <<<<k, v>>>>)

map_put_all(s, m, n) ==
  LET entries == Cars(s, n)
  IN map_put_each(s, m, [i \in DOMAIN entries |-> <<car(s, entries[i]), cdr(s, entries[i])>>])

(* The lists of keys and values are only read: sequences here.             *)
map_def(s, m, ks, vs) ==
  map_put_each(s, m, [i \in 1 .. IF Len(ks) < Len(vs) THEN Len(ks) ELSE Len(vs) |-> <<ks[i], vs[i]>>])

(* Mutant: a shadowed binding comes to light again.                        *)
Faulty_map_remove(s, m, k) ==
  Pushed(s, Reverse(SelectSeq(Cars(s, m), LAMBDA entry : car(s, entry) # k)), Empty)

(* The new list is searched for every key, built back to front, reversed.  *)
map_remove(s, m, k) ==
  LET keep(kept, entry) ==
        IF car(s, entry) = k \/ \E i \in DOMAIN kept : car(s, kept[i]) = car(s, entry)
        THEN kept ELSE <<entry>> \o kept
  IN Pushed(s, FoldLeft(keep, << >>, Cars(s, m)), Empty)

(* The position of the first binding of k among the cells of a list.       *)
Where(s, walk, k) ==
  LET at == {i \in DOMAIN walk : car(s, car(s, walk[i])) = k}
  IN IF at = {} THEN 0 ELSE CHOOSE i \in at : \A j \in at : i <= j

(* Mutant: the cell that is cut out is taken off the list, "for safety".   *)
Detaching_map_cut(s, m, k) ==
  LET walk == Spine(s, m)
      i == Where(s, walk, k)
  IN CASE i = 0 -> Result(s, m)
       [] i = 1 -> Result([s EXCEPT ![m][2] = Empty], cdr(s, m))
       [] OTHER -> Result([s EXCEPT ![walk[i - 1]][2] = cdr(s, walk[i]), ![walk[i]][2] = Empty], m)

(* The cell before the binding is made to point behind it.                 *)
map_cut(s, m, k) ==
  LET walk == Spine(s, m)
      i == Where(s, walk, k)
  IN CASE i = 0 -> Result(s, m)
       [] i = 1 -> Result(s, cdr(s, m))
       [] OTHER -> Result([s EXCEPT ![walk[i - 1]][2] = cdr(s, walk[i])], m)

(* A binding that was found is given another value in place.               *)
Overwrite(s, m, k, v) == [s EXCEPT ![map_find(s, m, k)][2] = v]

-----------------------------------------------------------------------------
(* The cells that values reach.                                            *)
RECURSIVE Reached(_, _, _)
Reached(s, todo, seen) ==
  IF todo = << >> THEN seen
  ELSE LET p == Head(todo) IN
       IF p <= Empty \/ \E i \in DOMAIN seen : seen[i] = p THEN Reached(s, Tail(todo), seen)
       ELSE Reached(s, <<car(s, p), cdr(s, p)>> \o Tail(todo), Append(seen, p))

(* The client's variables have new values; what they do not reach is gone. *)
Store(s, regs) ==
  LET live == Reached(s, regs, << >>)
      now(p) == IF p <= Empty THEN p ELSE CHOOSE i \in DOMAIN live : live[i] = p
  IN /\ Len(live) <= MaxCells
     /\ store' = [i \in DOMAIN live |-> <<now(s[live[i]][1]), now(s[live[i]][2])>>]
     /\ reg' = [r \in Register |-> now(regs[r])]

Assign(r, result) == Store(result.store, [reg EXCEPT ![r] = result.val])

MapInit == store = << >> /\ reg = [r \in Register |-> Empty]

MapNext ==
  \E r, q \in Register :
    \/ \E k, v \in Datum : Assign(r, map_put(store, reg[q], k, v))
    \/ \E p \in Register : Assign(r, map_put_all(store, reg[q], reg[p]))
    \/ \E ks, vs \in DataLists : Assign(r, map_def(store, reg[q], ks, vs))
    \/ \E k \in Datum : Assign(r, map_remove(store, reg[q], k))
    \/ \E k \in Datum : Assign(r, map_cut(store, reg[q], k))
    \/ \E p \in Register : Assign(r, append(store, reg[q], reg[p]))
    \/ \E p \in Register : Assign(r, replace(store, reg[q], reg[p]))
    \/ Assign(r, reverse(store, reg[q]))
    \/ \E k, v \in Datum :
         map_find(store, reg[r], k) # Empty /\ Store(Overwrite(store, reg[r], k, v), reg)

-----------------------------------------------------------------------------
(* The bindings of map m in the order of its cells.                        *)
Bindings(s, m) ==
  LET entries == Cars(s, m)
  IN [i \in DOMAIN entries |-> <<car(s, entries[i]), cdr(s, entries[i])>>]

Made(result) == Bindings(result.store, result.val)

(* Each operation is the one that it is named for, on maps of any shape,   *)
(* with shadowed bindings, empty or the same one twice (cons.c, map_...);  *)
(* equal compares what maps hold, not the cells they are made of.          *)
MapsAsNamed ==
  \A q, p \in Register :
    LET m == Bindings(store, reg[q])
        n == Bindings(store, reg[p])
    IN /\ equal(store, reg[q], reg[p]) <=> m = n
       /\ Made(map_put_all(store, reg[q], reg[p])) = Assoc!WithAll(m, n)
       /\ Made(append(store, reg[q], reg[p])) = m \o n
       /\ Made(reverse(store, reg[q])) = Reverse(m)
       /\ Made(replace(store, reg[q], reg[p])) = Assoc!Substituted(m, n)
       /\ \A ks, vs \in DataLists :
            Made(map_def(store, reg[q], ks, vs)) = Assoc!WithAll(m, Assoc!Paired(ks, vs))
       /\ \A k \in Datum :
            /\ map_get_def(store, reg[q], k, Empty) = Assoc!Lookup(m, k, Empty)
            /\ Assoc!IsWithoutAll(Made(map_remove(store, reg[q], k)), m, k)
            /\ Made(map_cut(store, reg[q], k)) = Assoc!Without(m, k)
            /\ \A v \in Datum : Made(map_put(store, reg[q], k, v)) = Assoc!With(m, k, v)

(* What happens behind the back of another map: only map_cut and a value   *)
(* that is overwritten write into cells that it may share; then it loses   *)
(* the binding in question, or gets the value, or stays as it is, and it   *)
(* does stay if the two maps share nothing (cons.c, map_cut, rplacd).      *)
Shares(p, q) ==
  LET reached(r) == Reached(store, <<reg[r]>>, << >>)
  IN \E i \in DOMAIN reached(p), j \in DOMAIN reached(q) : reached(p)[i] = reached(q)[j]

OtherMaps ==
  \A p, q \in Register : \A k \in Datum :
    LET m == Bindings(store, reg[p])
        after == Bindings(map_cut(store, reg[q], k).store, reg[p])
    IN /\ after \in Assoc!Thinned(m, k)
       /\ after # m => Shares(p, q)
       /\ map_find(store, reg[q], k) # Empty => \A v \in Datum :
            LET given == Bindings(Overwrite(store, reg[q], k, v), reg[p])
            IN given \in Assoc!Overwritten(m, k, v) /\ (given # m => Shares(p, q))
=============================================================================
