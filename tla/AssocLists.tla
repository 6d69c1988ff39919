------------------------------ MODULE AssocLists ------------------------------
(***************************************************************************)
(* What the maps of cons.c promise.  A map is a sequence of bindings       *)
(* <<key, value>>, of which the first one of a key counts.  Module         *)
(* ConsMaps implements it with cells.                                      *)
(***************************************************************************)
EXTENDS Integers, Sequences, FiniteSets

LOCAL INSTANCE SequencesExt

Binds(m, k) == {i \in DOMAIN m : m[i][1] = k}
First(m, k) == CHOOSE i \in Binds(m, k) : \A j \in Binds(m, k) : i <= j

Lookup(m, k, def) == IF Binds(m, k) = {} THEN def ELSE m[First(m, k)][2]

With(m, k, v) == <<<<k, v>>>> \o m

(* Bindings are added one by one: the last one of a key counts.            *)
WithAll(m, n) == Reverse(n) \o m

Shorter(ks, vs) == IF Len(ks) < Len(vs) THEN Len(ks) ELSE Len(vs)
Paired(ks, vs) == [i \in 1 .. Shorter(ks, vs) |-> <<ks[i], vs[i]>>]

Without(m, k) == IF Binds(m, k) = {} THEN m ELSE RemoveAt(m, First(m, k))

(* What may become of a map when a binding of k is taken out of another.   *)
Thinned(m, k) == {m} \cup {RemoveAt(m, i) : i \in Binds(m, k)}

(* What may become of it when a binding of k is given the value v.         *)
Overwritten(m, k, v) ==
  {[i \in DOMAIN m |-> IF i \in S THEN <<k, v>> ELSE m[i]] : S \in SUBSET Binds(m, k)}

(* The map n in which k is not bound and every other key has one binding,  *)
(* the one that counts in m, in the order of m.                            *)
IsWithoutAll(n, m, k) ==
  /\ \A i \in DOMAIN n : n[i] = <<n[i][1], Lookup(m, n[i][1], 0)>> /\ Cardinality(Binds(n, n[i][1])) = 1
  /\ {n[i][1] : i \in DOMAIN n} = {m[i][1] : i \in DOMAIN m} \ {k}
  /\ \A i, j \in DOMAIN n : i < j => First(m, n[i][1]) < First(m, n[j][1])

(* Keys and values are replaced alike, all at once.                        *)
Substituted(m, n) ==
  [i \in DOMAIN m |-> <<Lookup(n, m[i][1], m[i][1]), Lookup(n, m[i][2], m[i][2])>>]
=============================================================================
