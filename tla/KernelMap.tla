------------------------------ MODULE KernelMap ------------------------------
(***************************************************************************)
(* (map appl list ...): a head actor per list, chained, hands out the next *)
(* row of elements when asked, and one actor alternates between asking for *)
(* a row (map_tail_beh) and combining it (map_comb_beh).  The combination  *)
(* of a row and the rest of the map run at the same time.                  *)
(***************************************************************************)
EXTENDS Combiners

(* A head for each of n lists, the first one first; the last has no next.  *)
mk_heads(n) ==
  [i \in 1 .. n |->
     Actor("map_head_beh", [list |-> Arg(i + 1), next |-> IF i = n THEN NIL ELSE New(i + 1)])]

map_args_beh ==
  /\ Behaves("map_args_beh")
  /\ IF WHAT.op = "args" /\ Len(WHAT.args) \in Nat \ {0, 1}
     THEN Handle(Changed(SELF, "map_unwrap_beh", [heads |-> New(1), cust |-> MINE.cust, env |-> MINE.env])
                   \o mk_heads(Len(WHAT.args) - 1),
                 <<Message(Arg(1), Request("unwrap", SELF))>>, << >>)
     ELSE Throw

map_unwrap_beh ==
  /\ Behaves("map_unwrap_beh")
  /\ Become("map_comb_beh", [comb |-> WHAT.val, heads |-> MINE.heads, cust |-> MINE.cust, env |-> MINE.env],
            <<Message(MINE.heads, Value(SELF))>>)

(* The fork asks this actor for the rest of the map with a request whose   *)
(* customer and contents map_tail_beh takes.                               *)
map_comb_beh ==
  /\ Behaves("map_comb_beh")
  /\ CASE MINE.env \notin DOMAIN actors -> Throw
       [] MINE.env \in DOMAIN actors /\ WHAT.val = a_nil -> Send(MINE.cust, Value(a_nil))
       [] OTHER ->
            Handle(Changed(SELF, "map_tail_beh", [comb |-> MINE.comb, env |-> MINE.env])
                     \o <<Actor("pair_map_beh", MINE.cust),
                          Actor("fork_beh", [cust |-> New(1), head |-> MINE.comb, tail |-> SELF])>>,
                   <<Message(New(2), ForkRequest(Comb(NIL, WHAT.val, MINE.env),
                                                 [op |-> "heads", cust |-> NIL, heads |-> MINE.heads]))>>,
                   << >>)

map_tail_beh ==
  /\ Behaves("map_tail_beh")
  /\ Become("map_comb_beh", [comb |-> MINE.comb, heads |-> WHAT.heads, cust |-> WHAT.cust, env |-> MINE.env],
            <<Message(WHAT.heads, Value(SELF))>>)

map_head_beh ==
  /\ Behaves("map_head_beh")
  /\ Become("map_pair_beh", [cust |-> WHAT.val, next |-> MINE.next],
            <<Message(MINE.list, Request("as_pair", SELF))>>)

(* The pair at the front of this list.  Without one the row is empty.      *)
map_pair_beh ==
  /\ Behaves("map_pair_beh")
  /\ IF WHAT.op = "pair"
     THEN LET moved == Changed(SELF, "map_head_beh", [list |-> WHAT.tl, next |-> MINE.next])
          IN IF MINE.next = NIL
             THEN Handle(moved \o <<Actor("cons_type", Halves(WHAT.hd, a_nil))>>,
                         <<Message(MINE.cust, Value(New(1)))>>, << >>)
             ELSE Handle(moved \o <<Actor("map_next_beh", [cust |-> MINE.cust, head |-> WHAT.hd])>>,
                         <<Message(MINE.next, Value(New(1)))>>, << >>)
     ELSE Send(MINE.cust, Value(a_nil))

Faulty_map_next_beh ==
  /\ Behaves("map_next_beh")
  /\ IF WHAT.val = a_nil THEN Ignore ELSE Answer(MINE.cust, "cons_type", Halves(MINE.head, WHAT.val))

(* The elements of the other lists in this row.                            *)
map_next_beh ==
  /\ Behaves("map_next_beh")
  /\ IF WHAT.val = a_nil
     THEN Send(MINE.cust, Value(a_nil))
     ELSE Answer(MINE.cust, "cons_type", Halves(MINE.head, WHAT.val))

MapNext ==
  \/ map_args_beh \/ map_unwrap_beh \/ map_comb_beh \/ map_tail_beh
  \/ map_head_beh \/ map_pair_beh \/ map_next_beh
=============================================================================
