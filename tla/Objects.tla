------------------------------- MODULE Objects -------------------------------
(***************************************************************************)
(* The data of the interpreted language: constants, symbols and pairs, as  *)
(* actors that answer requests, and the customers that pairs create to put *)
(* an answer together.  Pairs made by a program (cons_type) are mutable,   *)
(* those that are read or copied (pair_type) are not.                      *)
(*                                                                         *)
(* A behaviour whose last case delegates to another one (object_type(CFG)) *)
(* evaluates that one's operator here.  Requests that only the other       *)
(* settings of the optimization switches send (#match, #bind, #as_tuple)   *)
(* are left out.                                                           *)
(***************************************************************************)
EXTENDS ForkJoin, TLC

VARIABLE sink_fails  \* whether writing to the output may fail

(* The global actors, in the order in which init_kernel creates them.      *)
a_sink == 1
a_inert == 2
a_nil == 3
a_ignore == 4
a_true == 5
a_false == 6

Boolean(b) == IF b THEN a_true ELSE a_false

Constants ==
  <<Actor("sink_beh", NIL), Actor("unit_type", NIL), Actor("null_type", NIL),
    Actor("any_type", NIL), Actor("bool_type", TRUE), Actor("bool_type", FALSE)>>

Eval(k, env) == [op |-> "eval", cust |-> k, env |-> env]
Comb(k, opnds, env) == [op |-> "comb", cust |-> k, opnds |-> opnds, env |-> env]
Map(k, req) == [op |-> "map", cust |-> k, req |-> req]
Foldl(k, zero, oplus, req) == [op |-> "foldl", cust |-> k, zero |-> zero, oplus |-> oplus, req |-> req]
WriteTail(k, prefix) == [op |-> "write_tail", cust |-> k, prefix |-> prefix]

Reply(v) == Send(WHAT.cust, Value(v))

(* What writing a text may return.                                         *)
SinkResults == IF sink_fails THEN BOOLEAN ELSE {TRUE}

(* Writes a text; new actors may be created to be told whether it worked.  *)
Put(text, new, to) ==
  \E ok \in SinkResults :
    Handle(actors \o new, <<Message(to, Value(Boolean(ok)))>>, IF ok THEN <<text>> ELSE << >>)

-----------------------------------------------------------------------------
(* Pairs as the C code reads them without sending messages (cons_value).   *)

Is(b, v) == v \in DOMAIN actors /\ actors[v].beh = b
IsPair(v) == Is("cons_type", v) \/ Is("pair_type", v)
Hd(v) == actors[v].mine.hd
Tl(v) == actors[v].mine.tl
Halves(h, t) == [hd |-> h, tl |-> t]

-----------------------------------------------------------------------------
(* Constants and symbols.                                                  *)

(* What every type does with a request of which it knows nothing special.  *)
object_type ==
  CASE WHAT.op \in {"eval", "copy_immutable"} -> Reply(SELF)
    [] WHAT.op = "write_tail" /\ WHAT.prefix = " " ->
         Put(" . ", <<Actor("dotted_tail_beh", [cust |-> WHAT.cust, last |-> SELF])>>, New(1))
    [] OTHER -> Throw

Typed(type, text) ==
  CASE WHAT.op = "type_eq" -> Reply(Boolean(WHAT.type = type))
    [] WHAT.op = "write" -> Put(text, << >>, WHAT.cust)
    [] OTHER -> object_type

dotted_tail_beh ==
  /\ Behaves("dotted_tail_beh")
  /\ IF WHAT.val = a_true
     THEN React(<<Actor("dotted_close_beh", MINE.cust)>>, <<Message(MINE.last, Request("write", New(1)))>>)
     ELSE Send(MINE.cust, WHAT)

dotted_close_beh ==
  /\ Behaves("dotted_close_beh")
  /\ IF WHAT.val = a_true THEN Put(")", << >>, MINE) ELSE Send(MINE, WHAT)

unit_type == Behaves("unit_type") /\ Typed("unit_type", "#inert")
any_type == Behaves("any_type") /\ Typed("any_type", "#ignore")
number_type == Behaves("number_type") /\ Typed("number_type", ToString(MINE))

bool_type ==
  /\ Behaves("bool_type")
  /\ IF WHAT.op = "if"
     THEN Send(IF MINE THEN WHAT.cnsq ELSE WHAT.altn, Eval(WHAT.cust, WHAT.env))
     ELSE Typed("bool_type", IF MINE THEN "#t" ELSE "#f")

symbol_type ==
  /\ Behaves("symbol_type")
  /\ IF WHAT.op = "eval"
     THEN Send(WHAT.env, [op |-> "lookup", cust |-> WHAT.cust, key |-> MINE])
     ELSE Typed("symbol_type", MINE)

null_type ==
  /\ Behaves("null_type")
  /\ CASE WHAT.op = "type_eq" -> Reply(Boolean(WHAT.type = "null_type"))
       [] WHAT.op \in {"eval", "copy_immutable"} -> Reply(SELF)
       [] WHAT.op = "as_pair" -> Reply(NIL)
       [] WHAT.op = "map" -> Send(SELF, For(WHAT.cust, WHAT.req))
       [] WHAT.op = "foldl" -> Reply(WHAT.zero)
       [] WHAT.op = "write" -> Put("()", << >>, WHAT.cust)
       [] WHAT.op = "write_tail" /\ WHAT.prefix = " " -> Put(")", << >>, WHAT.cust)
       [] OTHER -> Throw

-----------------------------------------------------------------------------
(* Pairs and their customers.                                              *)

(* A fork of the requests h_req to the head and t_req to the tail, whose   *)
(* answers a new customer with behaviour b makes a pair of.                *)
ForkPair(b, h_req, t_req) ==
  React(<<Actor(b, WHAT.cust),
          Actor("fork_beh", [cust |-> New(1), head |-> MINE.hd, tail |-> MINE.tl])>>,
        <<Message(New(2), ForkRequest(h_req, t_req))>>)

(* The result of a customer that creates one object for its own customer.  *)
Answer(k, b, s) == React(<<Actor(b, s)>>, <<Message(k, Value(New(1)))>>)

ShallowCopy == Answer(WHAT.cust, "pair_type", MINE)
CopyImmutable == ForkPair("pair_copy_beh", For(NIL, WHAT), For(NIL, WHAT))

cons_type_req ==
  CASE WHAT.op = "type_eq" -> Reply(Boolean(WHAT.type = "pair_type"))
    [] WHAT.op = "eval" ->
         React(<<Actor("pair_comb_beh", [cust |-> WHAT.cust, opnds |-> MINE.tl, env |-> WHAT.env])>>,
               <<Message(MINE.hd, Eval(New(1), WHAT.env))>>)
    [] WHAT.op = "as_pair" -> Send(WHAT.cust, Pair(MINE.hd, MINE.tl))
    [] WHAT.op = "copy_immutable" -> CopyImmutable
    [] WHAT.op = "map" -> ForkPair("pair_map_beh", WHAT.req, For(NIL, WHAT))
    [] WHAT.op = "foldl" ->
         React(<<Actor("pair_foldl_beh", [fold |-> WHAT, right |-> MINE.tl])>>,
               <<Message(MINE.hd, For(New(1), WHAT.req))>>)
    [] WHAT.op = "set_car" ->
         Become(actors[SELF].beh, Halves(WHAT.val, MINE.tl), <<Message(WHAT.cust, Value(a_inert))>>)
    [] WHAT.op = "set_cdr" ->
         Become(actors[SELF].beh, Halves(MINE.hd, WHAT.val), <<Message(WHAT.cust, Value(a_inert))>>)
    [] WHAT.op = "write" -> Send(SELF, WriteTail(WHAT.cust, "("))
    [] WHAT.op = "write_tail" ->
         \E ok \in SinkResults :
           IF ok
           THEN Handle(actors \o <<Actor("pair_write_tail_beh", [cust |-> WHAT.cust, right |-> MINE.tl])>>,
                       <<Message(MINE.hd, Request("write", New(1)))>>, <<WHAT.prefix>>)
           ELSE Reply(a_false)
    [] OTHER -> Throw

cons_type == Behaves("cons_type") /\ cons_type_req

Faulty_pair_type ==
  /\ Behaves("pair_type")
  /\ IF WHAT.op = "copy_immutable" THEN Reply(SELF) ELSE cons_type_req

pair_type ==
  /\ Behaves("pair_type")
  /\ CASE WHAT.op \in {"set_car", "set_cdr"} -> Throw
       [] WHAT.op = "copy_immutable" -> Reply(SELF)
       [] OTHER -> cons_type_req

pair_comb_beh ==
  Behaves("pair_comb_beh") /\ Send(WHAT.val, Comb(MINE.cust, MINE.opnds, MINE.env))

pair_copy_beh == Behaves("pair_copy_beh") /\ Answer(MINE, "pair_type", Halves(WHAT.hd, WHAT.tl))
pair_map_beh == Behaves("pair_map_beh") /\ Answer(MINE, "cons_type", Halves(WHAT.hd, WHAT.tl))

(* The functions that a list is folded with.                               *)
Oplus(f, p, q) ==
  CASE f = "boolean_and" -> IF p = a_true THEN q ELSE a_false
    [] f = "pair_tail" -> q

pair_foldl_beh ==
  /\ Behaves("pair_foldl_beh")
  /\ Send(MINE.right, [MINE.fold EXCEPT !.zero = Oplus(MINE.fold.oplus, @, WHAT.val)])

Faulty_pair_write_tail_beh == Behaves("pair_write_tail_beh") /\ Send(MINE.right, WriteTail(MINE.cust, " "))

pair_write_tail_beh ==
  /\ Behaves("pair_write_tail_beh")
  /\ IF WHAT.val = a_true THEN Send(MINE.right, WriteTail(MINE.cust, " ")) ELSE Send(MINE.cust, WHAT)

ObjectNext ==
  \/ unit_type \/ any_type \/ number_type \/ bool_type \/ symbol_type \/ null_type
  \/ dotted_tail_beh \/ dotted_close_beh
  \/ cons_type \/ pair_type
  \/ pair_comb_beh \/ pair_copy_beh \/ pair_map_beh \/ pair_foldl_beh \/ pair_write_tail_beh
=============================================================================
