------------------------------ MODULE Customers ------------------------------
(***************************************************************************)
(* Who waits for what in the interpreter, and who may answer it.           *)
(*                                                                         *)
(* A value is an object of the language, or none.  All other actors are    *)
(* customers: what they are sent depends on how they behave, and the right *)
(* to answer one is handed on, by messages and by the states of other      *)
(* customers, but never doubled.  open has the customers that may still be *)
(* answered.  The actors of one (map ...) share one right, that of the     *)
(* actor which row names, so one of them acts at a time.                   *)
(*                                                                         *)
(* The operators take the sequence of all actors, all, as in Handle.       *)
(***************************************************************************)
EXTENDS Evaluator

IsSeq(s) == \E S : s \in Seq(S)

-----------------------------------------------------------------------------
(* Kinds of behaviours.                                                    *)

ObjectBehs == Immutable \cup Mutable
ValueBehs ==
  {"tag_beh", "command_beh", "pair_comb_beh", "pair_foldl_beh", "pair_write_tail_beh", "dotted_tail_beh",
   "dotted_close_beh", "appl_args_beh", "if_test_beh", "define_match_beh", "newline_beh", "report_beh",
   "abort_beh", "timed_cust_beh", "throw_beh"}
PlainArgsBehs ==
  {"time_args_beh", "brand_args_beh", "make_env_args_beh", "eval_args_beh", "apply_args_beh",
   "copy_es_immutable_args_beh", "set_car_args_beh", "set_cdr_args_beh", "newline_args_beh", "write_args_beh",
   "cons_args_beh", "unwrap_args_beh", "wrap_args_beh", "if_args_beh", "define_args_beh"}
BrandBehs == {"seal_args_beh", "unseal_args_beh"}
PairBehs == {"vau_vars_beh", "vau_evar_beh", "lambda_vars_beh"}
BothBehs == {"pair_copy_beh", "pair_map_beh"}
JoinBehs == {"join_beh", "join_rest_beh", "join_first_beh"}
MapBehs == {"map_args_beh", "map_unwrap_beh", "map_comb_beh", "map_tail_beh"}
HeadBehs == {"map_head_beh", "map_pair_beh"}

ArgsBehs == PlainArgsBehs \cup BrandBehs \cup {"concurrent_args_beh", "map_args_beh"}
RowBehs == MapBehs \cup {"map_next_beh"}
Turning == {"fork_beh", "vau_vars_beh", "report_beh"} \cup JoinBehs \cup MapBehs \cup HeadBehs
OpenBehs ==
  (ValueBehs \ {"abort_beh"}) \cup ArgsBehs \cup PairBehs \cup BothBehs \cup JoinBehs \cup MapBehs \cup {"fork_beh"}

IsIn(all, B, a) == a \in DOMAIN all /\ all[a].beh \in B
IsValue(all, v) == v \in {NIL, NotActor} \/ IsIn(all, ObjectBehs \ {"brand_type"}, v)

(* A value that is no mutable pair.                                        *)
IsFixed(all, v) == IsValue(all, v) /\ ~IsIn(all, {"cons_type"}, v)

(* Customers that only what is copied is sent to.                          *)
WaitsForCopy(all, k) ==
  \/ IsIn(all, {"command_beh"}, k)
  \/ IsIn(all, {"tag_beh"}, k) /\ IsIn(all, {"pair_copy_beh"}, all[all[k].mine].mine.cust)

AnyCust(all, k) == k = a_sink \/ IsIn(all, ValueBehs, k)
Cust(all, k) == AnyCust(all, k) /\ ~WaitsForCopy(all, k)

-----------------------------------------------------------------------------
(* Messages.                                                               *)

Requests ==
  {"eval", "comb", "map", "foldl", "write", "write_tail", "lookup", "type_eq", "copy_immutable", "as_pair",
   "unwrap", "if", "set_car", "set_cdr", "seal", "unseal"}

TypeEq(k, type, brand) == [op |-> "type_eq", cust |-> k, type |-> type, brand |-> brand]
Heads(k, heads) == [op |-> "heads", cust |-> k, heads |-> heads]

EvalOf(all, req, k) == req.op = "eval" /\ req = Eval(k, req.env) /\ IsValue(all, req.env)
CombOf(all, req, k) ==
  req.op = "comb" /\ req = Comb(k, req.opnds, req.env) /\ IsValue(all, req.opnds) /\ IsValue(all, req.env)
MapOf(all, req, k) == req.op = "map" /\ req = Map(k, req.req) /\ EvalOf(all, req.req, NIL)
FoldlOf(all, req, k) ==
  /\ req = Foldl(k, req.zero, req.oplus, req.req)
  /\ IsValue(all, req.zero)
  /\ req.oplus \in {"boolean_and", "pair_tail"}
  /\ \/ EvalOf(all, req.req, NIL)
     \/ req.req.op = "type_eq" /\ req.req = TypeEq(NIL, req.req.type, req.req.brand)

CustOK(all, to, w) ==
  CASE w.op = "as_pair" ->
         IsIn(all, PairBehs \cup HeadBehs, w.cust)
           /\ (IsIn(all, PairBehs, w.cust) => ~IsIn(all, {"cons_type"}, to))
    [] w.op = "unwrap" -> IsIn(all, MapBehs, w.cust)
    [] w.op = "copy_immutable" -> AnyCust(all, w.cust)
    [] OTHER -> Cust(all, w.cust)

(* A request that an object is sent.                                       *)
RequestOK(all, to, w) ==
  /\ w.op \in Requests
  /\ CustOK(all, to, w)
  /\ IsIn(all, {"brand_type"}, to) => w.op = "seal"
  /\ w.op = "eval" => EvalOf(all, w, w.cust)
  /\ w.op = "comb" => CombOf(all, w, w.cust)
  /\ w.op = "map" => MapOf(all, w, w.cust)
  /\ w.op = "foldl" => FoldlOf(all, w, w.cust)
  /\ w.op = "copy_immutable" => w = Request("copy_immutable", w.cust)
  /\ w.op = "if" => IsValue(all, w.cnsq) /\ IsValue(all, w.altn) /\ IsValue(all, w.env)
  /\ w.op \in {"set_car", "set_cdr", "seal"} => IsValue(all, w.val)

(* The two requests that a fork passes on.                                 *)
ForkOK(all, row, f, w) ==
  LET fork == all[f].mine
      copies == w.h_req = Request("copy_immutable", NIL) /\ w.t_req = Request("copy_immutable", NIL)
  IN /\ w.op = "fork"
     /\ IsIn(all, {"pair_copy_beh"}, fork.cust) => copies
     /\ \/ copies /\ IsValue(all, fork.tail)
        \/ EvalOf(all, w.h_req, NIL) /\ MapOf(all, w.t_req, NIL) /\ IsValue(all, fork.tail)
        \/ /\ CombOf(all, w.h_req, NIL)
           /\ w.t_req = Heads(NIL, w.t_req.heads)
           /\ IsIn(all, HeadBehs, w.t_req.heads)
           /\ IsIn(all, MapBehs, fork.tail)
           /\ row[w.t_req.heads] = fork.tail

ValueOK(all, to, w) ==
  w.op = "value" /\ IsValue(all, w.val) /\ (WaitsForCopy(all, to) => IsFixed(all, w.val))
NoPair(w) == w.op = "value" /\ w.val = NIL
PairOK(all, w) == w.op = "pair" /\ IsValue(all, w.hd) /\ IsValue(all, w.tl)
FixedPair(all, w) == w.op = "pair" /\ IsFixed(all, w.hd) /\ IsFixed(all, w.tl)
ArgsOK(all, w) ==
  \/ w.op = "FALSE"
  \/ w.op = "args" /\ IsSeq(w.args) /\ \A i \in DOMAIN w.args : IsValue(all, w.args[i])
TaggedOK(all, j, w) ==
  /\ w.op = "tagged"
  /\ IsIn(all, {"tag_beh"}, w.tag)
  /\ all[w.tag].mine = j
  /\ IsValue(all, w.val)
  /\ WaitsForCopy(all, w.tag) => IsFixed(all, w.val)

(* What an actor may be sent while it behaves as it does.                  *)
SentOK(all, row, to, w) ==
  /\ all[to].beh \in ObjectBehs => RequestOK(all, to, w)
  /\ all[to].beh = "sink_beh" => w.op = "value"
  /\ all[to].beh \in ValueBehs => ValueOK(all, to, w)
  /\ all[to].beh \in ArgsBehs => ArgsOK(all, w)
  /\ all[to].beh \in PairBehs => FixedPair(all, w) \/ NoPair(w)
  /\ all[to].beh = "pair_copy_beh" => FixedPair(all, w)
  /\ all[to].beh = "pair_map_beh" => PairOK(all, w)
  /\ all[to].beh = "fork_beh" => ForkOK(all, row, to, w)
  /\ all[to].beh \in JoinBehs => TaggedOK(all, to, w)
  /\ all[to].beh \in {"map_unwrap_beh", "map_comb_beh", "map_next_beh"} => w.op = "value" /\ IsValue(all, w.val)
  /\ all[to].beh = "map_tail_beh" =>
       w = Heads(w.cust, w.heads) /\ Cust(all, w.cust) /\ IsIn(all, HeadBehs, w.heads) /\ row[w.heads] = to
  /\ all[to].beh = "map_head_beh" => w.op = "value" /\ IsIn(all, RowBehs, w.val) /\ row[w.val] = row[to]
  /\ all[to].beh = "map_pair_beh" => PairOK(all, w) \/ NoPair(w)

MessageOK(all, row, m) ==
  \/ m.to \in {NIL, NotActor} /\ RequestOK(all, m.to, m.what)
  \/ m.to \in DOMAIN all /\ SentOK(all, row, m.to, m.what)

-----------------------------------------------------------------------------
(* States.                                                                 *)

WithCust ==
  {"pair_comb_beh", "pair_write_tail_beh", "dotted_tail_beh", "appl_args_beh", "if_test_beh",
   "define_match_beh", "newline_beh", "timed_cust_beh", "map_args_beh", "map_unwrap_beh", "map_comb_beh"}
    \cup PairBehs \cup PlainArgsBehs \cup BrandBehs

ObjectOK(all, b, s) ==
  /\ b = "cons_type" => IsValue(all, s.hd) /\ IsValue(all, s.tl)
  /\ b = "pair_type" => IsFixed(all, s.hd) /\ IsFixed(all, s.tl)
  /\ b = "sealed_type" => IsValue(all, s.val)
  /\ b = "appl_type" => IsValue(all, s)
  /\ b = "args_oper" => s \in PlainArgsBehs \cup {"map_args_beh"}
  /\ b = "brand_oper" => IsIn(all, {"brand_type"}, s.brand) /\ s.args_beh \in BrandBehs
  /\ b = "env_type" => IsValue(all, s.parent) /\ \A name \in DOMAIN s.map : IsValue(all, s.map[name])
  /\ b \in {"vau_type", "lambda_type"} => IsValue(all, s.body) /\ IsValue(all, s.env) /\ IsValue(all, s.ptree)
  /\ b = "vau_type" => IsIn(all, {"pair_type"}, s.ptree)

CustomerOK(all, b, s) ==
  /\ b \in WithCust => Cust(all, s.cust)
  /\ b \in PlainArgsBehs \cup PairBehs \cup {"map_args_beh", "map_unwrap_beh", "map_comb_beh", "map_tail_beh"}
       => IsValue(all, s.env)
  /\ b \in BrandBehs => IsIn(all, {"brand_type"}, s.brand)
  /\ b = "concurrent_args_beh" => IsValue(all, s)
  /\ b = "command_beh" => s = Request("as_pair", s.cust) /\ IsIn(all, PairBehs, s.cust)
  /\ b \in {"dotted_close_beh", "pair_map_beh"} => Cust(all, s)
  /\ b = "pair_copy_beh" => AnyCust(all, s)
  /\ b = "pair_foldl_beh" => FoldlOf(all, s.fold, s.fold.cust) /\ Cust(all, s.fold.cust) /\ IsValue(all, s.right)
  /\ b = "pair_comb_beh" => IsValue(all, s.opnds) /\ IsValue(all, s.env)
  /\ b = "pair_write_tail_beh" => IsValue(all, s.right)
  /\ b = "dotted_tail_beh" => IsValue(all, s.last)
  /\ b = "appl_args_beh" => IsValue(all, s.comb) /\ IsValue(all, s.env)
  /\ b = "if_test_beh" => IsValue(all, s.cnsq) /\ IsValue(all, s.altn) /\ IsValue(all, s.env)
  /\ b = "define_match_beh" => IsValue(all, s.ptree) /\ IsValue(all, s.env)
  /\ b = "newline_beh" => IsValue(all, s.val)
  /\ b = "report_beh" => s = a_sink
  /\ b = "vau_evar_beh" => IsFixed(all, s.vars)

ForkJoinOK(all, a, b, s) ==
  /\ b = "tag_beh" => IsIn(all, JoinBehs, s) /\ s < a
  /\ b \in {"fork_beh"} \cup JoinBehs => IsIn(all, BothBehs, s.cust)
  /\ b = "fork_beh" => IsValue(all, s.head) /\ (IsValue(all, s.tail) \/ IsIn(all, MapBehs, s.tail))
  /\ b \in {"join_beh", "join_first_beh"} => IsIn(all, {"tag_beh"}, s.k_first) /\ all[s.k_first].mine = a
  /\ b \in {"join_beh", "join_rest_beh"} => IsIn(all, {"tag_beh"}, s.k_rest) /\ all[s.k_rest].mine = a
  /\ b = "join_beh" => s.k_first # s.k_rest
  /\ b = "join_rest_beh" => IsValue(all, s.first) /\ (IsIn(all, {"pair_copy_beh"}, s.cust) => IsFixed(all, s.first))
  /\ b = "join_first_beh" => IsValue(all, s.rest) /\ (IsIn(all, {"pair_copy_beh"}, s.cust) => IsFixed(all, s.rest))

MapOK(all, row, a, b, s) ==
  /\ IF b \in HeadBehs \cup {"map_next_beh"} THEN IsIn(all, MapBehs, row[a]) ELSE row[a] = a
  /\ b \in {"map_comb_beh", "map_tail_beh"} => IsValue(all, s.comb)
  /\ b \in {"map_unwrap_beh", "map_comb_beh"} => IsIn(all, HeadBehs, s.heads) /\ row[s.heads] = a
  /\ b \in HeadBehs /\ s.next # NIL => IsIn(all, HeadBehs, s.next) /\ row[s.next] = row[a]
  /\ b = "map_head_beh" => IsValue(all, s.list)
  /\ b \in {"map_pair_beh", "map_next_beh"} => IsIn(all, RowBehs, s.cust) /\ row[s.cust] = row[a]
  /\ b = "map_next_beh" => IsValue(all, s.head)

-----------------------------------------------------------------------------
(* Rights to answer.                                                       *)

(* A tagged answer is made in the name of its tag; any other message       *)
(* answers the customer that it is sent to, and a request is also for a    *)
(* customer.  What is sent to the sink needs no right.                     *)
Answers(all, row, m) ==
  IF m.what.op = "tagged" THEN {m.what.tag}
  ELSE IF m.to \in DOMAIN all /\ all[m.to].beh \notin ObjectBehs \cup {"sink_beh"} THEN {row[m.to]}
  ELSE {}
Serves(row, m) ==
  IF m.what.op \in Requests \cup {"heads"} THEN {row[m.what.cust]} \ {a_sink} ELSE {}
Held(all, row, m) == Answers(all, row, m) \cup Serves(row, m)

(* The customers that a customer will answer, itself or by those it asks.  *)
Direct(b, s) ==
  CASE b \in WithCust \cup JoinBehs \cup {"fork_beh", "command_beh"} -> {s.cust}
    [] b \in {"dotted_close_beh", "pair_copy_beh", "pair_map_beh"} -> {s}
    [] b = "pair_foldl_beh" -> {s.fold.cust}
    [] OTHER -> {}
Rest(all, b, s) == IF b = "fork_beh" /\ IsIn(all, MapBehs, s.tail) THEN {s.tail} ELSE {}
Keeps(all, a) ==
  (Direct(all[a].beh, all[a].mine) \ {a_sink}) \cup Rest(all, all[a].beh, all[a].mine)

Awaits(j, t) ==
  \/ j.beh \in {"join_beh", "join_first_beh"} /\ t = j.mine.k_first
  \/ j.beh \in {"join_beh", "join_rest_beh"} /\ t = j.mine.k_rest

(* What is held may still be answered, and no two hold the same right.     *)
Unshared(all, waiting, open, row) ==
  /\ \A i \in DOMAIN waiting : Held(all, row, waiting[i]) \subseteq open
  /\ \A a \in open : Keeps(all, a) \subseteq open
  /\ \A i, j \in DOMAIN waiting : i # j => Held(all, row, waiting[i]) \cap Held(all, row, waiting[j]) = {}
  /\ \A i \in DOMAIN waiting : \A a \in open : Held(all, row, waiting[i]) \cap Keeps(all, a) = {}
  /\ \A a, b \in open : a # b => Keeps(all, a) \cap Keeps(all, b) = {}

(* A customer of a single answer that is still to be answered has not been *)
(* sent one; a tag is answered when its answer reaches the join.           *)
Fresh(all, handled, k) == all[k].beh \in OneShot => handled[k] = 0

Unanswered(all, waiting, handled, open, row) ==
  /\ \A a \in DOMAIN all : all[a].beh \in OneShot => handled[a] <= 1
  /\ \A i \in DOMAIN waiting :
       waiting[i].what.op # "tagged" => \A k \in Held(all, row, waiting[i]) : Fresh(all, handled, k)
  /\ \A a \in open : \A k \in Keeps(all, a) : Fresh(all, handled, k)

(* Nothing that may still be answered is forgotten, while nothing fails.   *)
Remembered(all, waiting, open, row) ==
  \/ \E a \in DOMAIN all : all[a].beh = "throw_beh"
  \/ \A k \in open :
       \/ \E i \in DOMAIN waiting : k \in Held(all, row, waiting[i])
       \/ \E a \in open : k \in Keeps(all, a)
       \/ all[k].beh \in JoinBehs

(* A join and the tags that it waits for.                                  *)
Joined(all, open) ==
  /\ \A t \in open : all[t].beh = "tag_beh" => all[t].mine \in open /\ Awaits(all[all[t].mine], t)
  /\ \A j \in open : \A t \in DOMAIN all : Awaits(all[j], t) => t \in open

(* While a message holds the right of (map ...), it says what the actors   *)
(* of the map do: the one that asks for a row waits for it, and only the   *)
(* list whose turn it is has asked for its pair.                           *)
Busy(all, row, k) == {x \in DOMAIN all : all[x].beh = "map_pair_beh" /\ row[x] = k}

RowOK(all, row, m, k) ==
  /\ m.to # k => all[k].beh = IF m.what.op = "unwrap" THEN "map_unwrap_beh" ELSE "map_comb_beh"
  /\ m.what.op = "as_pair" => all[m.what.cust].beh = "map_pair_beh"
  /\ \A x \in Busy(all, row, k) :
       \/ x = m.to
       \/ m.what.op = "as_pair" /\ x = m.what.cust
       \/ m.what.op = "value" /\ m.what.val = a_nil /\ all[m.to].beh \in {"map_comb_beh", "map_next_beh"}

Rows(all, waiting, open, row) ==
  /\ \A i \in DOMAIN waiting : \A k \in Held(all, row, waiting[i]) :
       all[k].beh \in MapBehs => RowOK(all, row, waiting[i], k)
  /\ \A a \in open : \A k \in Keeps(all, a) :
       all[k].beh \in MapBehs => all[k].beh = "map_tail_beh" /\ Busy(all, row, k) = {}

-----------------------------------------------------------------------------
(* All of it.                                                              *)

Kinds == ObjectBehs \cup OpenBehs \cup HeadBehs \cup {"sink_beh", "abort_beh", "map_next_beh"}

Shape(all, waiting, handled) ==
  /\ IsSeq(all) /\ IsSeq(waiting) /\ IsSeq(handled)
  /\ Len(all) >= 6 /\ Len(handled) = Len(all)
  /\ all[a_sink].beh = "sink_beh"
  /\ \A a \in 2 .. 6 : all[a].beh \in {"unit_type", "null_type", "any_type", "bool_type"}
  /\ \A a \in DOMAIN all : all[a].beh \in Kinds
  /\ \A a \in DOMAIN handled : handled[a] \in Nat

StateOK(all, row, a, b, s) ==
  /\ ObjectOK(all, b, s)
  /\ CustomerOK(all, b, s)
  /\ ForkJoinOK(all, a, b, s)
  /\ MapOK(all, row, a, b, s)

StatesOK(all, row) ==
  /\ DOMAIN row = DOMAIN all
  /\ \A a \in DOMAIN all :
       /\ StateOK(all, row, a, all[a].beh, all[a].mine)
       /\ \A k \in Keeps(all, a) : k < a \/ all[a].beh \in MapBehs

(* Reports that may still be made, and failures that are reported.         *)
Told(all, waiting, written, open) ==
  /\ IsSeq(written)
  /\ open \subseteq {a \in DOMAIN all : all[a].beh \in OpenBehs}
  /\ \A a \in DOMAIN all :
       /\ all[a].beh = "report_beh" => a \in open
       /\ all[a].beh = "throw_beh" =>
            \/ \E i \in DOMAIN written : written[i] = "FAIL!"
            \/ \E i \in DOMAIN waiting : waiting[i].to \in DOMAIN all /\ all[waiting[i].to].beh = "throw_beh"

Orderly(all, waiting, handled, written, ended, open, row) ==
  /\ Shape(all, waiting, handled)
  /\ StatesOK(all, row)
  /\ \A i \in DOMAIN waiting : MessageOK(all, row, waiting[i])
  /\ ~ended => \A i \in DOMAIN waiting : waiting[i].to \in DOMAIN all
  /\ Told(all, waiting, written, open)
  /\ Unshared(all, waiting, open, row)
  /\ Unanswered(all, waiting, handled, open, row)
  /\ Remembered(all, waiting, open, row)
  /\ Joined(all, open)
  /\ Rows(all, waiting, open, row)

Invariant(open, row) == Orderly(actors, queue, turns, out, aborted, open, row)
=============================================================================
