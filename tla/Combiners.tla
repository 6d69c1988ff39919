------------------------------ MODULE Combiners ------------------------------
(***************************************************************************)
(* Operatives and applicatives, and what they do with their operands: the  *)
(* evaluator proper.  An operative gets its operands as they are; an       *)
(* applicative wraps a combiner and has its operands evaluated first.      *)
(* args_oper hands its operands, as a list in C, to a new customer with    *)
(* the behaviour that it was created with.                                 *)
(***************************************************************************)
EXTENDS Environments

ProperTuple(s) == [op |-> "args", args |-> s]
FALSETuple == [op |-> "FALSE"]

(* A list is followed by the tails of its pairs.  One that comes back to   *)
(* where it was has no end, and the C code that follows it does not return.*)
tails == [v \in Int |-> IF IsPair(v) THEN Tl(v) ELSE v]
walk(list) == LET step[k \in Nat] == IF k = 0 THEN list ELSE tails[step[k - 1]] IN step

HasEnd(list) == ~IsPair(walk(list)[Len(actors)])
length(list) ==
  CHOOSE n \in 0 .. Len(actors) : ~IsPair(walk(list)[n]) /\ \A k \in 0 .. n - 1 : IsPair(walk(list)[k])

(* The elements of a list, and what its last pair ends in.                 *)
elements(list) == [i \in 1 .. length(list) |-> Hd(walk(list)[i - 1])]
end(list) == walk(list)[length(list)]

as_tuple(list) == IF Is("null_type", end(list)) THEN ProperTuple(elements(list)) ELSE FALSETuple

oper_type == Typed("oper_type", "#operative")

Operative(b, comb) == Behaves(b) /\ IF WHAT.op = "comb" THEN comb ELSE oper_type

(* An operative that follows the list of its operands.                     *)
Listing(b, comb) == Operative(b, HasEnd(WHAT.opnds) /\ comb)

args_oper ==
  Listing("args_oper",
          React(<<Actor(MINE, [cust |-> WHAT.cust, env |-> WHAT.env])>>,
                <<Message(New(1), as_tuple(WHAT.opnds))>>))

(* Customers of operands, which are created for one combination, fail if   *)
(* there are not n of them.                                                *)
HasArgs(n) == WHAT.op = "args" /\ Len(WHAT.args) = n
Arg(i) == WHAT.args[i]
TakesArgs(b, n, result) == Behaves(b) /\ IF HasArgs(n) THEN result ELSE Throw

-----------------------------------------------------------------------------
(* Applicatives.                                                           *)

appl_type ==
  /\ Behaves("appl_type")
  /\ CASE WHAT.op = "comb" ->
            React(<<Actor("appl_args_beh", [cust |-> WHAT.cust, comb |-> MINE, env |-> WHAT.env])>>,
                  <<Message(WHAT.opnds, Map(New(1), Eval(NIL, WHAT.env)))>>)
       [] WHAT.op = "unwrap" -> Reply(MINE)
       [] OTHER -> Typed("appl_type", "#applicative")

appl_args_beh ==
  Behaves("appl_args_beh") /\ Send(MINE.comb, Comb(MINE.cust, WHAT.val, MINE.env))

appl_unwrap(appl) == IF Is("appl_type", appl) THEN actors[appl].mine ELSE NotActor

wrap_args_beh == TakesArgs("wrap_args_beh", 1, Answer(MINE.cust, "appl_type", Arg(1)))

unwrap_args_beh ==
  TakesArgs("unwrap_args_beh", 1,
            IF appl_unwrap(Arg(1)) \in DOMAIN actors
            THEN Send(MINE.cust, Value(appl_unwrap(Arg(1))))
            ELSE Throw)

-----------------------------------------------------------------------------
(* Evaluation, definition and control.                                     *)

InOrder(k, env) == Foldl(k, a_inert, "pair_tail", Eval(NIL, env))

sequence_oper == Operative("sequence_oper", Send(WHAT.opnds, InOrder(WHAT.cust, WHAT.env)))

eval_args_beh == TakesArgs("eval_args_beh", 2, Send(Arg(1), Eval(MINE.cust, Arg(2))))

(* Without an environment a new one is made; with more than one the rest   *)
(* of the list is taken for an environment.  The target is not tested.     *)
apply_args_beh ==
  /\ Behaves("apply_args_beh")
  /\ IF WHAT.op = "args" /\ Len(WHAT.args) >= 2
     THEN LET comb == appl_unwrap(Arg(1))
              with(env) == <<Message(comb, Comb(MINE.cust, Arg(2), env))>>
          IN CASE Len(WHAT.args) = 2 -> React(<<Actor("env_type", Env(NIL, Empty))>>, with(New(1)))
               [] Len(WHAT.args) = 3 -> React(<< >>, with(Arg(3)))
               [] OTHER -> React(<< >>, with(NotActor))
     ELSE Throw

define_args_beh ==
  TakesArgs("define_args_beh", 2,
            React(<<Actor("define_match_beh", [cust |-> MINE.cust, ptree |-> Arg(1), env |-> MINE.env])>>,
                  <<Message(Arg(2), Eval(New(1), MINE.env))>>))

if_args_beh ==
  TakesArgs("if_args_beh", 3,
            React(<<Actor("if_test_beh", [cust |-> MINE.cust, cnsq |-> Arg(2), altn |-> Arg(3), env |-> MINE.env])>>,
                  <<Message(Arg(1), Eval(New(1), MINE.env))>>))

if_test_beh ==
  /\ Behaves("if_test_beh")
  /\ Send(WHAT.val, [op |-> "if", cust |-> MINE.cust, cnsq |-> MINE.cnsq, altn |-> MINE.altn, env |-> MINE.env])

(* An argument list that is not a list becomes the parent.                 *)
make_env_args_beh ==
  /\ Behaves("make_env_args_beh")
  /\ CASE WHAT.op = "FALSE" -> Answer(MINE.cust, "env_type", Env(NotActor, Empty))
       [] HasArgs(0) -> Answer(MINE.cust, "env_type", Env(NIL, Empty))
       [] HasArgs(1) -> Answer(MINE.cust, "env_type", Env(Arg(1), Empty))
       [] OTHER -> Throw

(* The operands are evaluated one after the other without waiting for the  *)
(* result, which goes to the sink.                                         *)
concurrent_oper ==
  Listing("concurrent_oper",
          React(<<Actor("concurrent_args_beh", WHAT.env)>>,
                <<Message(New(1), as_tuple(WHAT.opnds)), Message(WHAT.cust, Value(a_inert))>>))

concurrent_args_beh ==
  /\ Behaves("concurrent_args_beh")
  /\ IF WHAT.op = "args" /\ WHAT.args # << >>
     THEN React(<< >>, <<Message(Arg(1), Eval(a_sink, MINE)), Message(SELF, ProperTuple(Tail(WHAT.args)))>>)
     ELSE Ignore

-----------------------------------------------------------------------------
(* Operatives that programs make.  Their parameters and body are a copy    *)
(* that nobody can change.                                                 *)

(* A closure is called: a new environment for its parameters, in which its *)
(* body is evaluated.  all has what the parameters bind.                   *)
Call(all) ==
  LET m == BindAll(all, Empty, FALSE)
  IN IF m.ok
     THEN React(<<Actor("env_type", Env(MINE.env, m.map))>>, <<Message(MINE.body, InOrder(WHAT.cust, New(1)))>>)
     ELSE Throw

(* The parameters of $vau are matched with a pair of operands and caller's *)
(* environment that is not used otherwise.                                 *)
vau_type ==
  Operative("vau_type",
            Call(leaves(Hd(MINE.ptree), WHAT.opnds) \o leaves(Tl(MINE.ptree), WHAT.env)))

lambda_type == Operative("lambda_type", Call(leaves(MINE.ptree, WHAT.opnds)))

Closure(b) ==
  React(<<Actor(b, [cust |-> WHAT.cust, env |-> WHAT.env]), Actor("command_beh", Request("as_pair", New(1)))>>,
        <<Message(WHAT.opnds, Request("copy_immutable", New(2)))>>)

vau_oper == Operative("vau_oper", Closure("vau_vars_beh"))
lambda_oper == Operative("lambda_oper", Closure("lambda_vars_beh"))

vau_vars_beh ==
  /\ Behaves("vau_vars_beh")
  /\ IF WHAT.op = "pair"
     THEN Become("vau_evar_beh", [cust |-> MINE.cust, vars |-> WHAT.hd, env |-> MINE.env],
                 <<Message(WHAT.tl, Request("as_pair", SELF))>>)
     ELSE Throw

vau_evar_beh ==
  /\ Behaves("vau_evar_beh")
  /\ IF WHAT.op = "pair"
     THEN React(<<Actor("pair_type", Halves(MINE.vars, WHAT.hd)),
                  Actor("vau_type", [ptree |-> New(1), body |-> WHAT.tl, env |-> MINE.env])>>,
                <<Message(MINE.cust, Value(New(2)))>>)
     ELSE Throw

lambda_vars_beh ==
  /\ Behaves("lambda_vars_beh")
  /\ IF WHAT.op = "pair"
     THEN React(<<Actor("lambda_type", [ptree |-> WHAT.hd, body |-> WHAT.tl, env |-> MINE.env]),
                  Actor("appl_type", New(1))>>,
                <<Message(MINE.cust, Value(New(2)))>>)
     ELSE Throw

-----------------------------------------------------------------------------
(* Predicates and operations on pairs.                                     *)

type_pred_oper ==
  Operative("type_pred_oper",
            Send(WHAT.opnds,
                 Foldl(WHAT.cust, a_true, "boolean_and",
                       [op |-> "type_eq", cust |-> NIL, type |-> MINE.type, brand |-> MINE.brand])))

(* The same object, or the same structure of objects that cannot change.   *)
eq[x \in Int, y \in Int] ==
  \/ x = y
  \/ /\ {x, y} \subseteq DOMAIN actors
     /\ actors[x].beh = actors[y].beh
     /\ actors[x].beh \notin {"cons_type", "env_type", "brand_type", "sealed_type"}
     /\ LET p == actors[x].mine
            q == actors[y].mine
        IN CASE actors[x].beh = "pair_type" -> eq[p.hd, q.hd] /\ eq[p.tl, q.tl]
             [] actors[x].beh \in {"vau_type", "lambda_type"} ->
                  eq[p.ptree, q.ptree] /\ eq[p.body, q.body] /\ eq[p.env, q.env]
             [] actors[x].beh = "appl_type" -> eq[p, q]
             [] OTHER -> p = q

(* The same value now, even if mutable.                                    *)
eq_now[x \in Int, y \in Int] ==
  eq[x, y] \/ (IsPair(x) /\ IsPair(y) /\ eq_now[Hd(x), Hd(y)] /\ eq_now[Tl(x), Tl(y)])

obj_rel_oper ==
  Listing("obj_rel_oper",
          LET args == elements(WHAT.opnds)
          IN Reply(Boolean(\A i \in 1 .. Len(args) - 1 :
                             IF MINE = "eq" THEN eq[args[i], args[i + 1]] ELSE eq_now[args[i], args[i + 1]])))

list_oper == Operative("list_oper", Reply(WHAT.opnds))

cons_args_beh == TakesArgs("cons_args_beh", 2, Answer(MINE.cust, "cons_type", Halves(Arg(1), Arg(2))))

(* The one operand is a pair.                                              *)
OnePair == IsPair(WHAT.opnds) /\ Tl(WHAT.opnds) = a_nil /\ IsPair(Hd(WHAT.opnds))

car_oper == Operative("car_oper", IF OnePair THEN Reply(Hd(Hd(WHAT.opnds))) ELSE Throw)
cdr_oper == Operative("cdr_oper", IF OnePair THEN Reply(Tl(Hd(WHAT.opnds))) ELSE Throw)

set_car_args_beh ==
  TakesArgs("set_car_args_beh", 2, Send(Arg(1), [op |-> "set_car", cust |-> MINE.cust, val |-> Arg(2)]))
set_cdr_args_beh ==
  TakesArgs("set_cdr_args_beh", 2, Send(Arg(1), [op |-> "set_cdr", cust |-> MINE.cust, val |-> Arg(2)]))
copy_es_immutable_args_beh ==
  TakesArgs("copy_es_immutable_args_beh", 1, Send(Arg(1), Request("copy_immutable", MINE.cust)))

write_args_beh == TakesArgs("write_args_beh", 1, Send(Arg(1), Request("write", MINE.cust)))
newline_args_beh == TakesArgs("newline_args_beh", 0, Put("\n", << >>, MINE.cust))

CombinerNext ==
  \/ command_beh \/ args_oper
  \/ appl_type \/ appl_args_beh \/ wrap_args_beh \/ unwrap_args_beh
  \/ sequence_oper \/ eval_args_beh \/ apply_args_beh \/ define_args_beh
  \/ if_args_beh \/ if_test_beh \/ make_env_args_beh
  \/ concurrent_oper \/ concurrent_args_beh
  \/ vau_type \/ lambda_type \/ vau_oper \/ lambda_oper
  \/ vau_vars_beh \/ vau_evar_beh \/ lambda_vars_beh
  \/ type_pred_oper \/ obj_rel_oper \/ list_oper
  \/ cons_args_beh \/ car_oper \/ cdr_oper
  \/ set_car_args_beh \/ set_cdr_args_beh \/ copy_es_immutable_args_beh
  \/ write_args_beh \/ newline_args_beh
=============================================================================
