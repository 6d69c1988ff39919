------------------------------ MODULE Evaluator ------------------------------
(***************************************************************************)
(* All behaviours of the interpreter: those of the evaluator, and the ones *)
(* that report a value.                                                    *)
(***************************************************************************)
EXTENDS Encapsulation

newline_beh ==
  /\ Behaves("newline_beh")
  /\ Handle(actors, <<Message(MINE.cust, Value(MINE.val))>>, <<"\n">>)

(* The value is written; another one would abort the program (abort_beh).  *)
report_beh ==
  /\ Behaves("report_beh")
  /\ Handle(Changed(SELF, "abort_beh", NIL) \o <<Actor("newline_beh", [cust |-> MINE, val |-> WHAT.val])>>,
            <<Message(WHAT.val, Request("write", New(1)))>>, << >>)

EvaluatorNext ==
  \/ sink_beh \/ throw_beh
  \/ ForkJoinNext \/ ObjectNext \/ EnvironmentNext
  \/ CombinerNext \/ MapNext \/ EncapsulationNext
  \/ newline_beh \/ report_beh

(* C code outside of behaviours creates actors and sends messages.         *)
Outside(new, sent) ==
  /\ turns' = turns \o [i \in DOMAIN new |-> 0]
  /\ queue' = queue \o sent
  /\ actors' = actors \o new
  /\ UNCHANGED <<out, aborted>>

-----------------------------------------------------------------------------
(* init_kernel                                                             *)

ArgsOper(args_beh) == Actor("args_oper", args_beh)
TypePred(type) == Actor("type_pred_oper", [type |-> type, brand |-> NIL])

Applicatives ==
  << <<"time-now", ArgsOper("time_args_beh")>>,
     <<"make-encapsulation-type", ArgsOper("brand_args_beh")>>,
     <<"+", Actor("num_foldl_oper", [zero |-> 0, oplus |-> "num_plus_op"])>>,
     <<"*", Actor("num_foldl_oper", [zero |-> 1, oplus |-> "num_times_op"])>>,
     <<"=?", Actor("num_rel_oper", "num_eq_rel")>>,
     <<"<?", Actor("num_rel_oper", "num_lt_rel")>>,
     <<"<=?", Actor("num_rel_oper", "num_le_rel")>>,
     <<">=?", Actor("num_rel_oper", "num_ge_rel")>>,
     <<">?", Actor("num_rel_oper", "num_gt_rel")>>,
     <<"map", ArgsOper("map_args_beh")>>,
     <<"make-environment", ArgsOper("make_env_args_beh")>>,
     <<"eval", ArgsOper("eval_args_beh")>>,
     <<"apply", ArgsOper("apply_args_beh")>>,
     <<"copy-es-immutable", ArgsOper("copy_es_immutable_args_beh")>>,
     <<"set-car!", ArgsOper("set_car_args_beh")>>,
     <<"set-cdr!", ArgsOper("set_cdr_args_beh")>>,
     <<"newline", ArgsOper("newline_args_beh")>>,
     <<"write", ArgsOper("write_args_beh")>>,
     <<"cons", ArgsOper("cons_args_beh")>>,
     <<"car", Actor("car_oper", NIL)>>,
     <<"cdr", Actor("cdr_oper", NIL)>>,
     <<"eq?", Actor("obj_rel_oper", "eq")>>,
     <<"equal?", Actor("obj_rel_oper", "eq_now")>>,
     <<"unwrap", ArgsOper("unwrap_args_beh")>>,
     <<"wrap", ArgsOper("wrap_args_beh")>>,
     <<"list", Actor("list_oper", NIL)>>,
     <<"number?", TypePred("number_type")>>,
     <<"environment?", TypePred("env_type")>>,
     <<"operative?", TypePred("oper_type")>>,
     <<"applicative?", TypePred("appl_type")>>,
     <<"symbol?", TypePred("symbol_type")>>,
     <<"ignore?", TypePred("any_type")>>,
     <<"inert?", TypePred("unit_type")>>,
     <<"boolean?", TypePred("bool_type")>>,
     <<"pair?", TypePred("pair_type")>>,
     <<"null?", TypePred("null_type")>> >>

Operatives ==
  << <<"$timed", Actor("timed_oper", NIL)>>,
     <<"$concurrent", Actor("concurrent_oper", NIL)>>,
     <<"$if", ArgsOper("if_args_beh")>>,
     <<"$lambda", Actor("lambda_oper", NIL)>>,
     <<"$vau", Actor("vau_oper", NIL)>>,
     <<"$define!", ArgsOper("define_args_beh")>>,
     <<"$sequence", Actor("sequence_oper", NIL)>> >>

(* The combiners, after the constants; then the applicatives that wrap the *)
(* first of them; then the environment.                                    *)
Primitives == Applicatives \o Operatives
Constant(i) == Len(Constants) + i
a_kernel_env == Constant(Len(Primitives) + Len(Applicatives) + 1)

ground_map ==
  [name \in {Primitives[i][1] : i \in DOMAIN Primitives} |->
     LET i == CHOOSE i \in DOMAIN Primitives : Primitives[i][1] = name
     IN IF i <= Len(Applicatives) THEN Constant(Len(Primitives) + i) ELSE Constant(i)]

init_kernel ==
  /\ actors = Constants
                \o [i \in DOMAIN Primitives |-> Primitives[i][2]]
                \o [i \in DOMAIN Applicatives |-> Actor("appl_type", Constant(i))]
                \o <<Actor("env_type", Env(NIL, ground_map))>>
  /\ queue = << >>
  /\ out = << >>
  /\ aborted = FALSE
  /\ turns = [a \in 1 .. a_kernel_env |-> 0]

-----------------------------------------------------------------------------
(* The interpreter with any code around it that reads expressions and has  *)
(* them evaluated, as the loop of module Kernel does.                      *)

(* The n actors that C code has made.                                      *)
Made(n) == [i \in 1 .. n |-> actors'[Len(actors) + i]]

(* What the text of an expression may stand for: nothing that is an actor, *)
(* a constant, a symbol read before, or one of n new actors.               *)
Legible(n) ==
  {NIL, NotActor} \cup (a_inert .. a_false) \cup {a \in DOMAIN actors : actors[a].beh = "symbol_type"}
    \cup (New(1) .. New(n))

(* Numbers, symbols and immutable pairs.                                   *)
IsText(actor, n) ==
  \/ actor.beh \in {"number_type", "symbol_type"}
  \/ actor.beh = "pair_type" /\ {actor.mine.hd, actor.mine.tl} \subseteq Legible(n)

(* An expression is read, or as much of one as there is; what was read is  *)
(* evaluated in an environment, with or without a report.                  *)
Reads ==
  \E n \in 0 .. Len(actors') - Len(actors) :
    /\ \A i \in 1 .. n : IsText(Made(n)[i], n)
    /\ \/ Outside(Made(n), << >>)
       \/ \E x \in Legible(n) \cap DOMAIN actors', env \in DOMAIN actors :
            /\ actors[env].beh = "env_type"
            /\ \/ Outside(Made(n), <<Message(x, Eval(a_sink, env))>>)
               \/ Outside(Made(n) \o <<Actor("report_beh", a_sink)>>, <<Message(x, Eval(New(n + 1), env))>>)

(* A new environment for definitions.                                      *)
Opens ==
  \E env \in DOMAIN actors :
    actors[env].beh = "env_type" /\ Outside(<<Actor("env_type", Env(env, Empty))>>, << >>)

EvaluatorSpec == init_kernel /\ [][EvaluatorNext \/ Reads \/ Opens]_vars

-----------------------------------------------------------------------------
(* Objects that never change, and those whose contents may.                *)
Immutable ==
  {"unit_type", "null_type", "any_type", "bool_type", "number_type", "symbol_type", "time_type",
   "pair_type", "sealed_type", "brand_type", "appl_type",
   "vau_type", "lambda_type", "args_oper", "brand_oper", "vau_oper", "lambda_oper",
   "sequence_oper", "concurrent_oper", "timed_oper", "type_pred_oper", "obj_rel_oper", "list_oper",
   "car_oper", "cdr_oper", "num_rel_oper", "num_foldl_oper"}
Mutable == {"cons_type", "env_type"}

(* What a program takes for an immutable pair, a closure, a wrapped        *)
(* combiner or a sealed value never changes, and what changes stays the    *)
(* kind of object it is: a behaviour that becomes another one (BECOME) is  *)
(* no object of the language.                                              *)
ImmutableStay ==
  [][\A a \in DOMAIN actors :
       /\ actors[a].beh \in Immutable => actors'[a] = actors[a]
       /\ actors[a].beh \in Mutable => actors'[a].beh = actors[a].beh]_vars
(* Customers that wait for one thing get one message: no two steps of an   *)
(* evaluation answer the same customer.  A report becomes abort_beh, which *)
(* asserts that there is not another one.                                  *)
OneShot ==
  {"tag_beh", "command_beh", "pair_comb_beh", "pair_copy_beh", "pair_map_beh", "pair_foldl_beh",
   "pair_write_tail_beh", "dotted_tail_beh", "dotted_close_beh", "appl_args_beh", "if_args_beh", "if_test_beh",
   "define_args_beh", "define_match_beh", "lambda_vars_beh", "apply_args_beh", "eval_args_beh", "newline_beh",
   "throw_beh", "timed_cust_beh", "wrap_args_beh", "unwrap_args_beh", "make_env_args_beh", "cons_args_beh",
   "set_car_args_beh", "set_cdr_args_beh", "copy_es_immutable_args_beh", "write_args_beh", "newline_args_beh",
   "seal_args_beh", "unseal_args_beh", "brand_args_beh", "time_args_beh", "report_beh", "abort_beh"}

AnsweredOnce ==
  /\ \A a \in DOMAIN actors : actors[a].beh \in OneShot => turns[a] <= 1
  /\ \A i \in DOMAIN queue : queue[i].to \in DOMAIN actors => actors[queue[i].to].beh # "abort_beh"

(* When nothing is left to deliver, every expression whose value was to be *)
(* reported has been answered, unless a failure was reported.              *)
NothingLost ==
  queue = << >> /\ ~aborted =>
    \/ \A a \in DOMAIN actors : actors[a].beh # "report_beh"
    \/ \E i \in DOMAIN out : out[i] = "FAIL!"

(* What copy-es-immutable makes, and with it the parameters and the body   *)
(* of a closure, has no mutable pair inside.                               *)
CopiesAreDeep ==
  \A a \in DOMAIN actors :
    actors[a].beh = "pair_type" => ~Is("cons_type", actors[a].mine.hd) /\ ~Is("cons_type", actors[a].mine.tl)
=============================================================================
