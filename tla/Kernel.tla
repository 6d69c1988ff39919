------------------------------- MODULE Kernel -------------------------------
(***************************************************************************)
(* The interpreter: the global actors, and the loop that reads expressions *)
(* from one source after the other, has each evaluated and delivers        *)
(* messages until none is left or the message limit is reached; what is    *)
(* left then is delivered with the messages of the next expression.        *)
(***************************************************************************)
EXTENDS Evaluator, Reader

CONSTANTS
  Inputs,  \* what the program may be started with: sources, a limit, an output
  q_limit  \* most messages that may wait after a delivery

ASSUME KernelAssumption == q_limit \in Nat /\ \A i \in Inputs : i.M_limit \in Int

VARIABLES
  pc,           \* where the loop is
  sources,      \* what the program was started on
  M_limit,      \* most messages delivered for one expression (option -M)
  optind,       \* the next source, or the one being read
  unread,       \* what is left of the source that is being read
  symbols,      \* interned symbols
  a_ground_env, \* the environment that expressions are evaluated in
  msg_limit     \* messages that may still be delivered for this expression

given == <<sources, M_limit, sink_fails>>
loopVars == <<pc, given, optind, unread, symbols, a_ground_env, msg_limit>>
kernelVars == <<vars, loopVars>>

-----------------------------------------------------------------------------
Init ==
  /\ init_kernel
  /\ pc = "open"
  /\ \E input \in Inputs :
       /\ sources = input.sources
       /\ M_limit = input.M_limit
       /\ sink_fails = input.sink_fails
  /\ optind = 1
  /\ unread = << >>
  /\ symbols = Empty
  /\ a_ground_env = a_kernel_env
  /\ msg_limit = 0

-----------------------------------------------------------------------------
(* The loop.                                                               *)

(* read_eval_print_loop: a new environment on top of the definitions.      *)
OpenSource ==
  /\ pc = "open"
  /\ optind <= Len(sources)
  /\ unread' = sources[optind].text
  /\ Outside(<<Actor("env_type", Env(a_ground_env, Empty))>>, << >>)
  /\ a_ground_env' = New(1)
  /\ pc' = "read"
  /\ UNCHANGED <<given, optind, symbols, msg_limit>>

reading == read_sexpr(Source(unread, << >>, symbols))

(* The actor that is told the value of what was read.                      *)
Faulty_report(made) == New(1)
report(made) == New(Len(made) + 1)

ReadExpression ==
  /\ pc = "read"
  /\ \E x \in {reading} :
       /\ x.kind = "actor"
       /\ LET made == x.src.made
              eval(k) == <<Message(x.val, Eval(k, a_ground_env))>>
          IN IF sources[optind].interactive
             THEN Outside(made \o <<Actor("report_beh", a_sink)>>, eval(report(made)))
             ELSE Outside(made, eval(a_sink))
       /\ symbols' = x.src.symbols
       /\ unread' = x.src.text
  /\ msg_limit' = M_limit
  /\ pc' = "run"
  /\ UNCHANGED <<given, optind, a_ground_env>>

(* The end of the text, or something else that is no expression.           *)
CloseSource ==
  /\ pc = "read"
  /\ \E x \in {reading} :
       /\ x.kind # "actor"
       /\ Outside(x.src.made, << >>)
       /\ symbols' = x.src.symbols
       /\ unread' = x.src.text
  /\ pc' = "open"
  /\ optind' = optind + 1
  /\ UNCHANGED <<given, a_ground_env, msg_limit>>

(* A message is delivered (run_repl, run_configuration).                   *)
Deliver ==
  /\ pc = "run"
  /\ msg_limit > 0
  /\ EvaluatorNext
  /\ msg_limit' = msg_limit - 1
  /\ pc' = IF Len(queue') > q_limit THEN "overrun" ELSE "run"
  /\ UNCHANGED <<given, optind, unread, symbols, a_ground_env>>

FaultyRunReturns ==
  /\ pc = "run"
  /\ queue = << >> \/ msg_limit <= 0
  /\ UNCHANGED kernelVars

(* Less than nothing left of the limit is an overrun to run_repl.          *)
RunReturns ==
  /\ pc = "run"
  /\ queue = << >> \/ msg_limit <= 0
  /\ pc' = IF msg_limit < 0 THEN "overrun" ELSE "read"
  /\ UNCHANGED <<vars, given, optind, unread, symbols, a_ground_env, msg_limit>>

Finished == pc = "open" /\ optind > Len(sources)

(* The program has ended, or has been ended by an assertion or the limit.  *)
Ended ==
  /\ \/ Finished
     \/ pc = "overrun"
     \/ aborted
  /\ UNCHANGED kernelVars

Next ==
  \/ ~aborted /\ (OpenSource \/ ReadExpression \/ CloseSource \/ Deliver \/ RunReturns)
  \/ Ended

Spec == Init /\ [][Next]_kernelVars /\ WF_kernelVars(Next)

-----------------------------------------------------------------------------
(* Properties.                                                             *)

(* The state is of the expected shape; in particular a symbol is interned  *)
(* under its own name, and expressions have an environment.                *)
TypeOK ==
  /\ Len(turns) = Len(actors)
  /\ \A a \in DOMAIN turns : turns[a] \in Nat
  /\ \A i \in DOMAIN queue : ~aborted => queue[i].to \in DOMAIN actors
  /\ pc \in {"open", "read", "run", "overrun"}
  /\ optind \in 1 .. Len(sources) + 1
  /\ \A name \in DOMAIN symbols : Is("symbol_type", symbols[name]) /\ actors[symbols[name]].mine = name
  /\ Is("env_type", a_ground_env)
  /\ msg_limit \in 0 .. M_limit \cup {0, M_limit}

(* The interpreter comes to the end of its sources, unless the limit that  *)
(* it was given is negative, which run_repl takes for an overrun.          *)
Ends == M_limit >= 0 => <>Finished
=============================================================================
