---------------------------- MODULE Encapsulation ----------------------------
(***************************************************************************)
(* Encapsulation types, arithmetic and time.  make-encapsulation-type      *)
(* makes a brand and three applicatives: one seals a value with the brand, *)
(* one recognizes what it sealed, and one gets the value back.             *)
(***************************************************************************)
EXTENDS KernelMap

LOCAL INSTANCE SequencesExt

CONSTANT Times  \* what NOW may be
ASSUME TimesAssumption == Times \subseteq Int /\ Times # {}

sealed_type ==
  /\ Behaves("sealed_type")
  /\ CASE WHAT.op = "type_eq" -> Reply(Boolean(WHAT.brand = MINE.brand))
       [] WHAT.op = "unseal" /\ WHAT.brand = MINE.brand -> Reply(MINE.val)
       [] OTHER -> Typed("sealed_type", "#encapsulation")

brand_type ==
  Behaves("brand_type") /\ Answer(WHAT.cust, "sealed_type", [brand |-> SELF, val |-> WHAT.val])

brand_oper ==
  Listing("brand_oper",
          React(<<Actor(MINE.args_beh, [cust |-> WHAT.cust, brand |-> MINE.brand])>>,
                <<Message(New(1), as_tuple(WHAT.opnds))>>))

seal_args_beh ==
  TakesArgs("seal_args_beh", 1, Send(MINE.brand, [op |-> "seal", cust |-> MINE.cust, val |-> Arg(1)]))
unseal_args_beh ==
  TakesArgs("unseal_args_beh", 1, Send(Arg(1), [op |-> "unseal", cust |-> MINE.cust, brand |-> MINE.brand]))

brand_args_beh ==
  TakesArgs("brand_args_beh", 0,
            React(<<Actor("brand_type", NIL),
                    Actor("brand_oper", [brand |-> New(1), args_beh |-> "seal_args_beh"]),
                    Actor("appl_type", New(2)),
                    Actor("type_pred_oper", [type |-> "brand", brand |-> New(1)]),
                    Actor("appl_type", New(4)),
                    Actor("brand_oper", [brand |-> New(1), args_beh |-> "unseal_args_beh"]),
                    Actor("appl_type", New(6)),
                    Actor("cons_type", Halves(New(7), a_nil)),
                    Actor("cons_type", Halves(New(5), New(8))),
                    Actor("cons_type", Halves(New(3), New(9)))>>,
                  <<Message(MINE.cust, Value(New(10)))>>))

-----------------------------------------------------------------------------
(* Arithmetic.  The width of C integers is not modelled.                   *)

IsNumber(v) == Is("number_type", v)
number_value(v) == actors[v].mine

Related(rel, p, q) ==
  CASE rel = "num_eq_rel" -> p = q
    [] rel = "num_lt_rel" -> p < q
    [] rel = "num_le_rel" -> p <= q
    [] rel = "num_ge_rel" -> p >= q
    [] rel = "num_gt_rel" -> p > q

(* Neighbours are compared from left to right until two are not related;   *)
(* an operand that is reached before and is not a number is an error.      *)
num_rel_oper ==
  Listing("num_rel_oper",
    LET args == elements(WHAT.opnds)
        Numbers(i) == IsNumber(args[i]) /\ IsNumber(args[i + 1])
        Fails(i) == Numbers(i) => ~Related(MINE, number_value(args[i]), number_value(args[i + 1]))
        failing == {i \in 1 .. Len(args) - 1 : Fails(i)}
        first == CHOOSE i \in failing : \A j \in failing : i <= j
    IN CASE failing = {} -> Reply(a_true)
         [] failing # {} /\ Numbers(first) -> Reply(a_false)
         [] OTHER -> Throw)

num_foldl_oper ==
  Listing("num_foldl_oper",
    LET args == elements(WHAT.opnds)
        oplus(p, q) == IF MINE.oplus = "num_plus_op" THEN p + q ELSE p * q
    IN IF \A i \in DOMAIN args : IsNumber(args[i])
       THEN Answer(WHAT.cust, "number_type",
                   FoldLeft(LAMBDA z, v : oplus(z, number_value(v)), MINE.zero, args))
       ELSE Throw)

-----------------------------------------------------------------------------
(* Time.  NOW is any time; its representation and writing are left out.    *)

time_type == Behaves("time_type") /\ Typed("time_type", "#time")

time_args_beh ==
  \E now \in Times : TakesArgs("time_args_beh", 0, Answer(MINE.cust, "time_type", now))

timed_oper ==
  \E now \in Times :
    Operative("timed_oper",
              React(<<Actor("timed_cust_beh", [cust |-> WHAT.cust, start |-> now])>>,
                    <<Message(WHAT.opnds, InOrder(New(1), WHAT.env))>>))

timed_cust_beh ==
  \E now \in Times : Behaves("timed_cust_beh") /\ Answer(MINE.cust, "number_type", now - MINE.start)

EncapsulationNext ==
  \/ sealed_type \/ brand_type \/ brand_oper
  \/ seal_args_beh \/ unseal_args_beh \/ brand_args_beh
  \/ num_rel_oper \/ num_foldl_oper
  \/ time_type \/ time_args_beh \/ timed_oper \/ timed_cust_beh
=============================================================================
