--------------------------- MODULE EvaluatorProofs ---------------------------
(***************************************************************************)
(* Proofs about the behaviours of the interpreter: what they leave of the  *)
(* objects, and, in terms of module Customers, what a step must do to      *)
(* leave an orderly state orderly, and that objects, pairs, environments   *)
(* and the customers of pairs take such steps. Module BehaviourProofs      *)
(* shows it for the other behaviours.                                      *)
(***************************************************************************)
EXTENDS Customers, Inductions, TLAPS

(* What a step leaves of the objects.                                      *)
ObjectsKept ==
  \A a \in DOMAIN actors :
    /\ actors[a].beh \in Immutable => actors'[a] = actors[a]
    /\ actors[a].beh \in Mutable => actors'[a].beh = actors[a].beh

Kept == IsSeq(actors') /\ ObjectsKept

LEMMA Concatenated ==
  ASSUME NEW s, IsSeq(s), NEW t, IsSeq(t)
  PROVE  IsSeq(s \o t) /\ \A i \in DOMAIN s : (s \o t)[i] = s[i]
<1>1. PICK S : s \in Seq(S)
  BY DEF IsSeq
<1>2. PICK T : t \in Seq(T)
  BY DEF IsSeq
<1>3. PICK U : U = S \cup T
  OBVIOUS
<1>4. s \in Seq(U) /\ t \in Seq(U)
  BY <1>1, <1>2, <1>3
<1>5. s \o t \in Seq(U) /\ \A i \in 1 .. Len(s) : (s \o t)[i] = s[i]
  BY <1>4
<1> QED
  BY <1>4, <1>5 DEF IsSeq

LEMMA LengthIs ==
  ASSUME NEW s, IsSeq(s)
  PROVE  Len(s) \in Nat /\ DOMAIN s = 1 .. Len(s)
<1>1. PICK S : s \in Seq(S)
  BY DEF IsSeq
<1> QED
  BY <1>1

LEMMA ConcatenatedAt ==
  ASSUME NEW s, IsSeq(s), NEW t, IsSeq(t), NEW p, p = s \o t
  PROVE  /\ IsSeq(p)
         /\ Len(p) = Len(s) + Len(t)
         /\ DOMAIN p = 1 .. Len(s) + Len(t)
         /\ \A i \in 1 .. Len(s) : p[i] = s[i]
         /\ \A i \in Len(s) + 1 .. Len(s) + Len(t) : p[i] = t[i - Len(s)]
<1>1. PICK S, T : s \in Seq(S) /\ t \in Seq(T)
  BY DEF IsSeq
<1>2. PICK U : U = S \cup T
  OBVIOUS
<1>3. s \in Seq(U) /\ t \in Seq(U)
  BY <1>1, <1>2
<1>4. s \o t \in Seq(U) /\ Len(s \o t) = Len(s) + Len(t)
  BY <1>3
<1>5. \A i \in 1 .. Len(s) + Len(t) : (s \o t)[i] = IF i <= Len(s) THEN s[i] ELSE t[i - Len(s)]
  BY <1>3
<1>6. DOMAIN (s \o t) = 1 .. Len(s) + Len(t) /\ Len(s) \in Nat /\ Len(t) \in Nat
  BY <1>3, <1>4
<1> QED
  BY <1>4, <1>5, <1>6 DEF IsSeq

LEMMA SeqsAre ==
  /\ IsSeq(<< >>)
  /\ \A a : IsSeq(<<a>>)
  /\ \A a, b : IsSeq(<<a, b>>)
<1>1. << >> \in Seq({})
  OBVIOUS
<1>2. \A a : <<a>> \in Seq({a})
  OBVIOUS
<1>3. \A a, b : <<a, b>> \in Seq({a, b})
  OBVIOUS
<1> QED
  BY <1>1, <1>2, <1>3 DEF IsSeq

(* New actors come behind the others, of which one may be changed.         *)
LEMMA NewOnes ==
  ASSUME IsSeq(actors), NEW new, IsSeq(new), actors' = actors \o new
  PROVE  Kept
BY Concatenated DEF Kept, ObjectsKept

LEMMA OneChanged ==
  ASSUME IsSeq(actors), NEW new, IsSeq(new), NEW x, NEW b, NEW s,
         actors' = Changed(x, b, s) \o new \/ actors' = Changed(x, b, s),
         actors[x].beh \notin Immutable, actors[x].beh \in Mutable => b = actors[x].beh
  PROVE  Kept
<1> DEFINE all == Changed(x, b, s)
<1>1. DOMAIN all = DOMAIN actors /\ \A a \in DOMAIN actors : all[a] = IF a = x THEN Actor(b, s) ELSE actors[a]
  BY DEF Changed
<1>2. PICK S : actors \in Seq(S)
  BY DEF IsSeq
<1>3. PICK n \in Nat : n = Len(actors) /\ DOMAIN actors = 1 .. n
  BY <1>2
<1>4. all \in [1 .. n -> S \cup {Actor(b, s)}]
  <2>1. \A a \in 1 .. n : all[a] \in S \cup {Actor(b, s)}
    BY <1>1, <1>2, <1>3
  <2>2. all = [a \in 1 .. n |-> all[a]]
    BY <1>3 DEF Changed
  <2> HIDE DEF all
  <2> QED
    BY <2>1, <2>2
<1>5. all \in Seq(S \cup {Actor(b, s)})
  BY <1>4
<1>6. IsSeq(all)
  BY <1>5 DEF IsSeq
<1>7. Actor(b, s).beh = b
  BY DEF Actor
<1> HIDE DEF all
<1>8. IsSeq(all \o new) /\ \A a \in DOMAIN actors : (all \o new)[a] = all[a]
  BY <1>1, <1>6, Concatenated
<1>9. actors' = all \o new \/ actors' = all
  BY DEF all
<1> QED
  BY <1>1, <1>6, <1>7, <1>8, <1>9 DEF Kept, ObjectsKept

(* The ways in which behaviours end.                                       *)
LEMMA Reactions ==
  ASSUME IsSeq(actors)
  PROVE  /\ Ignore => Kept
         /\ Throw => Kept
         /\ \A to, what : Send(to, what) => Kept
         /\ \A v : Reply(v) => Kept
         /\ \A k, b, s : Answer(k, b, s) => Kept
         /\ \A new, sent : IsSeq(new) /\ React(new, sent) => Kept
         /\ \A text, new, to : IsSeq(new) /\ Put(text, new, to) => Kept
<1>1. \A new, sent, tokens : IsSeq(new) /\ Handle(actors \o new, sent, tokens) => Kept
  BY NewOnes DEF Handle
<1>2. \A new, sent : IsSeq(new) /\ React(new, sent) => Kept
  BY <1>1 DEF React
<1>3. \A to, what : Send(to, what) => Kept
  BY <1>2, SeqsAre DEF Send
<1>4. Ignore => Kept
  BY <1>2, SeqsAre DEF Ignore
<1>5. Throw => Kept
  BY <1>2, SeqsAre DEF Throw
<1>6. \A v : Reply(v) => Kept
  BY <1>3 DEF Reply
<1>7. \A k, b, s : Answer(k, b, s) => Kept
  BY <1>2, SeqsAre DEF Answer
<1>8. \A text, new, to : IsSeq(new) /\ Put(text, new, to) => Kept
  BY <1>1 DEF Put
<1> QED
  BY <1>2, <1>3, <1>4, <1>5, <1>6, <1>7, <1>8

(* The same where new actors are listed one by one.                        *)
LEMMA Listed ==
  ASSUME IsSeq(actors)
  PROVE  /\ \A sent : React(<< >>, sent) => Kept
         /\ \A a, sent : React(<<a>>, sent) => Kept
         /\ \A a, b, sent : React(<<a, b>>, sent) => Kept
         /\ \A text, to : Put(text, << >>, to) => Kept
         /\ \A text, a, to : Put(text, <<a>>, to) => Kept
BY Reactions, SeqsAre

LEMMA ObjectKeeps == IsSeq(actors) => (object_type => Kept) /\ \A type, text : Typed(type, text) => Kept
<1> SUFFICES ASSUME IsSeq(actors)
             PROVE  (object_type => Kept) /\ \A type, text : Typed(type, text) => Kept
  OBVIOUS
<1>1. object_type => Kept
  BY Reactions, Listed DEF object_type
<1>2. \A type, text : Typed(type, text) => Kept
  BY <1>1, Reactions, Listed DEF Typed
<1> QED
  BY <1>1, <1>2

(* A behaviour that is no object changes.                                  *)
LEMMA Becomes ==
  ASSUME IsSeq(actors), NEW c, Behaves(c), c \notin Immutable \cup Mutable, NEW b, NEW s
  PROVE  /\ \A sent : Become(b, s, sent) => Kept
         /\ \A new, sent, tokens : IsSeq(new) /\ Handle(Changed(SELF, b, s) \o new, sent, tokens) => Kept
<1>1. actors[SELF].beh = c
  BY DEF Behaves
<1>2. \A new, sent, tokens : IsSeq(new) /\ Handle(Changed(SELF, b, s) \o new, sent, tokens) => Kept
  BY <1>1, OneChanged DEF Handle
<1>3. \A sent : Become(b, s, sent) => Kept
  BY <1>1, SeqsAre, OneChanged DEF Become, Handle
<1> QED
  BY <1>2, <1>3

(* Forks and joins.                                                        *)
LEMMA ForkJoinKeeps == IsSeq(actors) /\ ForkJoinNext => Kept
<1> SUFFICES ASSUME IsSeq(actors), ForkJoinNext
             PROVE  Kept
  OBVIOUS
<1>1. CASE fork_beh
  <2>1. "fork_beh" \notin Immutable \cup Mutable
    BY DEF Immutable, Mutable
  <2>2. Behaves("fork_beh")
    BY <1>1 DEF fork_beh
  <2> QED
    BY <1>1, <2>1, <2>2, SeqsAre, Becomes DEF fork_beh
<1>2. CASE tag_beh
  BY <1>2, Reactions, Listed DEF tag_beh
<1>3. CASE join_beh
  <2>1. "join_beh" \notin Immutable \cup Mutable
    BY DEF Immutable, Mutable
  <2>2. Behaves("join_beh")
    BY <1>3 DEF join_beh
  <2>3. FirstCame \/ RestCame => Kept
    BY <2>1, <2>2, Becomes DEF FirstCame, RestCame
  <2> QED
    BY <1>3, <2>3, Reactions DEF join_beh
<1>4. CASE join_rest_beh
  BY <1>4, Reactions, Listed DEF join_rest_beh
<1>5. CASE join_first_beh
  BY <1>5, Reactions, Listed DEF join_first_beh
<1> QED
  BY <1>1, <1>2, <1>3, <1>4, <1>5 DEF ForkJoinNext

(* A pair that is asked for anything but a change of its halves, or that   *)
(* may change.                                                             *)
LEMMA PairKeeps ==
  ASSUME IsSeq(actors), cons_type_req, WHAT.op \notin {"set_car", "set_cdr"} \/ actors[SELF].beh = "cons_type"
  PROVE  Kept
<1>1. ASSUME NEW h, NEW t, NEW sent, WHAT.op \in {"set_car", "set_cdr"},
             Become(actors[SELF].beh, Halves(h, t), sent)
      PROVE  Kept
  <2>1. actors[SELF].beh = "cons_type" /\ "cons_type" \notin Immutable
    BY <1>1 DEF Immutable
  <2>2. actors' = Changed(SELF, "cons_type", Halves(h, t))
    BY <1>1, <2>1 DEF Become, Handle
  <2> QED
    BY <2>1, <2>2, SeqsAre, OneChanged
<1>2. \A b, h_req, t_req : ForkPair(b, h_req, t_req) => Kept
  BY Listed DEF ForkPair
<1>3. CopyImmutable => Kept
  BY <1>2 DEF CopyImmutable
<1>4. \A a, sent, tokens : Handle(actors \o <<a>>, sent, tokens) => Kept
  BY NewOnes, SeqsAre DEF Handle
<1> QED
  BY <1>1, <1>2, <1>3, <1>4, Reactions, Listed DEF cons_type_req

(* Constants, symbols, pairs and their customers.                          *)
LEMMA ObjectsKeep == IsSeq(actors) /\ ObjectNext => Kept
<1> SUFFICES ASSUME IsSeq(actors), ObjectNext
             PROVE  Kept
  OBVIOUS
<1>1. CASE unit_type
  BY <1>1, Reactions, Listed, ObjectKeeps DEF unit_type
<1>2. CASE any_type
  BY <1>2, Reactions, Listed, ObjectKeeps DEF any_type
<1>3. CASE number_type
  BY <1>3, Reactions, Listed, ObjectKeeps DEF number_type
<1>4. CASE bool_type
  BY <1>4, Reactions, Listed, ObjectKeeps DEF bool_type
<1>5. CASE symbol_type
  BY <1>5, Reactions, Listed, ObjectKeeps DEF symbol_type
<1>6. CASE null_type
  BY <1>6, Reactions, Listed, ObjectKeeps DEF null_type
<1>7. CASE dotted_tail_beh
  BY <1>7, Reactions, Listed DEF dotted_tail_beh
<1>8. CASE dotted_close_beh
  BY <1>8, Reactions, Listed DEF dotted_close_beh
<1>9. CASE cons_type
  BY <1>9, PairKeeps DEF cons_type, Behaves
<1>10. CASE pair_type
  BY <1>10, PairKeeps, Reactions DEF pair_type
<1>11. CASE pair_comb_beh
  BY <1>11, Reactions, Listed DEF pair_comb_beh
<1>12. CASE pair_copy_beh
  BY <1>12, Reactions, Listed DEF pair_copy_beh
<1>13. CASE pair_map_beh
  BY <1>13, Reactions, Listed DEF pair_map_beh
<1>14. CASE pair_foldl_beh
  BY <1>14, Reactions, Listed DEF pair_foldl_beh
<1>15. CASE pair_write_tail_beh
  BY <1>15, Reactions, Listed DEF pair_write_tail_beh
<1> QED
  BY <1>1, <1>2, <1>3, <1>4, <1>5, <1>6, <1>7, <1>8, <1>9, <1>10, <1>11,
     <1>12, <1>13, <1>14, <1>15 DEF ObjectNext

(* Environments.                                                           *)
LEMMA EnvironmentKeeps == IsSeq(actors) /\ EnvironmentNext => Kept
<1> SUFFICES ASSUME IsSeq(actors), EnvironmentNext
             PROVE  Kept
  OBVIOUS
<1>1. CASE env_type
  BY <1>1, Reactions, Listed, ObjectKeeps DEF env_type
<1>2. CASE define_match_beh
  <2>1. ASSUME NEW s, NEW new, IsSeq(new), Is("env_type", MINE.env),
               actors' = Changed(MINE.env, "env_type", s) \o new \/ actors' = Changed(MINE.env, "env_type", s)
        PROVE  Kept
    <3>1. "env_type" \notin Immutable /\ actors[MINE.env].beh = "env_type"
      BY <2>1 DEF Immutable, Is
    <3> QED
      BY <2>1, <3>1, OneChanged
  <2> QED
    BY <1>2, <2>1, SeqsAre, Reactions DEF define_match_beh, Handle
<1> QED
  BY <1>1, <1>2 DEF EnvironmentNext

(* Operatives, applicatives and their customers.                           *)
LEMMA CombinersKeep == IsSeq(actors) /\ CombinerNext => Kept
<1> SUFFICES ASSUME IsSeq(actors), CombinerNext
             PROVE  Kept
  OBVIOUS
<1>1. CASE command_beh
  BY <1>1, Reactions, Listed DEF command_beh
<1>2. CASE args_oper
  BY <1>2, Reactions, Listed, ObjectKeeps DEF args_oper, Listing, Operative, oper_type
<1>3. CASE appl_type
  BY <1>3, Reactions, Listed, ObjectKeeps DEF appl_type
<1>4. CASE appl_args_beh
  BY <1>4, Reactions, Listed DEF appl_args_beh
<1>5. CASE wrap_args_beh
  BY <1>5, Reactions, Listed DEF wrap_args_beh, TakesArgs
<1>6. CASE unwrap_args_beh
  BY <1>6, Reactions, Listed DEF unwrap_args_beh, TakesArgs
<1>7. CASE sequence_oper
  BY <1>7, Reactions, Listed, ObjectKeeps DEF sequence_oper, Operative, oper_type
<1>8. CASE eval_args_beh
  BY <1>8, Reactions, Listed DEF eval_args_beh, TakesArgs
<1>9. CASE apply_args_beh
  BY <1>9, Reactions, Listed DEF apply_args_beh
<1>10. CASE define_args_beh
  BY <1>10, Reactions, Listed DEF define_args_beh, TakesArgs
<1>11. CASE if_args_beh
  BY <1>11, Reactions, Listed DEF if_args_beh, TakesArgs
<1>12. CASE if_test_beh
  BY <1>12, Reactions, Listed DEF if_test_beh
<1>13. CASE make_env_args_beh
  BY <1>13, Reactions, Listed DEF make_env_args_beh
<1>14. CASE concurrent_oper
  BY <1>14, Reactions, Listed, ObjectKeeps DEF concurrent_oper, Listing, Operative, oper_type
<1>15. CASE concurrent_args_beh
  BY <1>15, Reactions, Listed DEF concurrent_args_beh
<1>16. CASE vau_type
  BY <1>16, Reactions, Listed, ObjectKeeps DEF vau_type, Operative, oper_type, Call
<1>17. CASE lambda_type
  BY <1>17, Reactions, Listed, ObjectKeeps DEF lambda_type, Operative, oper_type, Call
<1>18. CASE vau_oper
  BY <1>18, Reactions, Listed, ObjectKeeps DEF vau_oper, Operative, oper_type, Closure
<1>19. CASE lambda_oper
  BY <1>19, Reactions, Listed, ObjectKeeps DEF lambda_oper, Operative, oper_type, Closure
<1>20. CASE vau_vars_beh
  <2>1. "vau_vars_beh" \notin Immutable \cup Mutable
    BY DEF Immutable, Mutable
  <2>2. Behaves("vau_vars_beh")
    BY <1>20 DEF vau_vars_beh
  <2> QED
    BY <1>20, <2>1, <2>2, Becomes, Reactions DEF vau_vars_beh
<1>21. CASE vau_evar_beh
  BY <1>21, Reactions, Listed DEF vau_evar_beh
<1>22. CASE lambda_vars_beh
  BY <1>22, Reactions, Listed DEF lambda_vars_beh
<1>23. CASE type_pred_oper
  BY <1>23, Reactions, Listed, ObjectKeeps DEF type_pred_oper, Operative, oper_type
<1>24. CASE obj_rel_oper
  BY <1>24, Reactions, Listed, ObjectKeeps DEF obj_rel_oper, Listing, Operative, oper_type
<1>25. CASE list_oper
  BY <1>25, Reactions, Listed, ObjectKeeps DEF list_oper, Operative, oper_type
<1>26. CASE cons_args_beh
  BY <1>26, Reactions, Listed DEF cons_args_beh, TakesArgs
<1>27. CASE car_oper
  BY <1>27, Reactions, Listed, ObjectKeeps DEF car_oper, Operative, oper_type
<1>28. CASE cdr_oper
  BY <1>28, Reactions, Listed, ObjectKeeps DEF cdr_oper, Operative, oper_type
<1>29. CASE set_car_args_beh
  BY <1>29, Reactions, Listed DEF set_car_args_beh, TakesArgs
<1>30. CASE set_cdr_args_beh
  BY <1>30, Reactions, Listed DEF set_cdr_args_beh, TakesArgs
<1>31. CASE copy_es_immutable_args_beh
  BY <1>31, Reactions, Listed DEF copy_es_immutable_args_beh, TakesArgs
<1>32. CASE write_args_beh
  BY <1>32, Reactions, Listed DEF write_args_beh, TakesArgs
<1>33. CASE newline_args_beh
  BY <1>33, Reactions, Listed DEF newline_args_beh, TakesArgs
<1> QED
  BY <1>1, <1>2, <1>3, <1>4, <1>5, <1>6, <1>7, <1>8, <1>9, <1>10, <1>11,
     <1>12, <1>13, <1>14, <1>15, <1>16, <1>17, <1>18, <1>19, <1>20, <1>21,
     <1>22, <1>23, <1>24, <1>25, <1>26, <1>27, <1>28, <1>29, <1>30, <1>31,
     <1>32, <1>33 DEF CombinerNext

(* The actors that map creates for its lists.                              *)
LEMMA HeadsAre == WHAT.op = "args" /\ Len(WHAT.args) \in Nat \ {0, 1} => IsSeq(mk_heads(Len(WHAT.args) - 1))
<1> SUFFICES ASSUME Len(WHAT.args) \in Nat \ {0, 1}
             PROVE  IsSeq(mk_heads(Len(WHAT.args) - 1))
  OBVIOUS
<1>1. PICK n \in Nat : n = Len(WHAT.args) - 1
  <2>1. \A k \in Nat \ {0, 1} : k - 1 \in Nat
    OBVIOUS
  <2> QED
    BY <2>1
<1>2. \E S : \A i \in 1 .. n : mk_heads(n)[i] \in S
  <2>1. \A i \in 1 .. n : mk_heads(n)[i] \in {mk_heads(n)[j] : j \in 1 .. n}
    OBVIOUS
  <2> QED
    BY <2>1
<1>3. PICK S : \A i \in 1 .. n : mk_heads(n)[i] \in S
  BY <1>2
<1>4. mk_heads(n) = [i \in 1 .. n |-> mk_heads(n)[i]]
  BY DEF mk_heads
<1>5. mk_heads(n) \in Seq(S)
  BY <1>3, <1>4
<1> QED
  BY <1>1, <1>5 DEF IsSeq

(* The actors of map.                                                      *)
LEMMA MapKeeps == IsSeq(actors) /\ MapNext => Kept
<1> SUFFICES ASSUME IsSeq(actors), MapNext
             PROVE  Kept
  OBVIOUS
<1>1. CASE map_args_beh
  <2>1. "map_args_beh" \notin Immutable \cup Mutable
    BY DEF Immutable, Mutable
  <2>2. Behaves("map_args_beh")
    BY <1>1 DEF map_args_beh
  <2> QED
    BY <1>1, <2>1, <2>2, HeadsAre, Becomes, Reactions DEF map_args_beh
<1>2. CASE map_unwrap_beh
  <2>1. "map_unwrap_beh" \notin Immutable \cup Mutable
    BY DEF Immutable, Mutable
  <2>2. Behaves("map_unwrap_beh")
    BY <1>2 DEF map_unwrap_beh
  <2> QED
    BY <1>2, <2>1, <2>2, SeqsAre, Becomes, Reactions DEF map_unwrap_beh
<1>3. CASE map_comb_beh
  <2>1. "map_comb_beh" \notin Immutable \cup Mutable
    BY DEF Immutable, Mutable
  <2>2. Behaves("map_comb_beh")
    BY <1>3 DEF map_comb_beh
  <2> QED
    BY <1>3, <2>1, <2>2, SeqsAre, Becomes, Reactions DEF map_comb_beh
<1>4. CASE map_tail_beh
  <2>1. "map_tail_beh" \notin Immutable \cup Mutable
    BY DEF Immutable, Mutable
  <2>2. Behaves("map_tail_beh")
    BY <1>4 DEF map_tail_beh
  <2> QED
    BY <1>4, <2>1, <2>2, SeqsAre, Becomes, Reactions DEF map_tail_beh
<1>5. CASE map_head_beh
  <2>1. "map_head_beh" \notin Immutable \cup Mutable
    BY DEF Immutable, Mutable
  <2>2. Behaves("map_head_beh")
    BY <1>5 DEF map_head_beh
  <2> QED
    BY <1>5, <2>1, <2>2, SeqsAre, Becomes, Reactions DEF map_head_beh
<1>6. CASE map_pair_beh
  <2>1. "map_pair_beh" \notin Immutable \cup Mutable
    BY DEF Immutable, Mutable
  <2>2. Behaves("map_pair_beh")
    BY <1>6 DEF map_pair_beh
  <2> QED
    BY <1>6, <2>1, <2>2, SeqsAre, Becomes, Reactions DEF map_pair_beh
<1>7. CASE map_next_beh
  BY <1>7, Reactions, Listed DEF map_next_beh
<1> QED
  BY <1>1, <1>2, <1>3, <1>4, <1>5, <1>6, <1>7 DEF MapNext

(* The actors that make-encapsulation-type creates.                        *)
LEMMA Ten == \A a, b, c, d, e, f, g, h, i, j : IsSeq(<<a, b, c, d, e, f, g, h, i, j>>)
<1>1. \A a, b, c, d, e, f, g, h, i, j : <<a, b, c, d, e, f, g, h, i, j>> \in Seq({a, b, c, d, e, f, g, h, i, j})
  OBVIOUS
<1> QED
  BY <1>1 DEF IsSeq

(* Encapsulation, arithmetic and time.                                     *)
LEMMA EncapsulationKeeps == IsSeq(actors) /\ EncapsulationNext => Kept
<1> SUFFICES ASSUME IsSeq(actors), EncapsulationNext
             PROVE  Kept
  OBVIOUS
<1>1. CASE sealed_type
  BY <1>1, Reactions, Listed, ObjectKeeps DEF sealed_type
<1>2. CASE brand_type
  BY <1>2, Reactions, Listed DEF brand_type
<1>3. CASE brand_oper
  BY <1>3, Reactions, Listed, ObjectKeeps DEF brand_oper, Listing, Operative, oper_type
<1>4. CASE seal_args_beh
  BY <1>4, Reactions, Listed DEF seal_args_beh, TakesArgs
<1>5. CASE unseal_args_beh
  BY <1>5, Reactions, Listed DEF unseal_args_beh, TakesArgs
<1>6. CASE brand_args_beh
  BY <1>6, Reactions, Ten DEF brand_args_beh, TakesArgs
<1>7. CASE num_rel_oper
  BY <1>7, Reactions, Listed, ObjectKeeps DEF num_rel_oper, Listing, Operative, oper_type
<1>8. CASE num_foldl_oper
  BY <1>8, Reactions, Listed, ObjectKeeps DEF num_foldl_oper, Listing, Operative, oper_type
<1>9. CASE time_type
  BY <1>9, Reactions, Listed, ObjectKeeps DEF time_type
<1>10. CASE time_args_beh
  BY <1>10, Reactions, Listed DEF time_args_beh, TakesArgs
<1>11. CASE timed_oper
  BY <1>11, Reactions, Listed, ObjectKeeps DEF timed_oper, Operative, oper_type
<1>12. CASE timed_cust_beh
  BY <1>12, Reactions, Listed DEF timed_cust_beh
<1> QED
  BY <1>1, <1>2, <1>3, <1>4, <1>5, <1>6, <1>7, <1>8, <1>9, <1>10, <1>11,
     <1>12 DEF EncapsulationNext

LEMMA OutsideKeeps ==
  ASSUME IsSeq(actors), NEW new, IsSeq(new), NEW sent, Outside(new, sent)
  PROVE  Kept
BY NewOnes DEF Outside

LEMMA BehavioursKeep == IsSeq(actors) /\ EvaluatorNext => Kept
<1> SUFFICES ASSUME IsSeq(actors), EvaluatorNext
             PROVE  Kept
  OBVIOUS
<1>1. CASE sink_beh
  BY <1>1, Reactions DEF sink_beh
<1>2. CASE throw_beh
  <2>1. actors' = actors
    BY <1>2 DEF throw_beh, Handle
  <2> QED
    BY <2>1 DEF Kept, ObjectsKept
<1>3. CASE newline_beh
  <2>1. actors' = actors
    BY <1>3 DEF newline_beh, Handle
  <2> QED
    BY <2>1 DEF Kept, ObjectsKept
<1>4. CASE report_beh
  <2>1. "report_beh" \notin Immutable \cup Mutable
    BY DEF Immutable, Mutable
  <2>2. Behaves("report_beh")
    BY <1>4 DEF report_beh
  <2> QED
    BY <1>4, <2>1, <2>2, SeqsAre, Becomes DEF report_beh
<1> QED
  BY <1>1, <1>2, <1>3, <1>4, ForkJoinKeeps, ObjectsKeep, EnvironmentKeeps, CombinersKeep, MapKeeps,
     EncapsulationKeeps DEF EvaluatorNext

(* What C code makes.                                                      *)
LEMMA IsSeqOf == \A n \in Nat : \A f : f = [i \in 1 .. n |-> f[i]] => IsSeq(f)
<1> SUFFICES ASSUME NEW n \in Nat, NEW f, f = [i \in 1 .. n |-> f[i]]
             PROVE  IsSeq(f)
  OBVIOUS
<1>1. PICK S : S = {f[i] : i \in 1 .. n}
  OBVIOUS
<1>2. \A i \in 1 .. n : f[i] \in S
  BY <1>1
<1>3. f \in Seq(S)
  BY <1>2
<1> QED
  BY <1>3 DEF IsSeq

LEMMA MadeIsSeq == \A n : n \in Nat => IsSeq(Made(n))
BY IsSeqOf DEF Made

LEMMA ReadsKeep == IsSeq(actors) /\ Reads => Kept
<1> SUFFICES ASSUME IsSeq(actors), Reads
             PROVE  Kept
  OBVIOUS
<1>1. PICK n \in 0 .. Len(actors') - Len(actors) :
        \/ Outside(Made(n), << >>)
        \/ \E m : Outside(Made(n), <<m>>)
        \/ \E a, m : Outside(Made(n) \o <<a>>, <<m>>)
  BY DEF Reads
<1>2. n \in Nat
  OBVIOUS
<1>3. IsSeq(Made(n)) /\ \A a : IsSeq(Made(n) \o <<a>>)
  BY <1>2, MadeIsSeq, SeqsAre, Concatenated
<1> QED
  BY <1>1, <1>3, OutsideKeeps

LEMMA OpensKeeps == IsSeq(actors) /\ Opens => Kept
BY OutsideKeeps, SeqsAre DEF Opens

(* The primitives of init_kernel.                                          *)
LEMMA ListsOfPrimitives ==
  /\ DOMAIN Applicatives = 1 .. 36 /\ Len(Applicatives) = 36 /\ IsSeq(Applicatives)
  /\ DOMAIN Operatives = 1 .. 7 /\ Len(Operatives) = 7 /\ IsSeq(Operatives)
<1>1. DOMAIN Applicatives = 1 .. 36 /\ Len(Applicatives) = 36
  BY DEF Applicatives
<1>2. DOMAIN Operatives = 1 .. 7 /\ Len(Operatives) = 7
  BY DEF Operatives
<1>3. IsSeq(Applicatives)
  <2>1. PICK S : \A i \in 1 .. 36 : Applicatives[i] \in S
    <3>1. \A i \in 1 .. 36 : Applicatives[i] \in {Applicatives[j] : j \in 1 .. 36}
      OBVIOUS
    <3> QED
      BY <3>1
  <2>2. /\ \A i \in {1, 2, 3, 4, 5, 6, 7, 8, 9, 10, 11, 12} : Applicatives[i] \in S
        /\ \A i \in {13, 14, 15, 16, 17, 18, 19, 20, 21, 22, 23, 24} : Applicatives[i] \in S
        /\ \A i \in {25, 26, 27, 28, 29, 30, 31, 32, 33, 34, 35, 36} : Applicatives[i] \in S
    BY <2>1
  <2>3. Applicatives \in Seq(S)
    BY <2>2 DEF Applicatives
  <2> QED
    BY <2>3 DEF IsSeq
<1>4. IsSeq(Operatives)
  <2>1. PICK S : \A i \in 1 .. 7 : Operatives[i] \in S
    <3>1. \A i \in 1 .. 7 : Operatives[i] \in {Operatives[j] : j \in 1 .. 7}
      OBVIOUS
    <3> QED
      BY <3>1
  <2>2. \A i \in {1, 2, 3, 4, 5, 6, 7} : Operatives[i] \in S
    BY <2>1
  <2>3. Operatives \in Seq(S)
    BY <2>2 DEF Operatives
  <2> QED
    BY <2>3 DEF IsSeq
<1> QED
  BY <1>1, <1>2, <1>3, <1>4

LEMMA PrimitivesAre ==
  /\ IsSeq(Primitives) /\ DOMAIN Primitives = 1 .. 43 /\ Len(Primitives) = 43
  /\ \A i \in 1 .. 36 : Primitives[i] = Applicatives[i]
  /\ \A i \in 37 .. 43 : Primitives[i] = Operatives[i - 36]
<1>1. Primitives = Applicatives \o Operatives
  BY DEF Primitives
<1>2. IsSeq(Applicatives) /\ IsSeq(Operatives)
  BY ListsOfPrimitives
<1>3. /\ IsSeq(Primitives)
      /\ Len(Primitives) = Len(Applicatives) + Len(Operatives)
      /\ DOMAIN Primitives = 1 .. Len(Applicatives) + Len(Operatives)
  BY <1>1, <1>2, ConcatenatedAt
<1>4. \A i \in 1 .. Len(Applicatives) : Primitives[i] = Applicatives[i]
  BY <1>1, <1>2, ConcatenatedAt
<1>5. \A i \in Len(Applicatives) + 1 .. Len(Applicatives) + Len(Operatives) :
        Primitives[i] = Operatives[i - Len(Applicatives)]
  BY <1>1, <1>2, ConcatenatedAt
<1>6. Len(Applicatives) = 36 /\ Len(Operatives) = 7
  BY ListsOfPrimitives
<1> QED
  BY <1>3, <1>4, <1>5, <1>6

LEMMA KernelIsSeq == init_kernel => IsSeq(actors)
<1> SUFFICES ASSUME init_kernel
             PROVE  IsSeq(actors)
  OBVIOUS
<1> DEFINE combiners == [i \in DOMAIN Primitives |-> Primitives[i][2]]
           wrapped == [i \in DOMAIN Applicatives |-> Actor("appl_type", Constant(i))]
           env == <<Actor("env_type", Env(NIL, ground_map))>>
<1>1. IsSeq(Constants)
  <2>1. \A a, b, c, d, e, f : <<a, b, c, d, e, f>> \in Seq({a, b, c, d, e, f})
    OBVIOUS
  <2> QED
    BY <2>1 DEF Constants, IsSeq
<1>2. IsSeq(combiners)
  BY PrimitivesAre, IsSeqOf
<1>3. IsSeq(wrapped)
  BY ListsOfPrimitives, IsSeqOf
<1>4. IsSeq(env)
  BY SeqsAre
<1>5. actors = Constants \o combiners \o wrapped \o env
  BY DEF init_kernel
<1> HIDE DEF combiners, wrapped, env
<1> QED
  BY <1>1, <1>2, <1>3, <1>4, <1>5, Concatenated

(* What a program takes for an immutable pair, a closure, a wrapped        *)
(* combiner or a sealed value never changes, and what changes stays the    *)
(* kind of object it is, whatever a program does (kernel.c, all BECOME).   *)
THEOREM ObjectsStay == EvaluatorSpec => ImmutableStay
<1> DEFINE Step == EvaluatorNext \/ Reads \/ Opens
<1>1. IsSeq(actors) /\ Step => Kept
  BY BehavioursKeep, ReadsKeep, OpensKeeps
<1>2. IsSeq(actors) /\ [Step]_vars => IsSeq(actors)'
  BY <1>1 DEF Kept, vars
<1>3. IsSeq(actors) /\ [Step]_vars => [ObjectsKept]_vars
  BY <1>1 DEF Kept
<1>4. EvaluatorSpec => IsSeq(actors) /\ [][Step]_vars
  BY KernelIsSeq DEF EvaluatorSpec
<1> HIDE DEF Step
<1>5. EvaluatorSpec => [](IsSeq(actors))
  BY <1>2, <1>4, PTL
<1>6. EvaluatorSpec => [][ObjectsKept]_vars
  BY <1>3, <1>4, <1>5, PTL
<1> QED
  BY <1>6 DEF ImmutableStay, ObjectsKept

-----------------------------------------------------------------------------
(* What a step of me leaves of actors: only a few behaviours turn into     *)
(* others, and those into their like.                                      *)
Turned(old, new) ==
  /\ old.beh \notin Turning \cup Mutable => new = old
  /\ old.beh \in Mutable => new.beh = old.beh
  /\ old.beh \in JoinBehs => new.beh \in JoinBehs /\ new.mine.cust = old.mine.cust
  /\ old.beh = "fork_beh" => new.beh \in JoinBehs \cup {"fork_beh"}
  /\ old.beh = "vau_vars_beh" => new.beh \in {"vau_vars_beh", "vau_evar_beh"}
  /\ old.beh \in MapBehs => new.beh \in MapBehs
  /\ old.beh \in HeadBehs => new.beh \in HeadBehs
  /\ old.beh = "report_beh" => new.beh \in {"report_beh", "abort_beh"}

Grown(all, me, more) ==
  /\ IsSeq(all) /\ IsSeq(more) /\ me \in DOMAIN all /\ DOMAIN all \subseteq DOMAIN more
  /\ Turned(all[me], more[me])
  /\ \A a \in DOMAIN all :
       a # me => IF all[a].beh \in Mutable THEN more[a].beh = all[a].beh ELSE more[a] = all[a]

(* Tags are the tags of joins, which have a customer for a pair.           *)
Tagging(all) ==
  \A t \in DOMAIN all :
    all[t].beh = "tag_beh" =>
      IsIn(all, JoinBehs, all[t].mine) /\ IsIn(all, BothBehs, all[all[t].mine].mine.cust)

(* All actors turn as the one that acts, or stay.                          *)
LEMMA AllTurned ==
  ASSUME NEW all, NEW me, NEW more, Grown(all, me, more)
  PROVE  \A a \in DOMAIN all : Turned(all[a], more[a])
<1> SUFFICES ASSUME NEW a \in DOMAIN all, a # me
             PROVE  Turned(all[a], more[a])
  BY DEF Grown
<1>1. CASE all[a].beh \in Mutable
  <2>1. more[a].beh = all[a].beh
    BY <1>1 DEF Grown
  <2> QED
    BY <1>1, <2>1 DEF Turned, Mutable, JoinBehs, MapBehs, HeadBehs
<1>2. CASE all[a].beh \notin Mutable
  <2>1. more[a] = all[a]
    BY <1>2 DEF Grown
  <2> QED
    BY <1>2, <2>1 DEF Turned
<1> QED
  BY <1>1, <1>2

(* Actors keep the kinds that others rely on.                              *)
LEMMA KindsStay ==
  ASSUME NEW all, NEW me, NEW more, Grown(all, me, more)
  PROVE  \A v : /\ IsIn(all, ObjectBehs, v) => IsIn(more, ObjectBehs, v)
                /\ IsIn(all, ObjectBehs \ {"brand_type"}, v) => IsIn(more, ObjectBehs \ {"brand_type"}, v)
                /\ IsIn(all, {"brand_type"}, v) => IsIn(more, {"brand_type"}, v)
                /\ IsIn(all, {"cons_type"}, v) => IsIn(more, {"cons_type"}, v)
                /\ IsIn(all, {"pair_type"}, v) => IsIn(more, {"pair_type"}, v)
                /\ IsIn(all, ValueBehs, v) => IsIn(more, ValueBehs, v)
                /\ IsIn(all, PairBehs, v) => IsIn(more, PairBehs, v)
                /\ IsIn(all, HeadBehs, v) => IsIn(more, HeadBehs, v)
                /\ IsIn(all, MapBehs, v) => IsIn(more, MapBehs, v)
                /\ IsIn(all, RowBehs, v) => IsIn(more, RowBehs, v)
                /\ IsIn(all, JoinBehs, v) => IsIn(more, JoinBehs, v)
                /\ IsIn(all, BothBehs, v) => IsIn(more, BothBehs, v)
                /\ IsIn(all, {"command_beh"}, v) => IsIn(more, {"command_beh"}, v)
                /\ IsIn(all, {"tag_beh"}, v) => IsIn(more, {"tag_beh"}, v)
<1> SUFFICES ASSUME NEW v \in DOMAIN all
             PROVE  /\ all[v].beh \in ObjectBehs => more[v].beh \in ObjectBehs
                    /\ all[v].beh \in ObjectBehs \ {"brand_type"} => more[v].beh \in ObjectBehs \ {"brand_type"}
                    /\ all[v].beh \in {"brand_type", "cons_type", "pair_type"} \cup BothBehs \cup {"command_beh", "tag_beh"}
                         => more[v].beh = all[v].beh
                    /\ all[v].beh \in ValueBehs => more[v].beh \in ValueBehs
                    /\ all[v].beh \in PairBehs => more[v].beh \in PairBehs
                    /\ all[v].beh \in HeadBehs => more[v].beh \in HeadBehs
                    /\ all[v].beh \in MapBehs => more[v].beh \in MapBehs
                    /\ all[v].beh \in RowBehs => more[v].beh \in RowBehs
                    /\ all[v].beh \in JoinBehs => more[v].beh \in JoinBehs
  BY DEF Grown, IsIn
<1>0. Turned(all[v], more[v])
  BY AllTurned
<1>1. /\ all[v].beh \notin Turning \cup Mutable => more[v].beh = all[v].beh
      /\ all[v].beh \in Mutable => more[v].beh = all[v].beh
      /\ all[v].beh \in JoinBehs => more[v].beh \in JoinBehs
      /\ all[v].beh = "vau_vars_beh" => more[v].beh \in {"vau_vars_beh", "vau_evar_beh"}
      /\ all[v].beh \in MapBehs => more[v].beh \in MapBehs
      /\ all[v].beh \in HeadBehs => more[v].beh \in HeadBehs
      /\ all[v].beh = "report_beh" => more[v].beh \in {"report_beh", "abort_beh"}
  BY <1>0 DEF Turned
<1>2. all[v].beh \in ObjectBehs => more[v].beh = all[v].beh
  BY <1>1 DEF ObjectBehs, Immutable, Mutable, Turning, JoinBehs, MapBehs, HeadBehs
<1>3. all[v].beh \in {"brand_type", "cons_type", "pair_type"} \cup BothBehs \cup {"command_beh", "tag_beh"}
        => more[v].beh = all[v].beh
  BY <1>1 DEF BothBehs, Mutable, Turning, JoinBehs, MapBehs, HeadBehs
<1>4. all[v].beh \in ValueBehs => more[v].beh \in ValueBehs
  BY <1>1 DEF ValueBehs, Mutable, Turning, JoinBehs, MapBehs, HeadBehs
<1>5. all[v].beh \in PairBehs => more[v].beh \in PairBehs
  BY <1>1 DEF PairBehs, Mutable, Turning, JoinBehs, MapBehs, HeadBehs
<1>6. all[v].beh \in RowBehs => more[v].beh \in RowBehs
  BY <1>1 DEF RowBehs, Mutable, Turning, JoinBehs, MapBehs, HeadBehs
<1> QED
  BY <1>1, <1>2, <1>3, <1>4, <1>5, <1>6

(* Values remain values.                                                   *)
LEMMA ValuesStay ==
  ASSUME NEW all, NEW me, NEW more, Grown(all, me, more)
  PROVE  \A v : /\ IsValue(all, v) => IsValue(more, v)
                /\ IsFixed(all, v) => IsFixed(more, v)
                /\ v \in DOMAIN all => (IsIn(more, {"cons_type"}, v) => IsIn(all, {"cons_type"}, v))
                /\ v \in DOMAIN all => (IsIn(more, {"pair_copy_beh"}, v) => IsIn(all, {"pair_copy_beh"}, v))
<1>1. ASSUME NEW v \in DOMAIN all, more[v].beh \in {"cons_type", "pair_copy_beh"}
      PROVE  all[v].beh = more[v].beh
  BY <1>1, AllTurned DEF Turned, Mutable, Turning, JoinBehs, MapBehs, HeadBehs
<1>2. \A v \in DOMAIN all : more[v].beh = "cons_type" => all[v].beh = "cons_type"
  BY <1>1
<1>3. \A v : IsValue(all, v) => IsValue(more, v)
  BY KindsStay DEF IsValue
<1>4. ASSUME NEW v, IsFixed(all, v)
      PROVE  IsFixed(more, v)
  <2>1. CASE v \in DOMAIN all
    BY <1>2, <1>3, <1>4, <2>1 DEF IsFixed, IsIn
  <2>2. CASE v \notin DOMAIN all
    <3>1. v \in {0, -1}
      BY <1>4, <2>2 DEF IsFixed, IsValue, IsIn, NIL, NotActor
    <3>2. DOMAIN more = 1 .. Len(more) /\ Len(more) \in Nat
      BY LengthIs DEF Grown
    <3>3. v \notin DOMAIN more
      BY <3>1, <3>2
    <3> QED
      BY <1>3, <1>4, <3>3 DEF IsFixed, IsIn
  <2> QED
    BY <2>1, <2>2
<1> QED
  BY <1>1, <1>3, <1>4 DEF IsIn

(* Customers remain customers.                                             *)
LEMMA CustsStay ==
  ASSUME NEW all, NEW me, NEW more, Grown(all, me, more), Tagging(all),
         a_sink \in DOMAIN all, all[a_sink].beh = "sink_beh"
  PROVE  \A k : /\ AnyCust(all, k) => AnyCust(more, k)
                /\ AnyCust(all, k) => WaitsForCopy(more, k) = WaitsForCopy(all, k)
                /\ IsIn(all, {"tag_beh"}, k) => WaitsForCopy(more, k) = WaitsForCopy(all, k)
                /\ Cust(all, k) => Cust(more, k)
<1>1. \A k : AnyCust(all, k) => AnyCust(more, k)
  BY KindsStay DEF AnyCust
<1>2. ASSUME NEW k \in DOMAIN all
      PROVE  WaitsForCopy(more, k) <=> WaitsForCopy(all, k)
  <2>1. k \in DOMAIN more /\ Turned(all[k], more[k])
    BY AllTurned DEF Grown
  <2>2. more[k].beh \in {"command_beh", "tag_beh"} \/ all[k].beh \in {"command_beh", "tag_beh"} => more[k] = all[k]
    BY <2>1 DEF Turned, Mutable, Turning, JoinBehs, MapBehs, HeadBehs
  <2>3. CASE all[k].beh # "tag_beh"
    BY <2>1, <2>2, <2>3 DEF WaitsForCopy, IsIn
  <2>4. CASE all[k].beh = "tag_beh"
    <3>1. PICK j \in DOMAIN all : j = all[k].mine /\ all[j].beh \in JoinBehs /\ IsIn(all, BothBehs, all[j].mine.cust)
      BY <2>4 DEF Tagging, IsIn
    <3>2. more[j].mine.cust = all[j].mine.cust
      BY <3>1, AllTurned DEF Turned
    <3>3. IsIn(more, {"pair_copy_beh"}, all[j].mine.cust) <=> IsIn(all, {"pair_copy_beh"}, all[j].mine.cust)
      <4>1. PICK c \in DOMAIN all : c = all[j].mine.cust /\ all[c].beh \in BothBehs
        BY <3>1 DEF IsIn
      <4>2. Turned(all[c], more[c]) /\ c \in DOMAIN more
        BY <4>1, AllTurned DEF Grown
      <4>3. more[c].beh = all[c].beh
        BY <4>1, <4>2 DEF Turned, BothBehs, Mutable, Turning, JoinBehs, MapBehs, HeadBehs
      <4> QED
        BY <4>1, <4>2, <4>3 DEF IsIn
    <3> QED
      BY <2>1, <2>2, <2>4, <3>1, <3>2, <3>3 DEF WaitsForCopy, IsIn
  <2> QED
    BY <2>3, <2>4
<1>3. \A k : AnyCust(all, k) \/ IsIn(all, {"tag_beh"}, k) => k \in DOMAIN all
  BY DEF AnyCust, IsIn
<1>4. \A k : WaitsForCopy(more, k) \in BOOLEAN /\ WaitsForCopy(all, k) \in BOOLEAN
  BY DEF WaitsForCopy, IsIn
<1> QED
  BY <1>1, <1>2, <1>3, <1>4 DEF Cust

(* What a customer may be asked for, and what it may be sent.              *)
LEMMA RequestsStay ==
  ASSUME NEW all, NEW me, NEW more, Grown(all, me, more), Tagging(all),
         a_sink \in DOMAIN all, all[a_sink].beh = "sink_beh"
  PROVE  /\ \A req, k : EvalOf(all, req, k) => EvalOf(more, req, k)
         /\ \A req, k : CombOf(all, req, k) => CombOf(more, req, k)
         /\ \A req, k : MapOf(all, req, k) => MapOf(more, req, k)
         /\ \A req, k : FoldlOf(all, req, k) => FoldlOf(more, req, k)
         /\ \A to, w : to \in DOMAIN all \cup {NIL, NotActor} /\ RequestOK(all, to, w) => RequestOK(more, to, w)
<1>1. \A req, k : EvalOf(all, req, k) => EvalOf(more, req, k)
  BY ValuesStay DEF EvalOf
<1>2. \A req, k : CombOf(all, req, k) => CombOf(more, req, k)
  BY ValuesStay DEF CombOf
<1>3. \A req, k : MapOf(all, req, k) => MapOf(more, req, k)
  BY <1>1 DEF MapOf
<1>4. \A req, k : FoldlOf(all, req, k) => FoldlOf(more, req, k)
  BY <1>1, ValuesStay DEF FoldlOf
<1>5. ASSUME NEW to \in DOMAIN all \cup {NIL, NotActor}, NEW w, RequestOK(all, to, w)
      PROVE  RequestOK(more, to, w)
  <2>0. NIL \notin DOMAIN more /\ NotActor \notin DOMAIN more
    <3>1. DOMAIN more = 1 .. Len(more) /\ Len(more) \in Nat
      BY LengthIs DEF Grown
    <3> QED
      BY <3>1 DEF NIL, NotActor
  <2>1. CustOK(more, to, w)
    <3>1. CustOK(all, to, w)
      BY <1>5 DEF RequestOK
    <3>2. CASE w.op = "as_pair"
      <4>1. IsIn(all, PairBehs \cup HeadBehs, w.cust) => IsIn(more, PairBehs \cup HeadBehs, w.cust)
        BY KindsStay DEF IsIn
      <4>2. IsIn(all, PairBehs \cup HeadBehs, w.cust) /\ IsIn(more, PairBehs, w.cust) => IsIn(all, PairBehs, w.cust)
        <5>1. IsIn(all, HeadBehs, w.cust) => IsIn(more, HeadBehs, w.cust)
          BY KindsStay
        <5> QED
          BY <5>1 DEF IsIn, PairBehs, HeadBehs
      <4>3. IsIn(more, {"cons_type"}, to) => IsIn(all, {"cons_type"}, to)
        BY <2>0, ValuesStay DEF IsIn
      <4> QED
        BY <3>1, <3>2, <4>1, <4>2, <4>3 DEF CustOK
    <3>3. CASE w.op = "unwrap"
      BY <3>1, <3>3, KindsStay DEF CustOK
    <3>4. CASE w.op = "copy_immutable"
      BY <3>1, <3>4, CustsStay DEF CustOK
    <3>5. CASE w.op \notin {"as_pair", "unwrap", "copy_immutable"}
      BY <3>1, <3>5, CustsStay DEF CustOK
    <3> QED
      BY <3>2, <3>3, <3>4, <3>5
  <2>2. IsIn(more, {"brand_type"}, to) => IsIn(all, {"brand_type"}, to)
    <3>1. to \in DOMAIN all => Turned(all[to], more[to])
      BY AllTurned
    <3> QED
      BY <2>0, <3>1 DEF IsIn, Turned, Mutable, Turning, JoinBehs, MapBehs, HeadBehs
  <2> QED
    BY <1>1, <1>2, <1>3, <1>4, <1>5, <2>1, <2>2, ValuesStay DEF RequestOK
<1> QED
  BY <1>1, <1>2, <1>3, <1>4, <1>5

(* What is sent as an answer remains one.                                  *)
LEMMA RepliesStay ==
  ASSUME NEW all, NEW me, NEW more, Grown(all, me, more), Tagging(all),
         a_sink \in DOMAIN all, all[a_sink].beh = "sink_beh"
  PROVE  /\ \A to, w : AnyCust(all, to) /\ ValueOK(all, to, w) => ValueOK(more, to, w)
         /\ \A w : PairOK(all, w) => PairOK(more, w)
         /\ \A w : FixedPair(all, w) => FixedPair(more, w)
         /\ \A w : ArgsOK(all, w) => ArgsOK(more, w)
         /\ \A j, w : TaggedOK(all, j, w) => TaggedOK(more, j, w)
<1>1. \A to, w : AnyCust(all, to) /\ ValueOK(all, to, w) => ValueOK(more, to, w)
  BY ValuesStay, CustsStay DEF ValueOK
<1>2. ASSUME NEW j, NEW w, TaggedOK(all, j, w)
      PROVE  TaggedOK(more, j, w)
  <2>1. w.tag \in DOMAIN all /\ all[w.tag].beh = "tag_beh" /\ Turned(all[w.tag], more[w.tag])
    BY <1>2, AllTurned DEF TaggedOK, IsIn
  <2>2. more[w.tag] = all[w.tag]
    BY <2>1 DEF Turned, Mutable, Turning, JoinBehs, MapBehs, HeadBehs
  <2> QED
    BY <1>2, <2>1, <2>2, KindsStay, ValuesStay, CustsStay DEF TaggedOK
<1>3. \A w : PairOK(all, w) => PairOK(more, w)
  BY ValuesStay DEF PairOK
<1>4. \A w : FixedPair(all, w) => FixedPair(more, w)
  BY ValuesStay DEF FixedPair
<1>5. \A w : ArgsOK(all, w) => ArgsOK(more, w)
  BY ValuesStay DEF ArgsOK
<1> QED
  BY <1>1, <1>2, <1>3, <1>4, <1>5

(* The states of the actors that do not act remain what they should be.    *)
LEMMA StatesStay ==
  ASSUME NEW all, NEW me, NEW more, Grown(all, me, more), Tagging(all),
         a_sink \in DOMAIN all, all[a_sink].beh = "sink_beh",
         NEW row, NEW row2, DOMAIN row = DOMAIN all, \A a \in DOMAIN all : row2[a] = row[a],
         NEW a \in DOMAIN all, NEW b, NEW s
  PROVE  StateOK(all, row, a, b, s) => StateOK(more, row2, a, b, s)
<1>1. ObjectOK(all, b, s) => ObjectOK(more, b, s)
  BY KindsStay, ValuesStay DEF ObjectOK
<1>2. CustomerOK(all, b, s) => CustomerOK(more, b, s)
  BY KindsStay, ValuesStay, CustsStay, RequestsStay DEF CustomerOK
<1>3. ASSUME ForkJoinOK(all, a, b, s)
      PROVE  ForkJoinOK(more, a, b, s)
  <2>1. \A t : IsIn(all, {"tag_beh"}, t) => more[t] = all[t]
    BY AllTurned DEF IsIn, Turned, Mutable, Turning, JoinBehs, MapBehs, HeadBehs
  <2>2. IsIn(all, BothBehs, s.cust) => (IsIn(more, {"pair_copy_beh"}, s.cust) => IsIn(all, {"pair_copy_beh"}, s.cust))
    BY ValuesStay DEF IsIn
  <2> QED
    BY <1>3, <2>1, <2>2, KindsStay, ValuesStay DEF ForkJoinOK, JoinBehs
<1>4. ASSUME MapOK(all, row, a, b, s)
      PROVE  MapOK(more, row2, a, b, s)
  <2>1. \A x : IsIn(all, HeadBehs, x) \/ IsIn(all, RowBehs, x) => row2[x] = row[x]
    BY DEF IsIn
  <2> QED
    BY <1>4, <2>1, KindsStay, ValuesStay DEF MapOK
<1> QED
  BY <1>1, <1>2, <1>3, <1>4 DEF StateOK

-----------------------------------------------------------------------------
(* Messages that wait, and what is held.                                   *)

Settled(all) ==
  /\ IsSeq(all) /\ a_sink \in DOMAIN all /\ all[a_sink].beh = "sink_beh"
  /\ \A a \in DOMAIN all : all[a].beh \in Kinds

LEMMA StatesTag == ASSUME NEW all, NEW row, StatesOK(all, row) PROVE Tagging(all)
<1> SUFFICES ASSUME NEW t \in DOMAIN all, all[t].beh = "tag_beh"
             PROVE  IsIn(all, JoinBehs, all[t].mine) /\ IsIn(all, BothBehs, all[all[t].mine].mine.cust)
  BY DEF Tagging
<1>1. IsIn(all, JoinBehs, all[t].mine)
  BY DEF StatesOK, StateOK, ForkJoinOK
<1>2. IsIn(all, BothBehs, all[all[t].mine].mine.cust)
  BY <1>1 DEF StatesOK, StateOK, ForkJoinOK, IsIn
<1> QED
  BY <1>1, <1>2

(* The kinds of customers are different.                                   *)
LEMMA KindsAre ==
  /\ \A b \in Kinds : b \notin ObjectBehs \cup {"sink_beh", "map_next_beh"} \cup HeadBehs \cup MapBehs \cup JoinBehs
       => b \in ValueBehs \cup (ArgsBehs \ {"map_args_beh"}) \cup PairBehs \cup BothBehs \cup {"fork_beh"}
  /\ MapBehs \subseteq ArgsBehs \cup {"map_unwrap_beh", "map_comb_beh", "map_tail_beh"}
  /\ HeadBehs = {"map_head_beh", "map_pair_beh"}
<1>1. OpenBehs \cup {"abort_beh"} =
        ValueBehs \cup ArgsBehs \cup PairBehs \cup BothBehs \cup JoinBehs \cup MapBehs \cup {"fork_beh"}
  BY DEF OpenBehs, ValueBehs
<1> QED
  BY <1>1 DEF Kinds, MapBehs, ArgsBehs, HeadBehs

(* What an actor is sent says whom it serves.                              *)
LEMMA ServedExist ==
  ASSUME NEW all, NEW row, Settled(all), NEW w, MessageOK(all, row, w), w.what.op \in Requests \cup {"heads"}
  PROVE  /\ w.what.op = "heads" => Cust(all, w.what.cust)
         /\ w.what.op # "heads" => RequestOK(all, w.to, w.what)
         /\ w.what.op # "heads" => IsIn(all, ObjectBehs, w.to) \/ w.to \in {NIL, NotActor}
<1>1. CASE w.to \notin DOMAIN all
  BY <1>1 DEF MessageOK, RequestOK, Requests
<1>2. CASE w.to \in DOMAIN all /\ w.to \notin {NIL, NotActor}
  <2>1. SentOK(all, row, w.to, w.what) /\ all[w.to].beh \in Kinds
    BY <1>2 DEF MessageOK, Settled
  <2>2. w.what.op \notin {"value", "pair", "args", "FALSE", "tagged", "fork"}
    BY DEF Requests
  <2>3. all[w.to].beh \notin ValueBehs \cup ArgsBehs \cup PairBehs \cup BothBehs \cup JoinBehs
                             \cup {"fork_beh", "sink_beh", "map_unwrap_beh", "map_comb_beh", "map_next_beh"} \cup HeadBehs
    BY <2>1, <2>2 DEF SentOK, ValueOK, ArgsOK, FixedPair, NoPair, PairOK, TaggedOK, ForkOK, BothBehs, HeadBehs
  <2>4. all[w.to].beh \in ObjectBehs \cup {"map_tail_beh"}
    BY <2>1, <2>3, KindsAre
  <2>5. CASE all[w.to].beh \in ObjectBehs
    <3>1. RequestOK(all, w.to, w.what)
      BY <2>1, <2>5 DEF SentOK
    <3> QED
      BY <1>2, <2>5, <3>1 DEF RequestOK, Requests, IsIn
  <2>6. CASE all[w.to].beh = "map_tail_beh"
    BY <2>1, <2>6 DEF SentOK, Heads, Requests
  <2> QED
    BY <2>4, <2>5, <2>6
<1>3. CASE w.to \in {NIL, NotActor}
  <2>1. w.to \notin DOMAIN all
    BY <1>3, LengthIs DEF Settled, NIL, NotActor
  <2> QED
    BY <1>1, <2>1
<1> QED
  BY <1>1, <1>2, <1>3

(* Whose right the customer k of a request is.                             *)
LEMMA ServedAre ==
  ASSUME NEW all, NEW row, Settled(all), StatesOK(all, row),
         NEW w, MessageOK(all, row, w), w.what.op \in Requests \cup {"heads"}
  PROVE  /\ w.what.cust \in DOMAIN all
         /\ row[w.what.cust] \in DOMAIN all
         /\ all[row[w.what.cust]].beh \in ValueBehs \cup PairBehs \cup MapBehs \cup {"sink_beh"}
<1> DEFINE k == w.what.cust
<1>1. k \in DOMAIN all /\ all[k].beh \in ValueBehs \cup PairBehs \cup HeadBehs \cup MapBehs \cup {"sink_beh"}
  <2>1. AnyCust(all, k) \/ IsIn(all, PairBehs \cup HeadBehs, k) \/ IsIn(all, MapBehs, k)
    <3>1. CASE w.what.op = "heads"
      BY <3>1, ServedExist DEF Cust
    <3>2. CASE w.what.op # "heads"
      <4>1. CustOK(all, w.to, w.what)
        BY <3>2, ServedExist DEF RequestOK
      <4> QED
        BY <4>1 DEF CustOK, Cust
    <3> QED
      BY <3>1, <3>2
  <2> QED
    BY <2>1 DEF AnyCust, IsIn, Settled
<1> HIDE DEF k
<1>2. MapOK(all, row, k, all[k].beh, all[k].mine)
  BY <1>1 DEF StatesOK, StateOK
<1>3. CASE all[k].beh \in HeadBehs
  BY <1>1, <1>2, <1>3 DEF MapOK, IsIn, k
<1>4. CASE all[k].beh \notin HeadBehs
  <2>1. all[k].beh # "map_next_beh"
    BY <1>1 DEF ValueBehs, PairBehs, MapBehs, HeadBehs
  <2>2. row[k] = k
    BY <1>2, <1>4, <2>1 DEF MapOK
  <2> QED
    BY <1>1, <1>4, <2>2 DEF k
<1> QED
  BY <1>3, <1>4

(* Nobody but its tags answers a join.                                     *)
LEMMA HeldAre ==
  ASSUME NEW all, NEW row, Settled(all), StatesOK(all, row), NEW w, MessageOK(all, row, w)
  PROVE  \A k \in Held(all, row, w) : k \in DOMAIN all /\ all[k].beh \notin JoinBehs
<1>1. ASSUME NEW k \in Serves(row, w)
      PROVE  k \in DOMAIN all /\ all[k].beh \notin JoinBehs
  <2>1. w.what.op \in Requests \cup {"heads"} /\ k = row[w.what.cust]
    BY DEF Serves
  <2> QED
    BY <2>1, ServedAre DEF ValueBehs, PairBehs, MapBehs, JoinBehs
<1>2. ASSUME NEW k \in Answers(all, row, w)
      PROVE  k \in DOMAIN all /\ all[k].beh \notin JoinBehs
  <2>1. CASE w.what.op = "tagged"
    <3>1. w.to \in DOMAIN all /\ SentOK(all, row, w.to, w.what) /\ all[w.to].beh \in Kinds
      <4>1. "tagged" \notin Requests
        BY DEF Requests
      <4> QED
        BY <2>1, <4>1 DEF MessageOK, RequestOK, Settled
    <3>2. "tagged" \notin Requests \cup {"value", "pair", "args", "FALSE", "fork", "heads"}
      BY DEF Requests
    <3>3. all[w.to].beh \in JoinBehs
      BY <2>1, <3>1, <3>2, KindsAre DEF SentOK, RequestOK, ValueOK, ArgsOK, FixedPair, NoPair, PairOK, ForkOK, BothBehs,
           HeadBehs, Heads
    <3>4. TaggedOK(all, w.to, w.what)
      BY <3>1, <3>3 DEF SentOK
    <3> QED
      BY <2>1, <3>4 DEF Answers, TaggedOK, IsIn, JoinBehs
  <2>2. CASE w.what.op # "tagged"
    <3>1. w.to \in DOMAIN all /\ k = row[w.to] /\ all[w.to].beh \notin ObjectBehs
      BY <2>2 DEF Answers
    <3>2. SentOK(all, row, w.to, w.what)
      <4>1. w.to \notin {NIL, NotActor}
        BY <3>1, LengthIs DEF Settled, NIL, NotActor
      <4> QED
        BY <4>1 DEF MessageOK
    <3>3. all[w.to].beh \notin JoinBehs
      BY <2>2, <3>2 DEF SentOK, TaggedOK
    <3>4. MapOK(all, row, w.to, all[w.to].beh, all[w.to].mine)
      BY <3>1 DEF StatesOK, StateOK
    <3> QED
      BY <3>1, <3>3, <3>4 DEF MapOK, IsIn, MapBehs, JoinBehs
  <2> QED
    BY <2>1, <2>2
<1> QED
  BY <1>1, <1>2 DEF Held

(* What is kept are actors that are no joins.                              *)
LEMMA KeptAre ==
  ASSUME NEW all, NEW row, Settled(all), StatesOK(all, row), NEW a \in DOMAIN all
  PROVE  \A k \in Keeps(all, a) : k \in DOMAIN all /\ all[k].beh \notin JoinBehs
<1> SUFFICES ASSUME NEW k \in Keeps(all, a)
             PROVE  k \in DOMAIN all /\ all[k].beh \notin JoinBehs
  OBVIOUS
<1>1. PICK b, s : b = all[a].beh /\ s = all[a].mine
  OBVIOUS
<1>2. CustomerOK(all, b, s) /\ ForkJoinOK(all, a, b, s)
  BY <1>1 DEF StatesOK, StateOK
<1>3. CASE k \in Rest(all, b, s)
  BY <1>3 DEF Rest, IsIn, MapBehs, JoinBehs
<1>4. CASE k \in Direct(b, s) \ {a_sink}
  <2>1. \/ IsIn(all, ValueBehs, k)
        \/ IsIn(all, PairBehs, k)
        \/ IsIn(all, BothBehs, k)
    <3>1. CASE b \in WithCust
      BY <1>2, <1>4, <3>1 DEF Direct, CustomerOK, Cust, AnyCust
    <3>2. CASE b \in JoinBehs \cup {"fork_beh"}
      <4>1. k = s.cust
        BY <1>4, <3>2 DEF Direct, JoinBehs
      <4>2. IsIn(all, BothBehs, s.cust)
        BY <1>2, <3>2 DEF ForkJoinOK
      <4> QED
        BY <4>1, <4>2
    <3>3. CASE b = "command_beh"
      BY <1>2, <1>4, <3>3 DEF Direct, CustomerOK
    <3>4. CASE b \in {"dotted_close_beh", "pair_copy_beh", "pair_map_beh"} /\ b \notin WithCust \cup JoinBehs
      BY <1>2, <1>4, <3>4 DEF Direct, CustomerOK, Cust, AnyCust
    <3>5. CASE b = "pair_foldl_beh" /\ b \notin WithCust \cup JoinBehs
      BY <1>2, <1>4, <3>5 DEF Direct, CustomerOK, Cust, AnyCust
    <3>6. CASE b \notin WithCust \cup JoinBehs \cup
                 {"fork_beh", "command_beh", "dotted_close_beh", "pair_copy_beh", "pair_map_beh", "pair_foldl_beh"}
      BY <1>4, <3>6 DEF Direct
    <3> QED
      BY <3>1, <3>2, <3>3, <3>4, <3>5, <3>6
  <2> QED
    BY <2>1 DEF IsIn, ValueBehs, PairBehs, BothBehs, JoinBehs
<1> QED
  BY <1>1, <1>3, <1>4 DEF Keeps

(* Messages that wait keep their meaning when actors change.               *)
LEMMA HeldStays ==
  ASSUME NEW all, NEW me, NEW more, Grown(all, me, more), Settled(all),
         NEW row, NEW row2, StatesOK(all, row), \A a \in DOMAIN all : row2[a] = row[a],
         NEW w, MessageOK(all, row, w)
  PROVE  Held(more, row2, w) = Held(all, row, w)
<1>1. Serves(row2, w) = Serves(row, w)
  BY ServedAre DEF Serves
<1>2. Answers(more, row2, w) = Answers(all, row, w)
  <2>1. CASE w.what.op = "tagged"
    BY <2>1 DEF Answers
  <2>2. CASE w.what.op # "tagged" /\ w.to \notin DOMAIN all
    <3>1. w.to \in {NIL, NotActor}
      BY <2>2 DEF MessageOK
    <3>2. w.to \notin DOMAIN more
      BY <3>1, LengthIs DEF Grown, NIL, NotActor
    <3> QED
      BY <2>2, <3>2 DEF Answers
  <2>3. CASE w.what.op # "tagged" /\ w.to \in DOMAIN all
    <3>1. w.to \in DOMAIN more /\ Turned(all[w.to], more[w.to])
      BY <2>3, AllTurned DEF Grown
    <3>2. more[w.to].beh \in ObjectBehs \cup {"sink_beh"} <=> all[w.to].beh \in ObjectBehs \cup {"sink_beh"}
      BY <3>1 DEF Turned, ObjectBehs, Immutable, Mutable, Turning, JoinBehs, MapBehs, HeadBehs
    <3>3. row2[w.to] = row[w.to]
      BY <2>3
    <3> QED
      BY <2>3, <3>1, <3>2, <3>3 DEF Answers
  <2> QED
    BY <2>1, <2>2, <2>3
<1> QED
  BY <1>1, <1>2 DEF Held

(* Actors that stay the same keep the same.                                *)
LEMMA KeepsStay ==
  ASSUME NEW all, NEW me, NEW more, Grown(all, me, more),
         NEW row, StatesOK(all, row), NEW a \in DOMAIN all, more[a] = all[a]
  PROVE  Keeps(more, a) = Keeps(all, a)
<1>1. PICK b, s : b = all[a].beh /\ s = all[a].mine
  OBVIOUS
<1>2. b = "fork_beh" => IsValue(all, s.tail) \/ IsIn(all, MapBehs, s.tail)
  BY <1>1 DEF StatesOK, StateOK, ForkJoinOK
<1>3. b = "fork_beh" => (IsIn(more, MapBehs, s.tail) <=> IsIn(all, MapBehs, s.tail))
  <2>1. IsValue(all, s.tail) => IsValue(more, s.tail)
    BY ValuesStay
  <2>2. IsValue(all, s.tail) => ~IsIn(all, MapBehs, s.tail)
    <3>1. NIL \notin DOMAIN all /\ NotActor \notin DOMAIN all
      BY LengthIs DEF Grown, NIL, NotActor
    <3> QED
      BY <3>1 DEF IsValue, IsIn, ObjectBehs, Immutable, Mutable, MapBehs
  <2>3. IsValue(more, s.tail) => ~IsIn(more, MapBehs, s.tail)
    <3>1. NIL \notin DOMAIN more /\ NotActor \notin DOMAIN more
      BY LengthIs DEF Grown, NIL, NotActor
    <3> QED
      BY <3>1 DEF IsValue, IsIn, ObjectBehs, Immutable, Mutable, MapBehs
  <2>4. IsIn(all, MapBehs, s.tail) => IsIn(more, MapBehs, s.tail)
    BY KindsStay
  <2> QED
    BY <1>2, <2>1, <2>2, <2>3, <2>4
<1>4. Rest(more, b, s) = Rest(all, b, s)
  BY <1>3 DEF Rest
<1> QED
  BY <1>1, <1>4 DEF Keeps

(* What was sent remains what its target expects.                          *)
LEMMA SentStays ==
  ASSUME NEW all, NEW me, NEW more, Grown(all, me, more), Settled(all),
         NEW row, NEW row2, StatesOK(all, row), \A a \in DOMAIN all : row2[a] = row[a],
         NEW to \in DOMAIN all, NEW w, SentOK(all, row, to, w),
         to = me => all[to].beh \notin {"fork_beh"} \cup MapBehs \cup HeadBehs
  PROVE  SentOK(more, row2, to, w)
<1>1. Tagging(all) /\ all[to].beh \in Kinds /\ a_sink \in DOMAIN all /\ all[a_sink].beh = "sink_beh"
  BY StatesTag DEF Settled
<1>2. PICK b, c : b = all[to].beh /\ c = more[to].beh
  OBVIOUS
<1>3. Turned(all[to], more[to]) /\ to \in DOMAIN more
  BY AllTurned DEF Grown
<1>4. \/ c = b
      \/ b \in JoinBehs /\ c \in JoinBehs
      \/ b = "vau_vars_beh" /\ c = "vau_evar_beh"
      \/ b = "report_beh" /\ c = "abort_beh"
  <2>1. CASE to # me
    BY <1>2, <2>1 DEF Grown
  <2>2. CASE to = me
    BY <1>2, <1>3, <2>2 DEF Turned, Turning
  <2> QED
    BY <2>1, <2>2
<1>5. CASE b \in ObjectBehs
  <2>1. RequestOK(all, to, w) /\ RequestOK(more, to, w)
    BY <1>1, <1>2, <1>5, RequestsStay DEF SentOK
  <2>2. c = b
    BY <1>4, <1>5 DEF ObjectBehs, Immutable, Mutable, JoinBehs
  <2> QED
    BY <1>2, <1>5, <2>1, <2>2 DEF SentOK, ObjectBehs, Immutable, Mutable, ValueBehs, ArgsBehs, PlainArgsBehs, BrandBehs,
       PairBehs, JoinBehs
<1>6. CASE b = "sink_beh"
  BY <1>2, <1>4, <1>6 DEF SentOK, ObjectBehs, Immutable, Mutable, ValueBehs, ArgsBehs, PlainArgsBehs, BrandBehs,
     PairBehs, JoinBehs
<1>7. CASE b \in ValueBehs
  <2>1. ValueOK(all, to, w) /\ ValueOK(more, to, w)
    BY <1>1, <1>2, <1>7, RepliesStay DEF SentOK, AnyCust, IsIn
  <2>2. c \in ValueBehs
    BY <1>4, <1>7 DEF ValueBehs, JoinBehs
  <2> QED
    BY <1>2, <2>1, <2>2 DEF SentOK, ObjectBehs, Immutable, Mutable, ValueBehs, ArgsBehs, PlainArgsBehs, BrandBehs,
       PairBehs, JoinBehs
<1>8. CASE b \in ArgsBehs
  <2>1. ArgsOK(all, w) /\ ArgsOK(more, w)
    BY <1>1, <1>2, <1>8, RepliesStay DEF SentOK
  <2>2. c \in ArgsBehs
    BY <1>4, <1>8 DEF ArgsBehs, PlainArgsBehs, BrandBehs, JoinBehs
  <2> QED
    BY <1>2, <2>1, <2>2 DEF SentOK, ObjectBehs, Immutable, Mutable, ValueBehs, ArgsBehs, PlainArgsBehs, BrandBehs,
       PairBehs, JoinBehs
<1>9. CASE b \in PairBehs
  <2>1. FixedPair(more, w) \/ NoPair(w)
    BY <1>1, <1>2, <1>9, RepliesStay DEF SentOK
  <2>2. c \in PairBehs
    BY <1>4, <1>9 DEF PairBehs, JoinBehs
  <2> QED
    BY <1>2, <2>1, <2>2 DEF SentOK, ObjectBehs, Immutable, Mutable, ValueBehs, ArgsBehs, PlainArgsBehs, BrandBehs,
       PairBehs, JoinBehs
<1>10. CASE b \in BothBehs
  <2>1. c = b
    BY <1>4, <1>10 DEF BothBehs, JoinBehs
  <2>2. (b = "pair_copy_beh" => FixedPair(more, w)) /\ (b = "pair_map_beh" => PairOK(more, w))
    BY <1>1, <1>2, <1>10, RepliesStay DEF SentOK
  <2> QED
    BY <1>2, <1>10, <2>1, <2>2 DEF SentOK, ObjectBehs, Immutable, Mutable, ValueBehs, ArgsBehs, PlainArgsBehs, BrandBehs,
       PairBehs, JoinBehs, BothBehs
<1>11. CASE b = "fork_beh"
  <2>1. c = b /\ more[to] = all[to]
    BY <1>2, <1>4, <1>11 DEF Grown, Mutable, JoinBehs
  <2>2. ForkOK(all, row, to, w)
    BY <1>2, <1>11 DEF SentOK
  <2>3. IsIn(all, BothBehs, all[to].mine.cust)
    BY <1>2, <1>11 DEF StatesOK, StateOK, ForkJoinOK
  <2>4. IsIn(more, {"pair_copy_beh"}, all[to].mine.cust) => IsIn(all, {"pair_copy_beh"}, all[to].mine.cust)
    BY <2>3, ValuesStay DEF IsIn
  <2>5. /\ IsIn(all, HeadBehs, w.t_req.heads) => row2[w.t_req.heads] = row[w.t_req.heads]
        /\ IsIn(all, HeadBehs, w.t_req.heads) => IsIn(more, HeadBehs, w.t_req.heads)
        /\ IsIn(all, MapBehs, all[to].mine.tail) => IsIn(more, MapBehs, all[to].mine.tail)
        /\ IsValue(all, all[to].mine.tail) => IsValue(more, all[to].mine.tail)
    BY KindsStay, ValuesStay DEF IsIn
  <2>6. /\ EvalOf(all, w.h_req, NIL) => EvalOf(more, w.h_req, NIL)
        /\ MapOf(all, w.t_req, NIL) => MapOf(more, w.t_req, NIL)
        /\ CombOf(all, w.h_req, NIL) => CombOf(more, w.h_req, NIL)
    BY <1>1, RequestsStay
  <2>7. ForkOK(more, row2, to, w)
    BY <2>1, <2>2, <2>4, <2>5, <2>6 DEF ForkOK
  <2> QED
    BY <1>2, <1>11, <2>1, <2>7 DEF SentOK, ObjectBehs, Immutable, Mutable, ValueBehs, ArgsBehs, PlainArgsBehs, BrandBehs,
       PairBehs, JoinBehs
<1>12. CASE b \in JoinBehs
  <2>1. c \in JoinBehs
    BY <1>4, <1>12 DEF JoinBehs
  <2>2. TaggedOK(more, to, w)
    BY <1>1, <1>2, <1>12, RepliesStay DEF SentOK
  <2> QED
    BY <1>2, <2>1, <2>2 DEF SentOK, ObjectBehs, Immutable, Mutable, ValueBehs, ArgsBehs, PlainArgsBehs, BrandBehs,
       PairBehs, JoinBehs
<1>13. CASE b \in {"map_unwrap_beh", "map_comb_beh", "map_next_beh"}
  <2>1. c = b
    BY <1>4, <1>13 DEF JoinBehs
  <2>2. w.op = "value" /\ IsValue(more, w.val)
    BY <1>2, <1>13, ValuesStay DEF SentOK
  <2> QED
    BY <1>2, <1>13, <2>1, <2>2 DEF SentOK, ObjectBehs, Immutable, Mutable, ValueBehs, ArgsBehs, PlainArgsBehs, BrandBehs,
       PairBehs, JoinBehs
<1>14. CASE b = "map_tail_beh"
  <2>1. c = b
    BY <1>4, <1>14 DEF JoinBehs
  <2>2. w = Heads(w.cust, w.heads) /\ Cust(more, w.cust) /\ IsIn(more, HeadBehs, w.heads) /\ row2[w.heads] = to
    BY <1>1, <1>2, <1>14, KindsStay, CustsStay DEF SentOK, IsIn
  <2> QED
    BY <1>2, <1>14, <2>1, <2>2 DEF SentOK, ObjectBehs, Immutable, Mutable, ValueBehs, ArgsBehs, PlainArgsBehs, BrandBehs,
       PairBehs, JoinBehs
<1>15. CASE b = "map_head_beh"
  <2>1. c = b
    BY <1>4, <1>15 DEF JoinBehs
  <2>2. w.op = "value" /\ IsIn(more, RowBehs, w.val) /\ row2[w.val] = row2[to]
    BY <1>1, <1>2, <1>15, KindsStay DEF SentOK, IsIn
  <2> QED
    BY <1>2, <1>15, <2>1, <2>2 DEF SentOK, ObjectBehs, Immutable, Mutable, ValueBehs, ArgsBehs, PlainArgsBehs, BrandBehs,
       PairBehs, JoinBehs
<1>16. CASE b = "map_pair_beh"
  <2>1. c = b
    BY <1>4, <1>16 DEF JoinBehs
  <2>2. PairOK(more, w) \/ NoPair(w)
    BY <1>1, <1>2, <1>16, RepliesStay DEF SentOK
  <2> QED
    BY <1>2, <1>16, <2>1, <2>2 DEF SentOK, ObjectBehs, Immutable, Mutable, ValueBehs, ArgsBehs, PlainArgsBehs, BrandBehs,
       PairBehs, JoinBehs
<1> QED
  BY <1>1, <1>2, <1>5, <1>6, <1>7, <1>8, <1>9, <1>10, <1>11, <1>12, <1>13, <1>14, <1>15, <1>16, KindsAre

-----------------------------------------------------------------------------
(* What the actor that handles a message may hand on: the rights that come *)
(* with the message, and those that it keeps.                              *)
InHand(all, row, m) == Held(all, row, m) \cup Keeps(all, m.to)

LEMMA Settles ==
  ASSUME NEW all, NEW waiting, NEW handled, Shape(all, waiting, handled)
  PROVE  Settled(all)
<1>1. DOMAIN all = 1 .. Len(all) /\ Len(all) \in Nat
  BY LengthIs DEF Shape
<1> QED
  BY <1>1 DEF Shape, Settled, a_sink

(* What the actor that handles a message may rely on.                      *)
LEMMA Taking ==
  ASSUME NEW all, NEW waiting, NEW handled, NEW written, NEW ended, NEW open, NEW row,
         Orderly(all, waiting, handled, written, ended, open, row),
         NEW i \in DOMAIN waiting, NEW m, m = waiting[i], m.to \in DOMAIN all
  PROVE  /\ SentOK(all, row, m.to, m.what)
         /\ m.what.op = "tagged" <=> all[m.to].beh \in JoinBehs
         /\ m.what.op = "tagged" =>
              /\ TaggedOK(all, m.to, m.what)
              /\ Held(all, row, m) = {m.what.tag}
              /\ m.what.tag \in open /\ m.to \in open /\ Awaits(all[m.to], m.what.tag)
         /\ m.what.op # "tagged" /\ all[m.to].beh \notin ObjectBehs \cup {"sink_beh"} =>
              row[m.to] \in Held(all, row, m)
         /\ m.to \in open /\ all[m.to].beh \notin JoinBehs => m.to \in Held(all, row, m)
         /\ m.to \in open \/ Keeps(all, m.to) = {}
         /\ InHand(all, row, m) \subseteq open
<1>1. Settled(all) /\ StatesOK(all, row) /\ MessageOK(all, row, m)
  BY Settles DEF Orderly
<1>2. SentOK(all, row, m.to, m.what) /\ all[m.to].beh \in Kinds
  <2>1. m.to \notin {NIL, NotActor}
    BY <1>1, LengthIs DEF Settled, NIL, NotActor
  <2> QED
    BY <1>1, <2>1 DEF MessageOK, Settled
<1>3. m.what.op = "tagged" => all[m.to].beh \in JoinBehs
  <2>1. "tagged" \notin Requests \cup {"value", "pair", "args", "FALSE", "fork", "heads"}
    BY DEF Requests
  <2> QED
    BY <1>2, <2>1, KindsAre DEF SentOK, RequestOK, ValueOK, ArgsOK, FixedPair, NoPair, PairOK, ForkOK, BothBehs,
       HeadBehs, Heads
<1>4. all[m.to].beh \in JoinBehs => m.what.op = "tagged" /\ TaggedOK(all, m.to, m.what)
  BY <1>2 DEF SentOK, TaggedOK
<1>5. Held(all, row, m) \subseteq open
  BY DEF Orderly, Unshared
<1>6. m.what.op = "tagged" => Held(all, row, m) = {m.what.tag}
  BY DEF Held, Answers, Serves, Requests
<1>7. m.what.op = "tagged" => m.what.tag \in open /\ m.to \in open /\ Awaits(all[m.to], m.what.tag)
  <2> SUFFICES ASSUME m.what.op = "tagged"
               PROVE  m.what.tag \in open /\ m.to \in open /\ Awaits(all[m.to], m.what.tag)
    OBVIOUS
  <2>1. m.what.tag \in open /\ all[m.what.tag].beh = "tag_beh" /\ all[m.what.tag].mine = m.to
    BY <1>3, <1>4, <1>5, <1>6 DEF TaggedOK, IsIn
  <2> QED
    BY <2>1 DEF Orderly, Joined
<1>8. m.what.op # "tagged" /\ all[m.to].beh \notin ObjectBehs \cup {"sink_beh"} => row[m.to] \in Held(all, row, m)
  BY DEF Held, Answers
<1>9. m.to \in open => all[m.to].beh \in OpenBehs
  BY DEF Orderly, Told
<1>10. m.to \in open /\ all[m.to].beh \notin JoinBehs => m.to \in Held(all, row, m)
  <2> SUFFICES ASSUME m.to \in open, all[m.to].beh \notin JoinBehs
               PROVE  m.to \in Held(all, row, m)
    OBVIOUS
  <2>1. MapOK(all, row, m.to, all[m.to].beh, all[m.to].mine)
    BY <1>1 DEF StatesOK, StateOK
  <2>2. all[m.to].beh \notin ObjectBehs \cup {"sink_beh"} \cup HeadBehs \cup {"map_next_beh"}
    BY <1>9 DEF OpenBehs, ValueBehs, ArgsBehs, PlainArgsBehs, BrandBehs, PairBehs, BothBehs, JoinBehs, MapBehs, HeadBehs,
       ObjectBehs, Immutable, Mutable
  <2>3. row[m.to] = m.to
    BY <2>1, <2>2 DEF MapOK
  <2> QED
    BY <1>3, <1>8, <2>2, <2>3
<1>11. m.to \in open \/ Keeps(all, m.to) = {}
  <2>1. CASE all[m.to].beh \in JoinBehs
    BY <1>4, <1>7, <2>1
  <2>2. CASE all[m.to].beh \in ObjectBehs \cup HeadBehs \cup {"sink_beh", "abort_beh", "map_next_beh"}
    <3>1. Direct(all[m.to].beh, all[m.to].mine) = {}
      BY <2>2 DEF Direct, WithCust, ObjectBehs, Immutable, Mutable, HeadBehs, PairBehs, PlainArgsBehs, BrandBehs, JoinBehs
    <3>2. Rest(all, all[m.to].beh, all[m.to].mine) = {}
      BY <2>2 DEF Rest, ObjectBehs, Immutable, Mutable, HeadBehs
    <3> QED
      BY <3>1, <3>2 DEF Keeps
  <2>3. CASE all[m.to].beh \notin JoinBehs \cup ObjectBehs \cup HeadBehs \cup {"sink_beh", "abort_beh", "map_next_beh"}
    <3>1. MapOK(all, row, m.to, all[m.to].beh, all[m.to].mine)
      BY <1>1 DEF StatesOK, StateOK
    <3>2. row[m.to] = m.to
      BY <2>3, <3>1 DEF MapOK
    <3> QED
      BY <1>3, <1>5, <1>8, <2>3, <3>2
  <2> QED
    BY <2>1, <2>2, <2>3
<1>12. Keeps(all, m.to) \subseteq open
  BY <1>11 DEF Orderly, Unshared
<1> QED
  BY <1>2, <1>3, <1>4, <1>5, <1>6, <1>7, <1>8, <1>10, <1>11, <1>12 DEF InHand

(* The queue after a step.                                                 *)
LEMMA QueueAt ==
  ASSUME NEW s, IsSeq(s), s # << >>, NEW t, IsSeq(t), NEW p, p = Tail(s) \o t
  PROVE  /\ IsSeq(p) /\ 1 \in DOMAIN s /\ Head(s) = s[1]
         /\ \A i \in DOMAIN p :
              \/ i + 1 \in DOMAIN s /\ i + 1 # 1 /\ p[i] = s[i + 1] /\ i < Len(s)
              \/ i - (Len(s) - 1) \in DOMAIN t /\ p[i] = t[i - (Len(s) - 1)] /\ i >= Len(s)
         /\ DOMAIN p \subseteq Nat /\ Len(s) \in Nat
         /\ \A i \in DOMAIN s : i # 1 => i - 1 \in DOMAIN p /\ p[i - 1] = s[i]
         /\ \A i \in DOMAIN t : i + (Len(s) - 1) \in DOMAIN p /\ p[i + (Len(s) - 1)] = t[i]
<1>1. PICK S : s \in Seq(S)
  BY DEF IsSeq
<1>2. PICK r : r = Tail(s)
  OBVIOUS
<1>3. r \in Seq(S) /\ Len(r) = Len(s) - 1 /\ Len(s) \in Nat /\ DOMAIN s = 1 .. Len(s) /\ Len(s) >= 1
  BY <1>1, <1>2
<1>4. \A i \in 1 .. Len(r) : r[i] = s[i + 1]
  BY <1>1, <1>2, <1>3
<1>5. IsSeq(r) /\ p = r \o t
  BY <1>2, <1>3 DEF IsSeq
<1>6. /\ IsSeq(p)
      /\ DOMAIN p = 1 .. Len(r) + Len(t)
      /\ \A i \in 1 .. Len(r) : p[i] = r[i]
  <2>1. IsSeq(r) /\ IsSeq(t) /\ p = r \o t
    BY <1>5
  <2>2. IsSeq(p) /\ DOMAIN p = 1 .. Len(r) + Len(t)
    BY <2>1, ConcatenatedAt
  <2>3. \A i \in 1 .. Len(r) : p[i] = r[i]
    BY <2>1, ConcatenatedAt
  <2> QED
    BY <2>2, <2>3
<1>7. \A i \in Len(r) + 1 .. Len(r) + Len(t) : p[i] = t[i - Len(r)]
  BY <1>5, ConcatenatedAt
<1>8. Len(t) \in Nat /\ DOMAIN t = 1 .. Len(t)
  BY LengthIs
<1>9. Head(s) = s[1]
  BY <1>1
<1>10. ASSUME NEW i \in DOMAIN p
       PROVE  \/ i + 1 \in DOMAIN s /\ i + 1 # 1 /\ p[i] = s[i + 1] /\ i < Len(s)
              \/ i - (Len(s) - 1) \in DOMAIN t /\ p[i] = t[i - (Len(s) - 1)] /\ i >= Len(s)
  <2>1. CASE i <= Len(r)
    BY <1>3, <1>4, <1>6, <1>8, <2>1
  <2>2. CASE i > Len(r)
    BY <1>3, <1>6, <1>7, <1>8, <2>2
  <2> QED
    BY <1>3, <1>6, <1>8, <2>1, <2>2
<1>11. ASSUME NEW i \in DOMAIN s, i # 1
       PROVE  i - 1 \in DOMAIN p /\ p[i - 1] = s[i]
  <2>1. i - 1 \in 1 .. Len(r) /\ i - 1 \in DOMAIN p /\ (i - 1) + 1 = i
    BY <1>3, <1>6, <1>8, <1>11
  <2>2. p[i - 1] = s[i]
    BY <1>4, <1>6, <2>1
  <2> QED
    BY <2>1, <2>2
<1>12. ASSUME NEW i \in DOMAIN t
       PROVE  i + (Len(s) - 1) \in DOMAIN p /\ p[i + (Len(s) - 1)] = t[i]
  <2>1. i + Len(r) \in Len(r) + 1 .. Len(r) + Len(t) /\ i + Len(r) \in DOMAIN p /\ (i + Len(r)) - Len(r) = i
    BY <1>3, <1>6, <1>8
  <2>2. p[i + Len(r)] = t[i]
    BY <1>7, <2>1
  <2> QED
    BY <1>3, <2>1, <2>2
<1> QED
  BY <1>3, <1>6, <1>8, <1>9, <1>10, <1>11, <1>12

(* Which customers can be answered after a step: F are not, and new ones   *)
(* are.  What is handed on is what was in hand and what is new.            *)
Newly(all, more) == {a \in DOMAIN more : a \notin DOMAIN all /\ more[a].beh \in OpenBehs}
Later(all, open, more, F) == (open \ F) \cup Newly(all, more)
Rights(all, row, m, more, F) == (InHand(all, row, m) \ F) \cup Newly(all, more)
Finishes(m, F) ==
  IF m.what.op = "tagged" THEN m.what.tag \in F /\ F \subseteq {m.to, m.what.tag} ELSE F \subseteq {m.to}

LEMMA OldHolders ==
  ASSUME NEW all, NEW waiting, NEW handled, NEW written, NEW ended, NEW open, NEW row,
         Orderly(all, waiting, handled, written, ended, open, row),
         1 \in DOMAIN waiting, NEW m, m = waiting[1], m.to \in DOMAIN all,
         NEW more, Grown(all, m.to, more), NEW row2, \A a \in DOMAIN all : row2[a] = row[a],
         NEW F, Finishes(m, F)
  PROVE  /\ \A k \in F \cap open : k \in InHand(all, row, m) \/ all[k].beh \in JoinBehs
         /\ InHand(all, row, m) \subseteq open
         /\ \A i \in DOMAIN waiting :
              i # 1 => /\ Held(more, row2, waiting[i]) = Held(all, row, waiting[i])
                       /\ Held(all, row, waiting[i]) \subseteq open \ (F \cup InHand(all, row, m))
         /\ \A a \in open :
              a # m.to => /\ more[a] = all[a]
                          /\ Keeps(more, a) = Keeps(all, a)
                          /\ Keeps(all, a) \subseteq open \ (F \cup InHand(all, row, m))
         /\ open \cap Newly(all, more) = {}
<1> DEFINE R == InHand(all, row, m)
<1>1. Settled(all) /\ StatesOK(all, row) /\ \A i \in DOMAIN waiting : MessageOK(all, row, waiting[i])
  BY Settles DEF Orderly
<1>2. /\ m.what.op = "tagged" => Held(all, row, m) = {m.what.tag}
      /\ m.to \in open /\ all[m.to].beh \notin JoinBehs => m.to \in Held(all, row, m)
      /\ m.to \in open \/ Keeps(all, m.to) = {}
      /\ R \subseteq open
  BY Taking
<1>3. \A k \in F \cap open : k \in R \/ all[k].beh \in JoinBehs
  BY <1>2 DEF Finishes, InHand
<1>4. ASSUME NEW i \in DOMAIN waiting, i # 1
      PROVE  /\ Held(more, row2, waiting[i]) = Held(all, row, waiting[i])
             /\ Held(all, row, waiting[i]) \subseteq open \ (F \cup R)
  <2>1. Held(more, row2, waiting[i]) = Held(all, row, waiting[i])
    BY <1>1, HeldStays
  <2>2. Held(all, row, waiting[i]) \subseteq open
    BY DEF Orderly, Unshared
  <2>3. Held(all, row, waiting[i]) \cap Held(all, row, m) = {}
    BY <1>4 DEF Orderly, Unshared
  <2>4. Held(all, row, waiting[i]) \cap Keeps(all, m.to) = {}
    BY <1>2 DEF Orderly, Unshared
  <2>5. \A k \in Held(all, row, waiting[i]) : all[k].beh \notin JoinBehs
    BY <1>1, HeldAre
  <2> QED
    BY <1>3, <2>1, <2>2, <2>3, <2>4, <2>5 DEF InHand
<1>5. ASSUME NEW a \in open, a # m.to
      PROVE  /\ more[a] = all[a]
             /\ Keeps(more, a) = Keeps(all, a)
             /\ Keeps(all, a) \subseteq open \ (F \cup R)
  <2>1. a \in DOMAIN all /\ all[a].beh \in OpenBehs
    BY DEF Orderly, Told
  <2>2. more[a] = all[a]
    BY <1>5, <2>1 DEF Grown, Mutable, OpenBehs, ValueBehs, ArgsBehs, PlainArgsBehs, BrandBehs, PairBehs, BothBehs, JoinBehs,
       MapBehs
  <2>3. Keeps(more, a) = Keeps(all, a)
    BY <1>1, <2>1, <2>2, KeepsStay
  <2>4. Keeps(all, a) \subseteq open
    BY DEF Orderly, Unshared
  <2>5. Keeps(all, a) \cap Held(all, row, m) = {}
    BY DEF Orderly, Unshared
  <2>6. Keeps(all, a) \cap Keeps(all, m.to) = {}
    BY <1>2, <1>5 DEF Orderly, Unshared
  <2>7. \A k \in Keeps(all, a) : all[k].beh \notin JoinBehs
    BY <1>1, <2>1, KeptAre
  <2> QED
    BY <1>3, <2>2, <2>3, <2>4, <2>5, <2>6, <2>7 DEF InHand
<1>6. open \subseteq DOMAIN all
  BY DEF Orderly, Told
<1> QED
  BY <1>2, <1>3, <1>4, <1>5, <1>6 DEF Newly

(* A step that handles the first message: what it finds, ...               *)
Acts(all, waiting, handled, written, ended, open, row, more, row2, F) ==
  /\ Orderly(all, waiting, handled, written, ended, open, row)
  /\ 1 \in DOMAIN waiting /\ waiting[1].to \in DOMAIN all
  /\ Grown(all, waiting[1].to, more)
  /\ DOMAIN row2 = DOMAIN more /\ \A a \in DOMAIN all : row2[a] = row[a]
  /\ Finishes(waiting[1], F)
  /\ all[waiting[1].to].beh = "tag_beh" => F = {}

(* ... and how it hands on the rights, by what is sent and by the states   *)
(* of customers.                                                           *)
Hands(all, me, open2) == {a \in open2 : a = me \/ a \notin DOMAIN all}

Handed(more, row2, sent, hands, rights) ==
  /\ \A i \in DOMAIN sent : Held(more, row2, sent[i]) \subseteq rights
  /\ \A a \in hands : Keeps(more, a) \subseteq rights
  /\ \A i, j \in DOMAIN sent : i # j => Held(more, row2, sent[i]) \cap Held(more, row2, sent[j]) = {}
  /\ \A i \in DOMAIN sent : \A a \in hands : Held(more, row2, sent[i]) \cap Keeps(more, a) = {}
  /\ \A a, b \in hands : a # b => Keeps(more, a) \cap Keeps(more, b) = {}

Has(s, x) == \E k \in DOMAIN s : s[k] = x

(* The messages after a step: those that waited, without the first one,    *)
(* and those that are sent.                                                *)
LEMMA QueueOf ==
  ASSUME NEW all, NEW waiting, NEW handled, NEW written, NEW ended, NEW open, NEW row, NEW more, NEW row2, NEW F,
         Acts(all, waiting, handled, written, ended, open, row, more, row2, F),
         NEW sent, IsSeq(sent), NEW p, p = Tail(waiting) \o sent
  PROVE  /\ IsSeq(p)
         /\ \A i \in DOMAIN p :
              \/ i + 1 \in DOMAIN waiting /\ i + 1 # 1 /\ p[i] = waiting[i + 1] /\ i < Len(waiting)
              \/ i - (Len(waiting) - 1) \in DOMAIN sent /\ p[i] = sent[i - (Len(waiting) - 1)] /\ i >= Len(waiting)
         /\ DOMAIN p \subseteq Nat /\ Len(waiting) \in Nat
         /\ \A i \in DOMAIN waiting : i # 1 => Has(p, waiting[i])
         /\ \A i \in DOMAIN sent : Has(p, sent[i])
<1>1. IsSeq(waiting)
  BY DEF Acts, Orderly, Shape
<1>2. waiting # << >>
  <2>1. 1 \in DOMAIN waiting
    BY DEF Acts
  <2> QED
    BY <2>1
<1>3. /\ IsSeq(p)
      /\ DOMAIN p \subseteq Nat /\ Len(waiting) \in Nat
  BY <1>1, <1>2, QueueAt
<1>4. \A i \in DOMAIN p :
        \/ i + 1 \in DOMAIN waiting /\ i + 1 # 1 /\ p[i] = waiting[i + 1] /\ i < Len(waiting)
        \/ i - (Len(waiting) - 1) \in DOMAIN sent /\ p[i] = sent[i - (Len(waiting) - 1)] /\ i >= Len(waiting)
  BY <1>1, <1>2, QueueAt
<1>5. ASSUME NEW i \in DOMAIN waiting, i # 1
      PROVE  Has(p, waiting[i])
  <2>1. i - 1 \in DOMAIN p /\ p[i - 1] = waiting[i]
    BY <1>1, <1>2, <1>5, QueueAt
  <2> QED
    BY <2>1 DEF Has
<1>6. ASSUME NEW i \in DOMAIN sent
      PROVE  Has(p, sent[i])
  <2>1. i + (Len(waiting) - 1) \in DOMAIN p /\ p[i + (Len(waiting) - 1)] = sent[i]
    BY <1>1, <1>2, QueueAt
  <2> QED
    BY <2>1 DEF Has
<1> QED
  BY <1>3, <1>4, <1>5, <1>6

(* Who holds a right after a step.                                         *)
LEMMA HoldersOf ==
  ASSUME NEW all, NEW waiting, NEW handled, NEW written, NEW ended, NEW open, NEW row, NEW more, NEW row2, NEW F,
         Acts(all, waiting, handled, written, ended, open, row, more, row2, F),
         NEW me, me = waiting[1].to, NEW R, R = InHand(all, row, waiting[1]),
         NEW open2, open2 = Later(all, open, more, F), NEW rights, rights = Rights(all, row, waiting[1], more, F)
  PROVE  /\ R \subseteq open
         /\ rights \subseteq open2
         /\ rights \cap (open \ (F \cup R)) = {}
         /\ \A i \in DOMAIN waiting :
              i # 1 => /\ Held(more, row2, waiting[i]) = Held(all, row, waiting[i])
                       /\ Held(all, row, waiting[i]) \subseteq open \ (F \cup R)
         /\ \A a \in open2 :
              \/ a \in Hands(all, me, open2)
              \/ /\ a \in open /\ a # me /\ more[a] = all[a]
                 /\ Keeps(more, a) = Keeps(all, a)
                 /\ Keeps(all, a) \subseteq open \ (F \cup R)
<1>1. /\ \A k \in F \cap open : k \in R \/ all[k].beh \in JoinBehs
      /\ R \subseteq open
      /\ \A i \in DOMAIN waiting :
           i # 1 => /\ Held(more, row2, waiting[i]) = Held(all, row, waiting[i])
                    /\ Held(all, row, waiting[i]) \subseteq open \ (F \cup R)
      /\ \A a \in open :
           a # me => /\ more[a] = all[a]
                     /\ Keeps(more, a) = Keeps(all, a)
                     /\ Keeps(all, a) \subseteq open \ (F \cup R)
      /\ open \cap Newly(all, more) = {}
  BY OldHolders DEF Acts
<1>2. open \subseteq DOMAIN all
  BY DEF Acts, Orderly, Told
<1> QED
  BY <1>1, <1>2 DEF Later, Rights, Hands, Newly

(* A step hands on the rights that it has, each of them once.              *)
LEMMA UnsharedStep ==
  ASSUME NEW all, NEW waiting, NEW handled, NEW written, NEW ended, NEW open, NEW row, NEW more, NEW row2, NEW F,
         Acts(all, waiting, handled, written, ended, open, row, more, row2, F),
         NEW me, me = waiting[1].to, NEW sent, IsSeq(sent), NEW p, p = Tail(waiting) \o sent,
         NEW open2, open2 = Later(all, open, more, F), NEW rights, rights = Rights(all, row, waiting[1], more, F),
         Handed(more, row2, sent, Hands(all, me, open2), rights)
  PROVE  Unshared(more, p, open2, row2)
<1> DEFINE R == InHand(all, row, waiting[1])
           n == Len(waiting)
           hands == Hands(all, me, open2)
<1>1. /\ \A i \in DOMAIN p :
           \/ i + 1 \in DOMAIN waiting /\ i + 1 # 1 /\ p[i] = waiting[i + 1] /\ i < n
           \/ i - (n - 1) \in DOMAIN sent /\ p[i] = sent[i - (n - 1)] /\ i >= n
      /\ DOMAIN p \subseteq Nat /\ n \in Nat
  BY QueueOf
<1>2. /\ R \subseteq open
      /\ rights \subseteq open2
      /\ rights \cap (open \ (F \cup R)) = {}
      /\ \A i \in DOMAIN waiting :
           i # 1 => /\ Held(more, row2, waiting[i]) = Held(all, row, waiting[i])
                    /\ Held(all, row, waiting[i]) \subseteq open \ (F \cup R)
      /\ \A a \in open2 :
           \/ a \in hands
           \/ /\ a \in open /\ a # me /\ more[a] = all[a]
              /\ Keeps(more, a) = Keeps(all, a)
              /\ Keeps(all, a) \subseteq open \ (F \cup R)
  BY HoldersOf
<1>3. /\ \A i, j \in DOMAIN waiting : i # j => Held(all, row, waiting[i]) \cap Held(all, row, waiting[j]) = {}
      /\ \A i \in DOMAIN waiting : \A a \in open : Held(all, row, waiting[i]) \cap Keeps(all, a) = {}
      /\ \A a, b \in open : a # b => Keeps(all, a) \cap Keeps(all, b) = {}
  BY DEF Acts, Orderly, Unshared
<1>4. /\ \A i \in DOMAIN sent : Held(more, row2, sent[i]) \subseteq rights
      /\ \A a \in hands : Keeps(more, a) \subseteq rights
      /\ \A i, j \in DOMAIN sent : i # j => Held(more, row2, sent[i]) \cap Held(more, row2, sent[j]) = {}
      /\ \A i \in DOMAIN sent : \A a \in hands : Held(more, row2, sent[i]) \cap Keeps(more, a) = {}
      /\ \A a, b \in hands : a # b => Keeps(more, a) \cap Keeps(more, b) = {}
  BY DEF Handed
<1>5. open \ (F \cup R) \subseteq open2
  BY DEF Later
<1> DEFINE others == open \ (F \cup R)
           Old(i) == /\ i + 1 \in DOMAIN waiting /\ i + 1 # 1
                     /\ Held(more, row2, p[i]) = Held(all, row, waiting[i + 1])
                     /\ Held(more, row2, p[i]) \subseteq others
           Fresh2(i) == /\ i - (n - 1) \in DOMAIN sent
                        /\ Held(more, row2, p[i]) = Held(more, row2, sent[i - (n - 1)])
                        /\ Held(more, row2, p[i]) \subseteq rights
           Kept2(a) == /\ a \in open /\ Keeps(more, a) = Keeps(all, a) /\ Keeps(more, a) \subseteq others
           Hand(a) == a \in hands /\ Keeps(more, a) \subseteq rights
<1> HIDE DEF R, n, hands
<1>6. \A i \in DOMAIN p : i \in Nat /\ (Old(i) \/ Fresh2(i))
  BY <1>1, <1>2, <1>4
<1>7. \A a \in open2 : Kept2(a) \/ Hand(a)
  BY <1>2, <1>4
<1>8. rights \cap others = {} /\ rights \subseteq open2 /\ others \subseteq open2
  BY <1>2, <1>5
<1> HIDE DEF others, Old, Fresh2, Kept2, Hand
<1>9. \A i \in DOMAIN p : Held(more, row2, p[i]) \subseteq open2
  BY <1>6, <1>8 DEF Old, Fresh2
<1>10. \A a \in open2 : Keeps(more, a) \subseteq open2
  BY <1>7, <1>8 DEF Kept2, Hand
<1>11. ASSUME NEW i \in DOMAIN p, NEW j \in DOMAIN p, i # j
       PROVE  Held(more, row2, p[i]) \cap Held(more, row2, p[j]) = {}
  <2>1. CASE Old(i) /\ Old(j)
    <3>1. i + 1 # j + 1
      BY <1>6, <1>11
    <3> QED
      BY <1>3, <2>1, <3>1 DEF Old
  <2>2. CASE Fresh2(i) /\ Fresh2(j)
    <3>1. i - (n - 1) # j - (n - 1)
      BY <1>1, <1>6, <1>11
    <3> QED
      BY <1>4, <2>2, <3>1 DEF Fresh2
  <2>3. CASE (Old(i) /\ Fresh2(j)) \/ (Old(j) /\ Fresh2(i))
    <3>1. \/ Held(more, row2, p[i]) \subseteq others /\ Held(more, row2, p[j]) \subseteq rights
          \/ Held(more, row2, p[i]) \subseteq rights /\ Held(more, row2, p[j]) \subseteq others
      BY <2>3 DEF Old, Fresh2, Kept2, Hand
    <3> QED
      BY <1>8, <3>1
  <2> QED
    BY <1>6, <2>1, <2>2, <2>3
<1>12. ASSUME NEW i \in DOMAIN p, NEW a \in open2
       PROVE  Held(more, row2, p[i]) \cap Keeps(more, a) = {}
  <2>1. CASE Old(i) /\ Kept2(a)
    BY <1>3, <2>1 DEF Old, Kept2
  <2>2. CASE Fresh2(i) /\ Hand(a)
    BY <1>4, <2>2 DEF Fresh2, Hand
  <2>3. CASE (Old(i) /\ Hand(a)) \/ (Fresh2(i) /\ Kept2(a))
    <3>1. \/ Held(more, row2, p[i]) \subseteq others /\ Keeps(more, a) \subseteq rights
          \/ Held(more, row2, p[i]) \subseteq rights /\ Keeps(more, a) \subseteq others
      BY <2>3 DEF Old, Fresh2, Kept2, Hand
    <3> QED
      BY <1>8, <3>1
  <2> QED
    BY <1>6, <1>7, <2>1, <2>2, <2>3
<1>13. ASSUME NEW a \in open2, NEW b \in open2, a # b
       PROVE  Keeps(more, a) \cap Keeps(more, b) = {}
  <2>1. CASE Kept2(a) /\ Kept2(b)
    BY <1>3, <1>13, <2>1 DEF Kept2
  <2>2. CASE Hand(a) /\ Hand(b)
    BY <1>4, <1>13, <2>2 DEF Hand
  <2>3. CASE (Hand(a) /\ Kept2(b)) \/ (Kept2(a) /\ Hand(b))
    <3>1. \/ Keeps(more, a) \subseteq others /\ Keeps(more, b) \subseteq rights
          \/ Keeps(more, a) \subseteq rights /\ Keeps(more, b) \subseteq others
      BY <2>3 DEF Old, Fresh2, Kept2, Hand
    <3> QED
      BY <1>8, <3>1
  <2> QED
    BY <1>7, <2>1, <2>2, <2>3
<1> QED
  BY <1>9, <1>10, <1>11, <1>12, <1>13 DEF Unshared

(* New and changed actors are in a state that they may be in.              *)
StatesDone(all, more, row2) ==
  \A a \in DOMAIN more :
    a \notin DOMAIN all \/ more[a] # all[a] =>
      /\ more[a].beh \in Kinds
      /\ StateOK(more, row2, a, more[a].beh, more[a].mine)
      /\ \A k \in Keeps(more, a) : k < a \/ more[a].beh \in MapBehs

(* A step leaves the states of actors as they should be.                   *)
LEMMA StatesStep ==
  ASSUME NEW all, NEW waiting, NEW handled, NEW written, NEW ended, NEW open, NEW row, NEW more, NEW row2, NEW F,
         Acts(all, waiting, handled, written, ended, open, row, more, row2, F),
         NEW me, me = waiting[1].to,
         StatesDone(all, more, row2)
  PROVE  StatesOK(more, row2)
<1>1. Settled(all) /\ StatesOK(all, row) /\ Tagging(all) /\ Grown(all, me, more)
  BY Settles, StatesTag DEF Acts, Orderly
<1>2. DOMAIN row2 = DOMAIN more /\ DOMAIN row = DOMAIN all /\ \A a \in DOMAIN all : row2[a] = row[a]
  BY <1>1 DEF Acts, StatesOK
<1>3. ASSUME NEW a \in DOMAIN more
      PROVE  /\ StateOK(more, row2, a, more[a].beh, more[a].mine)
             /\ \A k \in Keeps(more, a) : k < a \/ more[a].beh \in MapBehs
  <2>1. CASE a \in DOMAIN all /\ more[a] = all[a]
    <3>1. StateOK(all, row, a, all[a].beh, all[a].mine)
      BY <1>1, <2>1 DEF StatesOK
    <3>2. StateOK(more, row2, a, all[a].beh, all[a].mine)
      BY <1>1, <1>2, <2>1, <3>1, StatesStay DEF Settled
    <3>3. Keeps(more, a) = Keeps(all, a)
      BY <1>1, <2>1, KeepsStay
    <3> QED
      BY <1>1, <2>1, <3>2, <3>3 DEF StatesOK
  <2>2. CASE a \notin DOMAIN all \/ more[a] # all[a]
    BY <2>2 DEF StatesDone
  <2> QED
    BY <2>1, <2>2
<1> QED
  BY <1>2, <1>3 DEF StatesOK

(* Two messages for an actor that turns into another do not wait at once.  *)
LEMMA OneTurn ==
  ASSUME NEW all, NEW waiting, NEW handled, NEW written, NEW ended, NEW open, NEW row, NEW more, NEW row2, NEW F,
         Acts(all, waiting, handled, written, ended, open, row, more, row2, F),
         NEW me, me = waiting[1].to,
         NEW i \in DOMAIN waiting, i # 1, waiting[i].to = me
  PROVE  all[me].beh \notin {"fork_beh"} \cup MapBehs \cup HeadBehs
<1> SUFFICES ASSUME all[me].beh \in {"fork_beh"} \cup MapBehs \cup HeadBehs
             PROVE  FALSE
  OBVIOUS
<1>1. all[me].beh \notin ObjectBehs \cup {"sink_beh"} \cup JoinBehs
  BY DEF ObjectBehs, Immutable, Mutable, JoinBehs, MapBehs, HeadBehs
<1>2. \A j \in {1, i} : row[me] \in Held(all, row, waiting[j])
  <2> TAKE j \in {1, i}
  <2>1. j \in DOMAIN waiting /\ waiting[j].to = me /\ me \in DOMAIN all
    BY DEF Acts
  <2>2. waiting[j].what.op = "tagged" <=> all[me].beh \in JoinBehs
    BY <2>1, Taking DEF Acts
  <2> QED
    BY <1>1, <2>1, <2>2, Taking DEF Acts
<1>3. Held(all, row, waiting[1]) \cap Held(all, row, waiting[i]) = {}
  BY DEF Acts, Orderly, Unshared
<1> QED
  BY <1>2, <1>3

(* A step leaves messages as they should be.                               *)
LEMMA MessagesStep ==
  ASSUME NEW all, NEW waiting, NEW handled, NEW written, NEW ended, NEW open, NEW row, NEW more, NEW row2, NEW F,
         Acts(all, waiting, handled, written, ended, open, row, more, row2, F),
         NEW me, me = waiting[1].to,
         NEW sent, IsSeq(sent), NEW p, p = Tail(waiting) \o sent,
         \A i \in DOMAIN sent : MessageOK(more, row2, sent[i])
  PROVE  \A i \in DOMAIN p : MessageOK(more, row2, p[i])
<1>1. Settled(all) /\ StatesOK(all, row) /\ Tagging(all) /\ Grown(all, me, more)
  BY Settles, StatesTag DEF Acts, Orderly
<1>2. \A a \in DOMAIN all : row2[a] = row[a]
  BY DEF Acts
<1>3. ASSUME NEW i \in DOMAIN waiting, i # 1
      PROVE  MessageOK(more, row2, waiting[i])
  <2>1. MessageOK(all, row, waiting[i])
    BY DEF Acts, Orderly
  <2>2. CASE waiting[i].to \in {NIL, NotActor} /\ RequestOK(all, waiting[i].to, waiting[i].what)
    BY <1>1, <2>2, RequestsStay DEF MessageOK, Settled
  <2>3. CASE waiting[i].to \in DOMAIN all /\ SentOK(all, row, waiting[i].to, waiting[i].what)
    <3>1. waiting[i].to = me => all[me].beh \notin {"fork_beh"} \cup MapBehs \cup HeadBehs
      BY <1>3, OneTurn
    <3>2. SentOK(more, row2, waiting[i].to, waiting[i].what)
      BY <1>1, <1>2, <2>3, <3>1, SentStays
    <3> QED
      BY <1>1, <2>3, <3>2 DEF MessageOK, Grown
  <2> QED
    BY <2>1, <2>2, <2>3 DEF MessageOK
<1>4. ASSUME NEW i \in DOMAIN p
      PROVE  MessageOK(more, row2, p[i])
  <2>1. \/ i + 1 \in DOMAIN waiting /\ i + 1 # 1 /\ p[i] = waiting[i + 1]
        \/ i - (Len(waiting) - 1) \in DOMAIN sent /\ p[i] = sent[i - (Len(waiting) - 1)]
    BY QueueOf
  <2> QED
    BY <1>3, <2>1
<1> QED
  BY <1>4

(* The messages that each actor has handled.                               *)
Counted(all, me, more, handled, handled2) ==
  /\ IsSeq(handled2) /\ Len(handled2) = Len(more)
  /\ \A a \in DOMAIN handled2 : handled2[a] \in Nat
  /\ \A a \in DOMAIN all : a # me => handled2[a] = handled[a]
  /\ handled2[me] <= handled[me] + 1
  /\ \A a \in DOMAIN more : a \notin DOMAIN all => handled2[a] = 0

(* A step adds actors at the end, which have handled nothing.              *)
LEMMA ShapeStep ==
  ASSUME NEW all, NEW waiting, NEW handled, NEW written, NEW ended, NEW open, NEW row, NEW more, NEW row2, NEW F,
         Acts(all, waiting, handled, written, ended, open, row, more, row2, F),
         NEW me, me = waiting[1].to,
         StatesDone(all, more, row2), NEW handled2, Counted(all, me, more, handled, handled2),
         NEW sent, IsSeq(sent), NEW p, p = Tail(waiting) \o sent
  PROVE  Shape(more, p, handled2)
<1>1. Grown(all, me, more) /\ Shape(all, waiting, handled)
  BY DEF Acts, Orderly
<1>2. /\ DOMAIN all = 1 .. Len(all) /\ Len(all) \in Nat
      /\ DOMAIN more = 1 .. Len(more) /\ Len(more) \in Nat
  BY <1>1, LengthIs DEF Grown
<1>3. Len(more) >= 6
  BY <1>1, <1>2 DEF Grown, Shape
<1>4. \A a \in 1 .. 6 : a \in DOMAIN all /\ Turned(all[a], more[a])
  <2>1. Len(all) >= 6
    BY <1>1 DEF Shape
  <2>2. \A a \in 1 .. 6 : a \in DOMAIN all
    BY <1>2, <2>1
  <2>3. \A a \in DOMAIN all : Turned(all[a], more[a])
    BY <1>1, AllTurned
  <2> QED
    BY <2>2, <2>3
<1>5. more[a_sink].beh = "sink_beh"
  BY <1>1, <1>4 DEF Shape, a_sink, Turned, Mutable, Turning, JoinBehs, MapBehs, HeadBehs
<1>6. \A a \in 2 .. 6 : more[a].beh \in {"unit_type", "null_type", "any_type", "bool_type"}
  <2> TAKE a \in 2 .. 6
  <2>1. all[a].beh \in {"unit_type", "null_type", "any_type", "bool_type"} /\ Turned(all[a], more[a])
    BY <1>1, <1>4 DEF Shape
  <2> QED
    BY <2>1 DEF Turned, Mutable, Turning, JoinBehs, MapBehs, HeadBehs
<1>7. \A a \in DOMAIN more : more[a].beh \in Kinds
  BY <1>1 DEF Shape, StatesDone
<1>8. IsSeq(p)
  BY QueueOf
<1> QED
  BY <1>1, <1>3, <1>5, <1>6, <1>7, <1>8 DEF Shape, Counted, Grown

(* An actor that turns into one that is answered once was answered never.  *)
OnceMore(all, me, more, row2, sent, hands) ==
  more[me].beh \in OneShot =>
    /\ all[me].beh \in OneShot
    /\ \A i \in DOMAIN sent : me \in Held(more, row2, sent[i]) => sent[i].what.op = "tagged"
    /\ \A a \in hands : me \notin Keeps(more, a)

LEMMA OneShots == OneShot \cap (ObjectBehs \cup {"sink_beh", "fork_beh", "map_next_beh"} \cup JoinBehs \cup MapBehs \cup HeadBehs) = {}
BY DEF OneShot, ObjectBehs, Immutable, Mutable, JoinBehs, MapBehs, HeadBehs

(* A step answers customers that have had no answer.                       *)
LEMMA UnansweredStep ==
  ASSUME NEW all, NEW waiting, NEW handled, NEW written, NEW ended, NEW open, NEW row, NEW more, NEW row2, NEW F,
         Acts(all, waiting, handled, written, ended, open, row, more, row2, F),
         NEW me, me = waiting[1].to,
         NEW handled2, Counted(all, me, more, handled, handled2),
         NEW sent, IsSeq(sent), NEW p, p = Tail(waiting) \o sent,
         NEW open2, open2 = Later(all, open, more, F), NEW rights, rights = Rights(all, row, waiting[1], more, F),
         Handed(more, row2, sent, Hands(all, me, open2), rights),
         OnceMore(all, me, more, row2, sent, Hands(all, me, open2))
  PROVE  Unanswered(more, p, handled2, open2, row2)
<1> DEFINE m == waiting[1]
           R == InHand(all, row, m)
           hands == Hands(all, me, open2)
<1>1. /\ Settled(all) /\ StatesOK(all, row) /\ Grown(all, me, more) /\ me \in DOMAIN all
      /\ 1 \in DOMAIN waiting /\ Finishes(m, F)
  BY Settles DEF Acts, Orderly
<1>2. Unanswered(all, waiting, handled, open, row)
  BY DEF Acts, Orderly
<1>3. /\ R \subseteq open
      /\ \A i \in DOMAIN waiting :
           i # 1 => /\ Held(more, row2, waiting[i]) = Held(all, row, waiting[i])
                    /\ Held(all, row, waiting[i]) \subseteq open \ (F \cup R)
      /\ \A a \in open2 :
           \/ a \in hands
           \/ /\ a \in open /\ a # me /\ more[a] = all[a]
              /\ Keeps(more, a) = Keeps(all, a)
              /\ Keeps(all, a) \subseteq open \ (F \cup R)
  BY HoldersOf
<1>4. open \subseteq DOMAIN all /\ \A a \in open : all[a].beh \in OpenBehs
  BY DEF Acts, Orderly, Told
<1>5. \A a \in open : a # me => more[a] = all[a]
  BY <1>1, OldHolders DEF Acts
<1>6. DOMAIN handled = DOMAIN all /\ DOMAIN handled2 = DOMAIN more
  <2>1. IsSeq(handled) /\ Len(handled) = Len(all) /\ IsSeq(all) /\ IsSeq(more)
    BY <1>1 DEF Acts, Orderly, Shape, Grown
  <2>2. IsSeq(handled2) /\ Len(handled2) = Len(more)
    BY DEF Counted
  <2>3. DOMAIN handled = 1 .. Len(handled) /\ DOMAIN all = 1 .. Len(all)
    BY <2>1, LengthIs
  <2>4. DOMAIN handled2 = 1 .. Len(handled2) /\ DOMAIN more = 1 .. Len(more)
    BY <2>1, <2>2, LengthIs
  <2> QED
    BY <2>1, <2>2, <2>3, <2>4
<1>7. all[me].beh \in OneShot => me \in Held(all, row, m) /\ handled[me] = 0 /\ m.what.op # "tagged"
  <2> SUFFICES ASSUME all[me].beh \in OneShot
               PROVE  me \in Held(all, row, m) /\ handled[me] = 0 /\ m.what.op # "tagged"
    OBVIOUS
  <2>1. all[me].beh \notin ObjectBehs \cup {"sink_beh", "map_next_beh"} \cup JoinBehs \cup HeadBehs
    BY OneShots
  <2>2. m.what.op # "tagged" /\ row[me] \in Held(all, row, m)
    <3>1. m.what.op = "tagged" <=> all[me].beh \in JoinBehs
      BY <1>1, Taking DEF Acts
    <3> QED
      BY <1>1, <2>1, <3>1, Taking DEF Acts
  <2>3. row[me] = me
    BY <1>1, <2>1 DEF StatesOK, StateOK, MapOK
  <2> QED
    BY <1>1, <1>2, <2>2, <2>3 DEF Unanswered, Fresh
<1>8. \A a \in DOMAIN more : more[a].beh \in OneShot => handled2[a] <= 1
  <2> SUFFICES ASSUME NEW a \in DOMAIN more, more[a].beh \in OneShot
               PROVE  handled2[a] <= 1
    OBVIOUS
  <2>1. CASE a \notin DOMAIN all
    BY <2>1 DEF Counted
  <2>2. CASE a = me
    <3>1. all[me].beh \in OneShot
      BY <2>2 DEF OnceMore
    <3>2. handled[me] = 0 /\ handled2[me] <= handled[me] + 1
      BY <1>7, <3>1 DEF Counted
    <3> QED
      BY <2>2, <3>2
  <2>3. CASE a \in DOMAIN all /\ a # me
    <3>1. more[a].beh = all[a].beh
      BY <1>1, <2>3 DEF Grown
    <3> QED
      BY <1>2, <2>3, <3>1 DEF Counted, Unanswered
  <2> QED
    BY <2>1, <2>2, <2>3
<1> DEFINE others == open \ (F \cup R)
<1>9. ASSUME NEW k \in others, Fresh(all, handled, k)
      PROVE  Fresh(more, handled2, k)
  <2>1. CASE k = me
    <3>1. more[me].beh \in OneShot => FALSE
      BY <1>7, <2>1 DEF OnceMore, InHand
    <3> QED
      BY <2>1, <3>1 DEF Fresh
  <2>2. CASE k # me
    <3>1. more[k] = all[k] /\ handled2[k] = handled[k]
      BY <1>4, <1>5, <2>2 DEF Counted
    <3> QED
      BY <1>9, <3>1 DEF Fresh
  <2> QED
    BY <2>1, <2>2
<1>10. ASSUME NEW k \in rights, k # me
       PROVE  Fresh(more, handled2, k)
  <2>1. CASE k \in Newly(all, more)
    BY <2>1 DEF Newly, Counted, Fresh
  <2>2. CASE k \in R \ F
    <3>1. Fresh(all, handled, k)
      <4>1. CASE k \in Held(all, row, m)
        <5>1. m.what.op # "tagged"
          <6>1. m.what.op = "tagged" => Held(all, row, m) = {m.what.tag}
            BY <1>1, Taking DEF Acts
          <6> QED
            BY <1>1, <2>2, <4>1, <6>1 DEF Finishes
        <5> QED
          BY <1>1, <1>2, <4>1, <5>1 DEF Unanswered
      <4>2. CASE k \in Keeps(all, me)
        <5>1. me \in open
          <6>1. me \in open \/ Keeps(all, me) = {}
            BY <1>1, Taking DEF Acts
          <6> QED
            BY <4>2, <6>1
        <5> QED
          BY <1>2, <4>2, <5>1 DEF Unanswered
      <4> QED
        BY <2>2, <4>1, <4>2 DEF InHand
    <3>2. more[k] = all[k] /\ handled2[k] = handled[k]
      BY <1>3, <1>4, <1>5, <1>10, <2>2 DEF Counted
    <3> QED
      BY <3>1, <3>2 DEF Fresh
  <2> QED
    BY <2>1, <2>2 DEF Rights
<1> HIDE DEF R, hands
<1>11. ASSUME NEW i \in DOMAIN p, p[i].what.op # "tagged", NEW k \in Held(more, row2, p[i])
       PROVE  Fresh(more, handled2, k)
  <2>1. \/ i + 1 \in DOMAIN waiting /\ i + 1 # 1 /\ p[i] = waiting[i + 1]
        \/ i - (Len(waiting) - 1) \in DOMAIN sent /\ p[i] = sent[i - (Len(waiting) - 1)]
    BY QueueOf
  <2>2. ASSUME NEW j \in DOMAIN waiting, j # 1, p[i] = waiting[j]
        PROVE  Fresh(more, handled2, k)
    <3>1. k \in Held(all, row, waiting[j]) /\ k \in others
      BY <1>3, <2>2
    <3>2. Fresh(all, handled, k)
      BY <1>2, <1>11, <2>2, <3>1 DEF Unanswered
    <3> HIDE DEF others
    <3> QED
      BY <1>9, <3>1, <3>2
  <2>3. ASSUME NEW j \in DOMAIN sent, p[i] = sent[j]
        PROVE  Fresh(more, handled2, k)
    <3>1. k \in rights
      BY <2>3 DEF Handed
    <3>2. k = me => more[me].beh \notin OneShot
      BY <1>11, <2>3 DEF OnceMore
    <3> QED
      BY <1>10, <3>1, <3>2 DEF Fresh
  <2> QED
    BY <2>1, <2>2, <2>3
<1>12. ASSUME NEW a \in open2, NEW k \in Keeps(more, a)
       PROVE  Fresh(more, handled2, k)
  <2>1. CASE a \in hands
    <3>1. k \in rights
      BY <2>1 DEF Handed, hands
    <3>2. k = me => more[me].beh \notin OneShot
      BY <2>1 DEF OnceMore, hands
    <3> QED
      BY <1>10, <3>1, <3>2 DEF Fresh
  <2>2. CASE a \in open /\ a # me /\ Keeps(more, a) = Keeps(all, a) /\ Keeps(all, a) \subseteq others
    <3>1. Fresh(all, handled, k) /\ k \in others
      BY <1>2, <2>2 DEF Unanswered
    <3> HIDE DEF others
    <3> QED
      BY <1>9, <3>1
  <2> QED
    BY <1>3, <2>1, <2>2
<1> QED
  BY <1>8, <1>11, <1>12 DEF Unanswered

(* Of what was in hand nothing is forgotten, unless something fails.       *)
PassedOn(more, row2, sent, hands, rights) ==
  \/ \E a \in DOMAIN more : more[a].beh = "throw_beh"
  \/ \A k \in rights :
       \/ \E i \in DOMAIN sent : k \in Held(more, row2, sent[i])
       \/ \E a \in hands : k \in Keeps(more, a)
       \/ more[k].beh \in JoinBehs

(* A step forgets no right that it does not use.                           *)
LEMMA RememberedStep ==
  ASSUME NEW all, NEW waiting, NEW handled, NEW written, NEW ended, NEW open, NEW row, NEW more, NEW row2, NEW F,
         Acts(all, waiting, handled, written, ended, open, row, more, row2, F),
         NEW me, me = waiting[1].to,
         NEW sent, IsSeq(sent), NEW p, p = Tail(waiting) \o sent,
         NEW open2, open2 = Later(all, open, more, F), NEW rights, rights = Rights(all, row, waiting[1], more, F),
         PassedOn(more, row2, sent, Hands(all, me, open2), rights)
  PROVE  Remembered(more, p, open2, row2)
<1> DEFINE m == waiting[1]
           R == InHand(all, row, m)
           hands == Hands(all, me, open2)
<1>1. Grown(all, me, more) /\ Finishes(m, F) /\ open \subseteq DOMAIN all
  BY DEF Acts, Orderly, Told
<1>2. \A a \in DOMAIN all : all[a].beh = "throw_beh" => a \in DOMAIN more /\ more[a].beh = "throw_beh"
  <2> TAKE a \in DOMAIN all
  <2>1. Turned(all[a], more[a]) /\ a \in DOMAIN more
    BY <1>1, AllTurned DEF Grown
  <2> QED
    BY <2>1 DEF Turned, Mutable, Turning, JoinBehs, MapBehs, HeadBehs
<1> SUFFICES ASSUME \A a \in DOMAIN more : more[a].beh # "throw_beh", NEW k \in open2
             PROVE  \/ \E i \in DOMAIN p : k \in Held(more, row2, p[i])
                    \/ \E a \in open2 : k \in Keeps(more, a)
                    \/ more[k].beh \in JoinBehs
  BY DEF Remembered
<1>3. \A a \in DOMAIN all : all[a].beh # "throw_beh"
  BY <1>2
<1>4. ASSUME k \in rights
      PROVE  \/ \E i \in DOMAIN p : k \in Held(more, row2, p[i])
             \/ \E a \in open2 : k \in Keeps(more, a)
             \/ more[k].beh \in JoinBehs
  <2>1. \/ \E i \in DOMAIN sent : k \in Held(more, row2, sent[i])
        \/ \E a \in hands : k \in Keeps(more, a)
        \/ more[k].beh \in JoinBehs
    BY <1>4 DEF PassedOn
  <2>2. \A i \in DOMAIN sent : Has(p, sent[i])
    BY QueueOf
  <2>3. hands \subseteq open2
    BY DEF Hands
  <2> HIDE DEF hands
  <2> QED
    BY <2>1, <2>2, <2>3 DEF Has
<1>5. CASE k \in open \ F
  <2>1. \/ \E i \in DOMAIN waiting : k \in Held(all, row, waiting[i])
        \/ \E a \in open : k \in Keeps(all, a)
        \/ all[k].beh \in JoinBehs
    BY <1>3, <1>5 DEF Acts, Orderly, Remembered
  <2>2. CASE k \in R
    BY <1>4, <1>5, <2>2 DEF Rights
  <2>3. ASSUME NEW i \in DOMAIN waiting, k \in Held(all, row, waiting[i]), i # 1
        PROVE  \E j \in DOMAIN p : k \in Held(more, row2, p[j])
    <3>1. Held(more, row2, waiting[i]) = Held(all, row, waiting[i])
      BY <2>3, HoldersOf
    <3>2. Has(p, waiting[i])
      BY <2>3, QueueOf
    <3> QED
      BY <2>3, <3>1, <3>2 DEF Has
  <2>4. ASSUME NEW a \in open, k \in Keeps(all, a), a # me
        PROVE  \E b \in open2 : k \in Keeps(more, b)
    <3>1. Keeps(more, a) = Keeps(all, a)
      BY <2>4, OldHolders DEF Acts
    <3>2. a \notin F
      <4> SUFFICES ASSUME a \in F
                   PROVE  FALSE
        OBVIOUS
      <4>1. a = m.what.tag /\ m.what.op = "tagged"
        BY <1>1, <2>4 DEF Finishes
      <4>2. TaggedOK(all, me, m.what)
        BY <4>1, Taking DEF Acts
      <4>3. all[a].beh = "tag_beh"
        BY <4>1, <4>2 DEF TaggedOK, IsIn
      <4>4. Keeps(all, a) = {}
        BY <4>3 DEF Keeps, Direct, Rest, WithCust, PairBehs, PlainArgsBehs, BrandBehs, JoinBehs
      <4> QED
        BY <2>4, <4>4
    <3>3. a \in open2
      BY <3>2 DEF Later
    <3> QED
      BY <2>4, <3>1, <3>3
  <2>5. CASE all[k].beh \in JoinBehs
    <3>1. Turned(all[k], more[k])
      BY <1>1, <1>5, AllTurned
    <3> QED
      BY <2>5, <3>1 DEF Turned
  <2>6. Held(all, row, m) \subseteq R /\ Keeps(all, me) \subseteq R
    BY DEF InHand
  <2> HIDE DEF R
  <2> QED
    BY <2>1, <2>2, <2>3, <2>4, <2>5, <2>6
<1>6. CASE k \in Newly(all, more)
  BY <1>4, <1>6 DEF Rights
<1> QED
  BY <1>5, <1>6 DEF Later

(* Reports stay due, and failures are reported.                            *)
ToldDone(all, me, more, sent, written, written2, F) ==
  /\ IsSeq(written2)
  /\ more[me].beh = "abort_beh" => me \in F
  /\ more[me].beh = "report_beh" => me \notin F
  /\ \A a \in DOMAIN more :
       a \notin DOMAIN all /\ more[a].beh = "throw_beh" =>
         \E i \in DOMAIN sent : sent[i].to \in DOMAIN more /\ more[sent[i].to].beh = "throw_beh"
  /\ all[me].beh = "throw_beh" \/ Has(written, "FAIL!") => Has(written2, "FAIL!")

(* A step ends a report when it makes it, and failures are reported.       *)
LEMMA ToldStep ==
  ASSUME NEW all, NEW waiting, NEW handled, NEW written, NEW ended, NEW open, NEW row, NEW more, NEW row2, NEW F,
         Acts(all, waiting, handled, written, ended, open, row, more, row2, F),
         NEW me, me = waiting[1].to,
         NEW sent, IsSeq(sent), NEW p, p = Tail(waiting) \o sent, NEW written2,
         NEW open2, open2 = Later(all, open, more, F),
         ToldDone(all, me, more, sent, written, written2, F)
  PROVE  Told(more, p, written2, open2)
<1>1. /\ Grown(all, me, more) /\ me \in DOMAIN all /\ DOMAIN all \subseteq DOMAIN more
      /\ Finishes(waiting[1], F) /\ 1 \in DOMAIN waiting
      /\ Told(all, waiting, written, open)
  BY DEF Acts, Orderly, Grown
<1>2. \A a \in DOMAIN all : Turned(all[a], more[a])
  BY <1>1, AllTurned
<1>3. \A a \in DOMAIN all : a # me => more[a].beh = all[a].beh
  BY <1>1 DEF Grown
<1>4. \A i \in DOMAIN waiting : i # 1 => Has(p, waiting[i])
  BY QueueOf
<1>5. \A i \in DOMAIN sent : Has(p, sent[i])
  BY QueueOf
<1>6. open2 \subseteq {a \in DOMAIN more : more[a].beh \in OpenBehs}
  <2> SUFFICES ASSUME NEW a \in open2
               PROVE  a \in DOMAIN more /\ more[a].beh \in OpenBehs
    OBVIOUS
  <2>1. CASE a \in Newly(all, more)
    BY <2>1 DEF Newly
  <2>2. CASE a \in open \ F
    <3>1. a \in DOMAIN all /\ all[a].beh \in OpenBehs /\ a \in DOMAIN more
      BY <1>1, <2>2 DEF Told
    <3>2. CASE a # me
      BY <1>3, <3>1, <3>2
    <3>3. CASE a = me
      <4>1. Turned(all[a], more[a])
        BY <1>2, <3>1
      <4>2. more[a].beh # "abort_beh"
        BY <2>2, <3>3 DEF ToldDone
      <4>3. all[a].beh \notin Turning \cup Mutable => more[a].beh = all[a].beh
        BY <4>1 DEF Turned
      <4>4. all[a].beh \notin Mutable
        BY <3>1 DEF Mutable, OpenBehs, ValueBehs, ArgsBehs, PlainArgsBehs, BrandBehs, PairBehs, BothBehs, JoinBehs, MapBehs
      <4>5. all[a].beh \notin HeadBehs
        BY <3>1 DEF HeadBehs, OpenBehs, ValueBehs, ArgsBehs, PlainArgsBehs, BrandBehs, PairBehs, BothBehs, JoinBehs, MapBehs
      <4>6. all[a].beh \in Turning => more[a].beh \in OpenBehs
        BY <4>1, <4>2, <4>5 DEF Turned, Turning, OpenBehs, PairBehs, ValueBehs
      <4> QED
        BY <3>1, <4>3, <4>4, <4>6
    <3> QED
      BY <3>1, <3>2, <3>3
  <2> QED
    BY <2>1, <2>2 DEF Later
<1>7. ASSUME NEW a \in DOMAIN more, more[a].beh = "report_beh"
      PROVE  a \in open2
  <2>1. CASE a \notin DOMAIN all
    BY <1>7, <2>1 DEF Later, Newly, OpenBehs, ValueBehs
  <2>2. CASE a \in DOMAIN all
    <3>1. all[a].beh = "report_beh"
      BY <1>2, <1>7, <2>2 DEF Turned, Mutable, Turning, JoinBehs, MapBehs, HeadBehs
    <3>2. a \in open
      BY <1>1, <2>2, <3>1 DEF Told
    <3>3. a \notin F
      <4> SUFFICES ASSUME a \in F, a # me
                   PROVE  FALSE
        BY <1>7 DEF ToldDone
      <4>1. waiting[1].what.op = "tagged" /\ a = waiting[1].what.tag
        BY <1>1 DEF Finishes
      <4>2. TaggedOK(all, waiting[1].to, waiting[1].what)
        BY <1>1, <4>1, Taking DEF Acts
      <4> QED
        BY <3>1, <4>1, <4>2 DEF TaggedOK, IsIn
    <3> QED
      BY <3>2, <3>3 DEF Later
  <2> QED
    BY <2>1, <2>2
<1>8. ASSUME NEW a \in DOMAIN more, more[a].beh = "throw_beh"
      PROVE  \/ \E i \in DOMAIN written2 : written2[i] = "FAIL!"
             \/ \E i \in DOMAIN p : p[i].to \in DOMAIN more /\ more[p[i].to].beh = "throw_beh"
  <2>1. CASE a \notin DOMAIN all
    <3>1. PICK i \in DOMAIN sent : sent[i].to \in DOMAIN more /\ more[sent[i].to].beh = "throw_beh"
      BY <1>8, <2>1 DEF ToldDone
    <3>2. Has(p, sent[i])
      BY <1>5
    <3> QED
      BY <3>1, <3>2 DEF Has
  <2>2. CASE a \in DOMAIN all
    <3>1. all[a].beh = "throw_beh"
      BY <1>2, <1>8, <2>2 DEF Turned, Mutable, Turning, JoinBehs, MapBehs, HeadBehs
    <3>2. CASE \E i \in DOMAIN written : written[i] = "FAIL!"
      BY <3>2 DEF ToldDone, Has
    <3>3. CASE \E i \in DOMAIN waiting : waiting[i].to \in DOMAIN all /\ all[waiting[i].to].beh = "throw_beh"
      <4>1. PICK i \in DOMAIN waiting : waiting[i].to \in DOMAIN all /\ all[waiting[i].to].beh = "throw_beh"
        BY <3>3
      <4>2. CASE i = 1
        BY <4>1, <4>2 DEF ToldDone, Has
      <4>3. CASE i # 1
        <5>1. Has(p, waiting[i])
          BY <1>4, <4>3
        <5>2. Turned(all[waiting[i].to], more[waiting[i].to])
          BY <1>2, <4>1
        <5>3. waiting[i].to \in DOMAIN more /\ more[waiting[i].to].beh = "throw_beh"
          BY <1>1, <4>1, <5>2 DEF Turned, Mutable, Turning, JoinBehs, MapBehs, HeadBehs
        <5> QED
          BY <5>1, <5>3 DEF Has
      <4> QED
        BY <4>2, <4>3
    <3> QED
      BY <1>1, <2>2, <3>1, <3>2, <3>3 DEF Told
  <2> QED
    BY <2>1, <2>2
<1>9. IsSeq(written2)
  BY DEF ToldDone
<1> QED
  BY <1>6, <1>7, <1>8, <1>9 DEF Told

(* Joins and their tags.                                                   *)
JoinsDone(all, me, more, hands, open2) ==
  /\ \A t \in open2 :
       more[t].beh = "tag_beh" /\ (t \notin DOMAIN all \/ more[t].mine = me) =>
         more[t].mine \in open2 /\ Awaits(more[more[t].mine], t)
  /\ \A j \in hands : \A t \in DOMAIN more : Awaits(more[j], t) => t \in open2

(* A step leaves joins that wait for the tags that are open.               *)
LEMMA JoinedStep ==
  ASSUME NEW all, NEW waiting, NEW handled, NEW written, NEW ended, NEW open, NEW row, NEW more, NEW row2, NEW F,
         Acts(all, waiting, handled, written, ended, open, row, more, row2, F),
         NEW me, me = waiting[1].to,
         NEW open2, open2 = Later(all, open, more, F),
         JoinsDone(all, me, more, Hands(all, me, open2), open2)
  PROVE  Joined(more, open2)
<1>1. /\ Grown(all, me, more) /\ me \in DOMAIN all /\ DOMAIN all \subseteq DOMAIN more
      /\ Finishes(waiting[1], F) /\ 1 \in DOMAIN waiting
      /\ Joined(all, open) /\ StatesOK(all, row)
      /\ open \subseteq DOMAIN all
      /\ all[me].beh = "tag_beh" => F = {}
  BY DEF Acts, Orderly, Grown, Told
<1>2. \A a \in DOMAIN all : Turned(all[a], more[a])
  BY <1>1, AllTurned
<1>3. \A a \in DOMAIN all : all[a].beh = "tag_beh" \/ more[a].beh = "tag_beh" => more[a] = all[a]
  BY <1>2 DEF Turned, Mutable, Turning, JoinBehs, MapBehs, HeadBehs
<1>4. \A a \in F \cap DOMAIN all : a # me => all[a].beh = "tag_beh" /\ all[a].mine = me
  <2> SUFFICES ASSUME NEW a \in F \cap DOMAIN all, a # me
               PROVE  all[a].beh = "tag_beh" /\ all[a].mine = me
    OBVIOUS
  <2>1. waiting[1].what.op = "tagged" /\ a = waiting[1].what.tag
    BY <1>1 DEF Finishes
  <2>2. TaggedOK(all, waiting[1].to, waiting[1].what)
    BY <1>1, <2>1, Taking DEF Acts
  <2> QED
    BY <2>1, <2>2 DEF TaggedOK, IsIn
<1>5. ASSUME NEW t \in open2, more[t].beh = "tag_beh"
      PROVE  more[t].mine \in open2 /\ Awaits(more[more[t].mine], t)
  <2>1. CASE t \notin DOMAIN all \/ more[t].mine = me
    BY <1>5, <2>1 DEF JoinsDone
  <2>2. CASE t \in DOMAIN all /\ more[t].mine # me
    <3>1. t \in open /\ all[t] = more[t]
      BY <1>3, <1>5, <2>2 DEF Later, Newly
    <3>2. all[t].mine \in open /\ Awaits(all[all[t].mine], t)
      BY <1>1, <1>5, <3>1 DEF Joined
    <3>3. all[all[t].mine].beh \in JoinBehs
      BY <3>2 DEF Awaits, JoinBehs
    <3>4. all[t].mine \notin F
      BY <1>1, <1>4, <2>2, <3>1, <3>2, <3>3 DEF JoinBehs
    <3>5. more[all[t].mine] = all[all[t].mine]
      BY <1>1, <2>2, <3>1, <3>2, <3>3 DEF Grown, Mutable, JoinBehs
    <3> QED
      BY <3>1, <3>2, <3>4, <3>5 DEF Later
  <2> QED
    BY <2>1, <2>2
<1>6. ASSUME NEW j \in open2, NEW t \in DOMAIN more, Awaits(more[j], t)
      PROVE  t \in open2
  <2>1. CASE j \in Hands(all, me, open2)
    BY <1>6, <2>1 DEF JoinsDone
  <2>2. CASE j \in open /\ j # me
    <3>1. more[j].beh = all[j].beh /\ all[j].beh \in JoinBehs /\ j \in DOMAIN all
      BY <1>1, <1>6, <2>2 DEF Grown, Awaits, JoinBehs
    <3>2. more[j] = all[j]
      BY <1>1, <2>2, <3>1 DEF Grown, Mutable, JoinBehs
    <3>3. ForkJoinOK(all, j, all[j].beh, all[j].mine)
      BY <1>1, <3>1 DEF StatesOK, StateOK
    <3>4. t \in DOMAIN all /\ all[t].beh = "tag_beh" /\ all[t].mine = j
      BY <1>6, <3>2, <3>3 DEF ForkJoinOK, Awaits, IsIn
    <3>5. t \in open
      BY <1>1, <1>6, <2>2, <3>2, <3>4 DEF Joined
    <3>6. t \notin F
      BY <1>1, <1>4, <2>2, <3>4
    <3> QED
      BY <3>5, <3>6 DEF Later
  <2> QED
    BY <1>1, <2>1, <2>2 DEF Later, Newly, Hands
<1> QED
  BY <1>5, <1>6 DEF Joined

(* Whose turn it is in a (map ...).                                        *)
RowsDone(all, more, row2, sent, hands) ==
  /\ \A i \in DOMAIN sent : \A k \in Held(more, row2, sent[i]) :
       more[k].beh \in MapBehs => RowOK(more, row2, sent[i], k)
  /\ \A a \in hands : \A k \in Keeps(more, a) :
       more[k].beh \in MapBehs => more[k].beh = "map_tail_beh" /\ Busy(more, row2, k) = {}
  /\ \A x \in DOMAIN more : x \notin DOMAIN all => more[x].beh # "map_pair_beh"

LEMMA OtherRows ==
  ASSUME NEW all, NEW waiting, NEW handled, NEW written, NEW ended, NEW open, NEW row, NEW more, NEW row2, NEW F,
         Acts(all, waiting, handled, written, ended, open, row, more, row2, F),
         NEW me, me = waiting[1].to,
         \A x \in DOMAIN more : x \notin DOMAIN all => more[x].beh # "map_pair_beh",
         NEW k \in open, k \notin InHand(all, row, waiting[1]), more[k].beh \in MapBehs
  PROVE  /\ k # me /\ k \in DOMAIN all /\ more[k].beh = all[k].beh
         /\ all[me].beh \in HeadBehs \cup {"map_next_beh"} => k # row[me]
         /\ Busy(more, row2, k) \subseteq Busy(all, row, k) \ {me}
<1>1. /\ Grown(all, me, more) /\ me \in DOMAIN all /\ 1 \in DOMAIN waiting
      /\ open \subseteq DOMAIN all /\ \A a \in DOMAIN all : row2[a] = row[a]
  BY DEF Acts, Orderly, Grown, Told
<1>2. \A a \in DOMAIN all : Turned(all[a], more[a])
  BY <1>1, AllTurned
<1>3. all[k].beh \in MapBehs
  BY <1>1, <1>2 DEF Turned, Mutable, Turning, JoinBehs, MapBehs, HeadBehs
<1>4. k # me
  <2> SUFFICES ASSUME k = me
               PROVE  FALSE
    OBVIOUS
  <2>1. all[me].beh \notin JoinBehs
    BY <1>3 DEF MapBehs, JoinBehs
  <2>2. me \in Held(all, row, waiting[1])
    BY <1>1, <2>1, Taking DEF Acts
  <2> QED
    BY <2>2 DEF InHand
<1>5. more[k].beh = all[k].beh
  BY <1>1, <1>4 DEF Grown
<1>6. all[me].beh \in HeadBehs \cup {"map_next_beh"} => k # row[me]
  <2> SUFFICES ASSUME all[me].beh \in HeadBehs \cup {"map_next_beh"}
               PROVE  k # row[me]
    OBVIOUS
  <2>1. all[me].beh \notin JoinBehs \cup ObjectBehs \cup {"sink_beh"}
    BY DEF HeadBehs, JoinBehs, ObjectBehs, Immutable, Mutable
  <2>2. waiting[1].what.op # "tagged"
    BY <1>1, <2>1, Taking DEF Acts
  <2>3. row[me] \in Held(all, row, waiting[1])
    BY <1>1, <2>1, <2>2, Taking DEF Acts
  <2> QED
    BY <2>3 DEF InHand
<1>7. ASSUME NEW x \in Busy(more, row2, k)
      PROVE  x \in Busy(all, row, k) \ {me}
  <2>1. x \in DOMAIN all /\ more[x].beh = "map_pair_beh" /\ row2[x] = k
    BY DEF Busy
  <2>2. all[x].beh \in HeadBehs
    BY <1>2, <2>1 DEF Turned, Mutable, Turning, JoinBehs, MapBehs, HeadBehs
  <2>3. x # me
    BY <1>1, <1>6, <2>1, <2>2
  <2>4. all[x].beh = more[x].beh
    BY <1>1, <2>1, <2>3 DEF Grown
  <2> QED
    BY <1>1, <2>1, <2>3, <2>4 DEF Busy
<1> QED
  BY <1>1, <1>4, <1>5, <1>6, <1>7

(* A step leaves the actors of (map ...) in the states that their message  *)
(* says.                                                                   *)
LEMMA RowsStep ==
  ASSUME NEW all, NEW waiting, NEW handled, NEW written, NEW ended, NEW open, NEW row, NEW more, NEW row2, NEW F,
         Acts(all, waiting, handled, written, ended, open, row, more, row2, F),
         NEW me, me = waiting[1].to,
         NEW sent, IsSeq(sent), NEW p, p = Tail(waiting) \o sent,
         NEW open2, open2 = Later(all, open, more, F),
         RowsDone(all, more, row2, sent, Hands(all, me, open2))
  PROVE  Rows(more, p, open2, row2)
<1> DEFINE R == InHand(all, row, waiting[1])
<1>1. /\ Grown(all, me, more) /\ me \in DOMAIN all /\ 1 \in DOMAIN waiting
      /\ Settled(all) /\ StatesOK(all, row) /\ Rows(all, waiting, open, row)
      /\ \A a \in DOMAIN all : row2[a] = row[a]
      /\ open \subseteq DOMAIN all
  BY Settles DEF Acts, Orderly, Grown, Told
<1>2. /\ \A i \in DOMAIN waiting :
           i # 1 => /\ Held(more, row2, waiting[i]) = Held(all, row, waiting[i])
                    /\ Held(all, row, waiting[i]) \subseteq open \ (F \cup R)
      /\ \A a \in open2 :
           \/ a \in Hands(all, me, open2)
           \/ /\ a \in open /\ a # me /\ more[a] = all[a]
              /\ Keeps(more, a) = Keeps(all, a)
              /\ Keeps(all, a) \subseteq open \ (F \cup R)
  BY HoldersOf
<1>3. ASSUME NEW k \in open, k \notin R, more[k].beh \in MapBehs
      PROVE  /\ k # me /\ k \in DOMAIN all /\ more[k].beh = all[k].beh
             /\ all[me].beh \in HeadBehs \cup {"map_next_beh"} => k # row[me]
             /\ Busy(more, row2, k) \subseteq Busy(all, row, k) \ {me}
  BY <1>3, OtherRows DEF RowsDone
<1> HIDE DEF R
<1>4. ASSUME NEW i \in DOMAIN waiting, i # 1, NEW k \in Held(more, row2, waiting[i]), more[k].beh \in MapBehs
      PROVE  RowOK(more, row2, waiting[i], k)
  <2>1. PICK w : w = waiting[i]
    OBVIOUS
  <2>2. k \in Held(all, row, w) /\ k \in open /\ k \notin R
    BY <1>2, <1>4, <2>1
  <2>3. /\ k # me /\ k \in DOMAIN all /\ more[k].beh = all[k].beh
        /\ all[me].beh \in HeadBehs \cup {"map_next_beh"} => k # row[me]
        /\ Busy(more, row2, k) \subseteq Busy(all, row, k) \ {me}
    BY <1>3, <1>4, <2>2
  <2>4. RowOK(all, row, w, k)
    BY <1>1, <1>4, <2>1, <2>2, <2>3 DEF Rows
  <2>5. MessageOK(all, row, w)
    BY <1>4, <2>1 DEF Acts, Orderly
  <2>6. w.what.op = "as_pair" => more[w.what.cust].beh = "map_pair_beh"
    <3> SUFFICES ASSUME w.what.op = "as_pair"
                 PROVE  more[w.what.cust].beh = "map_pair_beh"
      OBVIOUS
    <3>1. all[w.what.cust].beh = "map_pair_beh"
      BY <2>4 DEF RowOK
    <3>2. w.what.op \in Requests
      BY DEF Requests
    <3>3. w.what.cust \in DOMAIN all
      BY <1>1, <2>5, <3>2, ServedAre
    <3>4. IsIn(all, ObjectBehs, w.to) \/ w.to \in {NIL, NotActor}
      BY <1>1, <2>5, <3>2, ServedExist
    <3>5. Answers(all, row, w) = {}
      <4>1. NIL \notin DOMAIN all /\ NotActor \notin DOMAIN all
        BY <1>1, LengthIs DEF Grown, NIL, NotActor
      <4> QED
        BY <3>4, <4>1 DEF Answers, IsIn
    <3>6. k = row[w.what.cust]
      BY <2>2, <3>5 DEF Held, Serves
    <3>7. w.what.cust # me
      BY <2>3, <3>1, <3>6 DEF HeadBehs
    <3> QED
      BY <1>1, <3>1, <3>3, <3>7 DEF Grown
  <2>7. w.to \in DOMAIN all /\ all[w.to].beh \in {"map_comb_beh", "map_next_beh"} => more[w.to].beh = all[w.to].beh
    <3> SUFFICES ASSUME w.to \in DOMAIN all, all[w.to].beh \in {"map_comb_beh", "map_next_beh"}
                 PROVE  more[w.to].beh = all[w.to].beh
      OBVIOUS
    <3>1. CASE w.to # me
      BY <1>1, <3>1 DEF Grown
    <3>2. CASE w.to = me
      <4>1. all[me].beh # "map_comb_beh"
        BY <1>4, <2>1, <3>2, OneTurn DEF MapBehs
      <4>2. Turned(all[me], more[me])
        BY <1>1 DEF Grown
      <4> QED
        BY <3>2, <4>1, <4>2 DEF Turned, Mutable, Turning, JoinBehs, MapBehs, HeadBehs
    <3> QED
      BY <3>1, <3>2
  <2>8. w.to \notin DOMAIN all => w.what.op # "value"
    BY <2>5 DEF MessageOK, RequestOK, Requests
  <2>9. ASSUME NEW x \in Busy(more, row2, k)
        PROVE  \/ x = w.to
               \/ w.what.op = "as_pair" /\ x = w.what.cust
               \/ w.what.op = "value" /\ w.what.val = a_nil /\ more[w.to].beh \in {"map_comb_beh", "map_next_beh"}
    BY <2>3, <2>4, <2>7, <2>8, <2>9 DEF RowOK
  <2> QED
    BY <2>1, <2>3, <2>4, <2>6, <2>9 DEF RowOK
<1>5. ASSUME NEW i \in DOMAIN p, NEW k \in Held(more, row2, p[i]), more[k].beh \in MapBehs
      PROVE  RowOK(more, row2, p[i], k)
  <2>1. \/ i + 1 \in DOMAIN waiting /\ i + 1 # 1 /\ p[i] = waiting[i + 1]
        \/ i - (Len(waiting) - 1) \in DOMAIN sent /\ p[i] = sent[i - (Len(waiting) - 1)]
    BY QueueOf
  <2> QED
    BY <1>4, <1>5, <2>1 DEF RowsDone
<1>6. ASSUME NEW a \in open2, NEW k \in Keeps(more, a), more[k].beh \in MapBehs
      PROVE  more[k].beh = "map_tail_beh" /\ Busy(more, row2, k) = {}
  <2>1. CASE a \in Hands(all, me, open2)
    BY <1>6, <2>1 DEF RowsDone
  <2>2. CASE a \in open /\ Keeps(more, a) = Keeps(all, a) /\ Keeps(all, a) \subseteq open \ (F \cup R)
    <3>1. k \in Keeps(all, a) /\ k \in open /\ k \notin R
      BY <2>2
    <3>2. more[k].beh = all[k].beh /\ Busy(more, row2, k) \subseteq Busy(all, row, k)
      BY <1>3, <1>6, <3>1
    <3>3. all[k].beh = "map_tail_beh" /\ Busy(all, row, k) = {}
      BY <1>1, <1>6, <2>2, <3>1, <3>2 DEF Rows
    <3> QED
      BY <3>2, <3>3
  <2> QED
    BY <1>2, <2>1, <2>2
<1> QED
  BY <1>5, <1>6 DEF Rows

(* A step sends to actors, or the process ends.                            *)
LEMMA AddressesStep ==
  ASSUME NEW all, NEW waiting, NEW handled, NEW written, NEW ended, NEW open, NEW row, NEW more, NEW row2, NEW F,
         Acts(all, waiting, handled, written, ended, open, row, more, row2, F),
         NEW sent, IsSeq(sent), NEW p, p = Tail(waiting) \o sent,
         \A i \in DOMAIN sent : sent[i].to \in DOMAIN more,
         \A i \in DOMAIN waiting : waiting[i].to \in DOMAIN all
  PROVE  \A i \in DOMAIN p : p[i].to \in DOMAIN more
<1>1. ASSUME NEW i \in DOMAIN p
      PROVE  p[i].to \in DOMAIN more
  <2>1. \/ i + 1 \in DOMAIN waiting /\ i + 1 # 1 /\ p[i] = waiting[i + 1]
        \/ i - (Len(waiting) - 1) \in DOMAIN sent /\ p[i] = sent[i - (Len(waiting) - 1)]
    BY QueueOf
  <2>2. DOMAIN all \subseteq DOMAIN more
    BY DEF Acts, Grown
  <2> QED
    BY <2>1, <2>2
<1> QED
  BY <1>1

(* A step of a behaviour, or of anything that acts like one.               *)
Completes(all, waiting, handled, written, ended, open, row, more, row2, F, me, sent, p, handled2, written2, ended2,
          open2, rights, hands) ==
  /\ Acts(all, waiting, handled, written, ended, open, row, more, row2, F)
  /\ me = waiting[1].to
  /\ IsSeq(sent) /\ p = Tail(waiting) \o sent
  /\ Counted(all, me, more, handled, handled2)
  /\ ~ended2 => ~ended /\ \A i \in DOMAIN sent : sent[i].to \in DOMAIN more
  /\ open2 = Later(all, open, more, F)
  /\ rights = Rights(all, row, waiting[1], more, F)
  /\ hands = Hands(all, me, open2)
  /\ StatesDone(all, more, row2)
  /\ \A i \in DOMAIN sent : MessageOK(more, row2, sent[i])
  /\ Handed(more, row2, sent, hands, rights)
  /\ OnceMore(all, me, more, row2, sent, hands)
  /\ PassedOn(more, row2, sent, hands, rights)
  /\ ToldDone(all, me, more, sent, written, written2, F)
  /\ JoinsDone(all, me, more, hands, open2)
  /\ RowsDone(all, more, row2, sent, hands)

(* A step that does all of this leaves an orderly state.                   *)
LEMMA Step ==
  ASSUME NEW all, NEW waiting, NEW handled, NEW written, NEW ended, NEW open, NEW row, NEW more, NEW row2, NEW F,
         NEW me, NEW sent, NEW p, NEW handled2, NEW written2, NEW ended2, NEW open2, NEW rights, NEW hands,
         Completes(all, waiting, handled, written, ended, open, row, more, row2, F, me, sent, p, handled2, written2,
                   ended2, open2, rights, hands)
  PROVE  Orderly(more, p, handled2, written2, ended2, open2, row2)
<1>0. /\ Acts(all, waiting, handled, written, ended, open, row, more, row2, F)
      /\ me = waiting[1].to
      /\ IsSeq(sent) /\ p = Tail(waiting) \o sent
      /\ Counted(all, me, more, handled, handled2)
      /\ open2 = Later(all, open, more, F)
      /\ rights = Rights(all, row, waiting[1], more, F)
      /\ hands = Hands(all, me, open2)
      /\ StatesDone(all, more, row2)
      /\ \A i \in DOMAIN sent : MessageOK(more, row2, sent[i])
      /\ Handed(more, row2, sent, hands, rights)
      /\ OnceMore(all, me, more, row2, sent, hands)
      /\ PassedOn(more, row2, sent, hands, rights)
      /\ ToldDone(all, me, more, sent, written, written2, F)
      /\ JoinsDone(all, me, more, hands, open2)
      /\ RowsDone(all, more, row2, sent, hands)
  BY DEF Completes
<1>1. Shape(more, p, handled2)
  BY <1>0, ShapeStep
<1>2. StatesOK(more, row2)
  BY <1>0, StatesStep
<1>3. \A i \in DOMAIN p : MessageOK(more, row2, p[i])
  BY <1>0, MessagesStep
<1>4. ~ended2 => \A i \in DOMAIN p : p[i].to \in DOMAIN more
  <2> SUFFICES ASSUME ~ended2
               PROVE  \A i \in DOMAIN p : p[i].to \in DOMAIN more
    OBVIOUS
  <2>1. \A i \in DOMAIN waiting : waiting[i].to \in DOMAIN all
    BY <1>0 DEF Acts, Orderly, Completes
  <2>2. \A i \in DOMAIN sent : sent[i].to \in DOMAIN more
    BY DEF Completes
  <2> QED
    BY <1>0, <2>1, <2>2, AddressesStep
<1>5. Told(more, p, written2, open2)
  BY <1>0, ToldStep
<1>6. Unshared(more, p, open2, row2)
  BY <1>0, UnsharedStep
<1>7. Unanswered(more, p, handled2, open2, row2)
  BY <1>0, UnansweredStep
<1>8. Remembered(more, p, open2, row2)
  BY <1>0, RememberedStep
<1>9. Joined(more, open2)
  BY <1>0, JoinedStep
<1>10. Rows(more, p, open2, row2)
  BY <1>0, RowsStep
<1> QED
  BY <1>1, <1>2, <1>3, <1>4, <1>5, <1>6, <1>7, <1>8, <1>9, <1>10 DEF Orderly

-----------------------------------------------------------------------------
(* What behaviours do with the rights to answer.                           *)

(* A step leaves everything in order.                                      *)
Onward == \E open, row : Orderly(actors', queue', turns', out', aborted', open, row)

(* A message is handled.                                                   *)
Runs(open, row) == Invariant(open, row) /\ ~aborted /\ queue # << >>

LEMMA Running ==
  ASSUME NEW open, NEW row, Runs(open, row)
  PROVE  /\ Orderly(actors, queue, turns, out, aborted, open, row)
         /\ 1 \in DOMAIN queue /\ Head(queue) = queue[1]
         /\ SELF = queue[1].to /\ WHAT = queue[1].what /\ SELF \in DOMAIN actors
         /\ IsSeq(actors) /\ IsSeq(queue) /\ IsSeq(turns) /\ Len(turns) = Len(actors) /\ IsSeq(out)
         /\ Settled(actors) /\ StatesOK(actors, row) /\ Tagging(actors)
         /\ open \subseteq DOMAIN actors
<1>1. Orderly(actors, queue, turns, out, aborted, open, row) /\ ~aborted /\ queue # << >>
  BY DEF Runs, Invariant
<1>2. /\ IsSeq(actors) /\ IsSeq(queue) /\ IsSeq(turns) /\ Len(turns) = Len(actors) /\ IsSeq(out)
      /\ StatesOK(actors, row) /\ open \subseteq DOMAIN actors
  BY <1>1 DEF Orderly, Shape, Told
<1>3. 1 \in DOMAIN queue /\ Head(queue) = queue[1]
  BY <1>1, <1>2, SeqsAre, QueueAt
<1>4. SELF \in DOMAIN actors
  BY <1>1, <1>3 DEF Orderly, SELF
<1>5. Settled(actors) /\ Tagging(actors)
  BY <1>1, <1>2, Settles, StatesTag DEF Orderly
<1> QED
  BY <1>1, <1>2, <1>3, <1>4, <1>5 DEF SELF, WHAT

LEMMA Handling ==
  ASSUME NEW open, NEW row, Runs(open, row), NEW more, NEW sent, NEW tokens, Handle(more, sent, tokens),
         IsSeq(more), IsSeq(tokens), DOMAIN actors \subseteq DOMAIN more
  PROVE  /\ actors' = more /\ queue' = Tail(queue) \o sent
         /\ Counted(actors, SELF, more, turns, turns')
         /\ ~aborted' => ~aborted /\ \A i \in DOMAIN sent : sent[i].to \in DOMAIN more
         /\ IsSeq(out') /\ (Has(out, "FAIL!") \/ Has(tokens, "FAIL!") => Has(out', "FAIL!"))
<1>1. /\ IsSeq(actors) /\ IsSeq(turns) /\ Len(turns) = Len(actors) /\ SELF \in DOMAIN actors /\ ~aborted /\ IsSeq(out)
      /\ Orderly(actors, queue, turns, out, aborted, open, row)
  BY Running DEF Runs
<1>2. /\ DOMAIN more = 1 .. Len(more) /\ Len(more) \in Nat
      /\ DOMAIN actors = 1 .. Len(actors) /\ Len(actors) \in Nat
      /\ DOMAIN turns = 1 .. Len(turns)
  BY <1>1, LengthIs
<1>3. \A a \in DOMAIN turns : turns[a] \in Nat
  BY <1>1 DEF Orderly, Shape
<1>4. actors' = more /\ queue' = Tail(queue) \o sent /\ out' = out \o tokens
  BY DEF Handle
<1>5. ~aborted' => ~aborted /\ \A i \in DOMAIN sent : sent[i].to \in DOMAIN more
  BY <1>1, <1>2 DEF Handle, Deliverable
<1>6. Counted(actors, SELF, more, turns, turns')
  <2>1. turns' = [a \in 1 .. Len(more) |->
                    IF a > Len(turns) THEN 0 ELSE IF a = SELF THEN turns[a] + 1 ELSE turns[a]]
    BY <1>2 DEF Handle
  <2>2. turns' \in Seq(Nat) /\ Len(turns') = Len(more)
    <3>1. \A a \in 1 .. Len(more) :
            (IF a > Len(turns) THEN 0 ELSE IF a = SELF THEN turns[a] + 1 ELSE turns[a]) \in Nat
      BY <1>1, <1>2, <1>3
    <3>2. turns' \in [1 .. Len(more) -> Nat]
      BY <2>1, <3>1
    <3> QED
      BY <1>2, <3>2
  <2>3. \A a \in DOMAIN more : turns'[a] = IF a > Len(turns) THEN 0 ELSE IF a = SELF THEN turns[a] + 1 ELSE turns[a]
    BY <1>2, <2>1
  <2>4. IsSeq(turns') /\ \A a \in DOMAIN turns' : turns'[a] \in Nat
    BY <2>2 DEF IsSeq
  <2>5. \A a \in DOMAIN actors : a # SELF => turns'[a] = turns[a]
    BY <1>1, <1>2, <2>3
  <2>6. turns'[SELF] <= turns[SELF] + 1
    BY <1>1, <1>2, <1>3, <2>3
  <2>7. \A a \in DOMAIN more : a \notin DOMAIN actors => turns'[a] = 0
    BY <1>1, <1>2, <2>3
  <2> QED
    BY <2>2, <2>4, <2>5, <2>6, <2>7 DEF Counted
<1>7. IsSeq(out') /\ (Has(out, "FAIL!") \/ Has(tokens, "FAIL!") => Has(out', "FAIL!"))
  <2>1. IsSeq(out) /\ out' = out \o tokens
    BY <1>1, <1>4
  <2>2. IsSeq(out') /\ DOMAIN out' = 1 .. Len(out) + Len(tokens)
    BY <2>1, ConcatenatedAt
  <2>3. \A i \in 1 .. Len(out) : out'[i] = out[i]
    BY <2>1, ConcatenatedAt
  <2>4. \A i \in Len(out) + 1 .. Len(out) + Len(tokens) : out'[i] = tokens[i - Len(out)]
    BY <2>1, ConcatenatedAt
  <2>5. /\ DOMAIN out = 1 .. Len(out) /\ Len(out) \in Nat
        /\ DOMAIN tokens = 1 .. Len(tokens) /\ Len(tokens) \in Nat
    BY <1>1, LengthIs
  <2>6. ASSUME NEW i \in DOMAIN out
        PROVE  i \in DOMAIN out' /\ out'[i] = out[i]
    BY <2>2, <2>3, <2>5
  <2>7. ASSUME NEW i \in DOMAIN tokens
        PROVE  Len(out) + i \in DOMAIN out' /\ out'[Len(out) + i] = tokens[i]
    <3>1. Len(out) + i \in Len(out) + 1 .. Len(out) + Len(tokens) /\ (Len(out) + i) - Len(out) = i
      BY <2>5
    <3> QED
      BY <2>2, <2>4, <2>5, <3>1
  <2> QED
    BY <2>2, <2>6, <2>7 DEF Has
<1> QED
  BY <1>1, <1>4, <1>5, <1>6, <1>7

-----------------------------------------------------------------------------
(* Behaviours that are done with the message.                              *)
Unplain == JoinBehs \cup {"tag_beh", "fork_beh", "report_beh", "throw_beh"}

Extended(row, all, more) == [a \in DOMAIN more |-> IF a \in DOMAIN all THEN row[a] ELSE a]

(* Whom it must answer, apart from the one that handles the message.       *)
Dues(row) == InHand(actors, row, queue[1]) \ {SELF}

Plainly(open, row, more, row2, sent, tokens, new, rights) ==
  /\ Runs(open, row)
  /\ actors[SELF].beh \notin Unplain
  /\ Grown(actors, SELF, more) /\ more[SELF].beh = actors[SELF].beh
  /\ row2 = Extended(row, actors, more)
  /\ IsSeq(sent) /\ IsSeq(tokens)
  /\ new = Newly(actors, more)
  /\ rights = Dues(row) \cup new
  /\ StatesDone(actors, more, row2)
  /\ \A i \in DOMAIN sent : MessageOK(more, row2, sent[i])
  /\ Handed(more, row2, sent, new, rights)
  /\ PassedOn(more, row2, sent, new, rights)
  /\ \A a \in DOMAIN more : a \notin DOMAIN actors => more[a].beh \notin {"tag_beh", "map_pair_beh"} \cup JoinBehs
  /\ \A a \in DOMAIN more :
       a \notin DOMAIN actors /\ more[a].beh = "throw_beh" =>
         \E i \in DOMAIN sent : sent[i].to \in DOMAIN more /\ more[sent[i].to].beh = "throw_beh"
  /\ RowsDone(actors, more, row2, sent, new)

(* A step of an actor that answers at most one customer, or hands that     *)
(* right on.                                                               *)
LEMMA PlainStep ==
  ASSUME NEW open, NEW row, NEW more, NEW row2, NEW sent, NEW tokens, NEW new, NEW rights,
         Plainly(open, row, more, row2, sent, tokens, new, rights), Handle(more, sent, tokens)
  PROVE  Onward
<1> DEFINE F == {SELF}
<1>0. /\ Runs(open, row)
      /\ actors[SELF].beh \notin Unplain
      /\ Grown(actors, SELF, more) /\ more[SELF].beh = actors[SELF].beh
      /\ row2 = Extended(row, actors, more)
      /\ IsSeq(sent) /\ IsSeq(tokens)
      /\ new = Newly(actors, more)
      /\ rights = Dues(row) \cup new
      /\ StatesDone(actors, more, row2)
      /\ \A i \in DOMAIN sent : MessageOK(more, row2, sent[i])
      /\ Handed(more, row2, sent, new, rights)
      /\ PassedOn(more, row2, sent, new, rights)
      /\ \A a \in DOMAIN more : a \notin DOMAIN actors => more[a].beh \notin {"tag_beh", "map_pair_beh"} \cup JoinBehs
      /\ \A a \in DOMAIN more :
           a \notin DOMAIN actors /\ more[a].beh = "throw_beh" =>
             \E i \in DOMAIN sent : sent[i].to \in DOMAIN more /\ more[sent[i].to].beh = "throw_beh"
      /\ RowsDone(actors, more, row2, sent, new)
  BY DEF Plainly
<1>1. /\ Orderly(actors, queue, turns, out, aborted, open, row)
      /\ 1 \in DOMAIN queue /\ SELF = queue[1].to /\ SELF \in DOMAIN actors
      /\ StatesOK(actors, row) /\ open \subseteq DOMAIN actors
  BY <1>0, Running
<1>2. DOMAIN actors \subseteq DOMAIN more /\ IsSeq(more)
  BY <1>0 DEF Grown
<1>3. DOMAIN row2 = DOMAIN more /\ \A a \in DOMAIN actors : row2[a] = row[a]
  BY <1>0, <1>2 DEF Extended
<1>4. Finishes(queue[1], F)
  <2>1. queue[1].what.op # "tagged"
    BY <1>0, <1>1, Taking DEF Unplain
  <2> QED
    BY <1>0, <1>1, <2>1 DEF Finishes
<1>5. Acts(actors, queue, turns, out, aborted, open, row, more, row2, F)
  BY <1>0, <1>1, <1>3, <1>4 DEF Acts, Unplain
<1>6. PICK open2 : open2 = Later(actors, open, more, F)
  OBVIOUS
<1>7. Hands(actors, SELF, open2) = new
  BY <1>0, <1>1, <1>2, <1>6 DEF Hands, Later, Newly
<1>8. Rights(actors, row, queue[1], more, F) = rights
  BY <1>0, <1>1 DEF Rights, Dues
<1>9. /\ actors' = more /\ queue' = Tail(queue) \o sent
      /\ Counted(actors, SELF, more, turns, turns')
      /\ ~aborted' => ~aborted /\ \A i \in DOMAIN sent : sent[i].to \in DOMAIN more
      /\ IsSeq(out') /\ (Has(out, "FAIL!") => Has(out', "FAIL!"))
  BY <1>0, <1>2, Handling
<1>10. SELF \notin rights
  BY <1>0, <1>1 DEF Dues, Newly
<1>11. OnceMore(actors, SELF, more, row2, sent, new)
  BY <1>0, <1>10 DEF OnceMore, Handed
<1>12. ToldDone(actors, SELF, more, sent, out, out', F)
  BY <1>0, <1>9 DEF ToldDone, Unplain
<1>13. JoinsDone(actors, SELF, more, new, open2)
  <2>1. ASSUME NEW t \in open2, more[t].beh = "tag_beh", t \notin DOMAIN actors \/ more[t].mine = SELF
        PROVE  FALSE
    <3>1. t \in DOMAIN actors /\ more[t].mine = SELF /\ t # SELF
      BY <1>0, <1>1, <1>6, <2>1 DEF Later, Newly, Unplain
    <3>2. actors[t] = more[t]
      BY <1>0, <2>1, <3>1 DEF Grown, Mutable
    <3>3. IsIn(actors, JoinBehs, SELF)
      BY <1>0, <1>1, <2>1, <3>1, <3>2 DEF StatesOK, StateOK, ForkJoinOK
    <3> QED
      BY <1>0, <3>3 DEF IsIn, Unplain
  <2>2. ASSUME NEW j \in new, NEW t, Awaits(more[j], t)
        PROVE  FALSE
    BY <1>0, <2>2 DEF Newly, Awaits, JoinBehs
  <2> QED
    BY <1>0, <2>1, <2>2 DEF JoinsDone
<1> HIDE DEF F
<1>14. Completes(actors, queue, turns, out, aborted, open, row, more, row2, F, SELF, sent, queue', turns', out', aborted',
                 open2, rights, new)
  BY <1>0, <1>1, <1>5, <1>6, <1>7, <1>8, <1>9, <1>11, <1>12, <1>13 DEF Completes
<1>15. Orderly(more, queue', turns', out', aborted', open2, row2)
  BY <1>0, <1>14, Step
<1> QED
  BY <1>0, <1>9, <1>15 DEF Onward

-----------------------------------------------------------------------------
(* New actors.                                                             *)
LEMMA Nothing == ASSUME NEW s, IsSeq(s) PROVE s \o << >> = s
<1>1. PICK S : s \in Seq(S)
  BY DEF IsSeq
<1> QED
  BY <1>1

Adds(row, new, more, row2) ==
  /\ Grown(actors, SELF, more) /\ more[SELF].beh = actors[SELF].beh /\ IsSeq(more)
  /\ DOMAIN actors \subseteq DOMAIN more
  /\ \A a \in DOMAIN actors : more[a] = actors[a]
  /\ DOMAIN row2 = DOMAIN more /\ \A a \in DOMAIN actors : row2[a] = row[a]
  /\ \A i \in DOMAIN new :
       New(i) \in DOMAIN more /\ New(i) \notin DOMAIN actors /\ more[New(i)] = new[i] /\ row2[New(i)] = New(i)
  /\ \A a \in DOMAIN more : a \notin DOMAIN actors => \E i \in DOMAIN new : a = New(i)

LEMMA Adding ==
  ASSUME NEW open, NEW row, Runs(open, row), NEW new, IsSeq(new), NEW more, more = actors \o new,
         NEW row2, row2 = Extended(row, actors, more)
  PROVE  Adds(row, new, more, row2)
<1>1. IsSeq(actors) /\ SELF \in DOMAIN actors
  BY Running
<1>2. /\ DOMAIN actors = 1 .. Len(actors) /\ Len(actors) \in Nat
      /\ DOMAIN new = 1 .. Len(new) /\ Len(new) \in Nat
  BY <1>1, LengthIs
<1>3. IsSeq(more) /\ DOMAIN more = 1 .. Len(actors) + Len(new)
  BY <1>1, ConcatenatedAt
<1>4. \A i \in 1 .. Len(actors) : more[i] = actors[i]
  BY <1>1, ConcatenatedAt
<1>5. \A i \in Len(actors) + 1 .. Len(actors) + Len(new) : more[i] = new[i - Len(actors)]
  BY <1>1, ConcatenatedAt
<1>6. DOMAIN actors \subseteq DOMAIN more /\ \A a \in DOMAIN actors : more[a] = actors[a]
  BY <1>2, <1>3, <1>4
<1>7. \A a \in DOMAIN more : row2[a] = IF a \in DOMAIN actors THEN row[a] ELSE a
  BY DEF Extended
<1>8. DOMAIN row2 = DOMAIN more
  BY DEF Extended
<1>9. ASSUME NEW i \in DOMAIN new
      PROVE  New(i) \in DOMAIN more /\ New(i) \notin DOMAIN actors /\ more[New(i)] = new[i]
  <2>1. New(i) \in Len(actors) + 1 .. Len(actors) + Len(new) /\ New(i) - Len(actors) = i
    BY <1>2 DEF New
  <2>2. more[New(i)] = new[i]
    BY <1>5, <2>1
  <2> QED
    BY <1>2, <1>3, <2>1, <2>2
<1>10. ASSUME NEW a \in DOMAIN more, a \notin DOMAIN actors
       PROVE  \E i \in DOMAIN new : a = New(i)
  <2>1. a - Len(actors) \in DOMAIN new /\ a = New(a - Len(actors))
    BY <1>2, <1>3, <1>10 DEF New
  <2> QED
    BY <2>1
<1>11. Grown(actors, SELF, more) /\ more[SELF].beh = actors[SELF].beh
  <2>1. Turned(actors[SELF], more[SELF])
    <3>1. more[SELF] = actors[SELF]
      BY <1>1, <1>6
    <3> QED
      BY <3>1 DEF Turned
  <2> QED
    BY <1>1, <1>3, <1>6, <2>1 DEF Grown
<1>12. \A a \in DOMAIN actors : row2[a] = row[a]
  BY <1>6, <1>7
<1>13. \A i \in DOMAIN new : row2[New(i)] = New(i)
  BY <1>7, <1>9
<1> QED
  BY <1>3, <1>6, <1>8, <1>9, <1>10, <1>11, <1>12, <1>13 DEF Adds

(* What was there is there with new actors, too.                           *)
LEMMA Still ==
  ASSUME NEW open, NEW row, Runs(open, row), NEW more, Grown(actors, SELF, more)
  PROVE  /\ \A v : IsValue(actors, v) => IsValue(more, v)
         /\ \A v : IsFixed(actors, v) => IsFixed(more, v)
         /\ \A v : IsIn(actors, {"brand_type"}, v) => IsIn(more, {"brand_type"}, v)
         /\ \A k : AnyCust(actors, k) => AnyCust(more, k) /\ WaitsForCopy(more, k) = WaitsForCopy(actors, k)
         /\ \A k : Cust(actors, k) => Cust(more, k)
<1>1. Tagging(actors) /\ a_sink \in DOMAIN actors /\ actors[a_sink].beh = "sink_beh"
  BY Running DEF Settled
<1> QED
  BY <1>1, ValuesStay, KindsStay, CustsStay

(* The state of an object.                                                 *)
LEMMA ObjectState ==
  ASSUME NEW all, NEW row, NEW a, NEW b, NEW s, b \in ObjectBehs, row[a] = a, ObjectOK(all, b, s)
  PROVE  /\ StateOK(all, row, a, b, s) /\ b \in Kinds /\ b \notin OpenBehs
         /\ all[a].beh = b => Keeps(all, a) = {}
<1>1. /\ b \notin PlainArgsBehs \cup BrandBehs \cup PairBehs \cup BothBehs \cup JoinBehs \cup MapBehs \cup HeadBehs
                  \cup ValueBehs \cup {"concurrent_args_beh", "fork_beh", "map_next_beh", "tag_beh"}
      /\ b \notin WithCust /\ b \notin OpenBehs /\ b \in Kinds
  BY DEF ObjectBehs, Immutable, Mutable, PlainArgsBehs, BrandBehs, PairBehs, BothBehs, JoinBehs, MapBehs, HeadBehs,
     ValueBehs, WithCust, OpenBehs, ArgsBehs, Kinds
<1>2. CustomerOK(all, b, s)
  BY <1>1 DEF CustomerOK, ValueBehs, BothBehs, PairBehs, MapBehs
<1>3. ForkJoinOK(all, a, b, s)
  BY <1>1 DEF ForkJoinOK, JoinBehs
<1>4. MapOK(all, row, a, b, s)
  BY <1>1 DEF MapOK, MapBehs, HeadBehs
<1>5. all[a].beh = b => Keeps(all, a) = {}
  BY <1>1 DEF Keeps, Direct, Rest, ValueBehs, BothBehs
<1> QED
  BY <1>1, <1>2, <1>3, <1>4, <1>5 DEF StateOK

(* Customers of one answer, or of operands.                                *)
PlainCusts == (ValueBehs \ {"tag_beh", "abort_beh"}) \cup ArgsBehs \cup PairBehs \cup BothBehs

(* The state of a customer of one answer.                                  *)
LEMMA CustomerState ==
  ASSUME NEW all, NEW row, NEW a, NEW b, NEW s, b \in PlainCusts, row[a] = a, CustomerOK(all, b, s)
  PROVE  StateOK(all, row, a, b, s) /\ b \in Kinds /\ b \in OpenBehs
<1>1. /\ b \notin JoinBehs \cup HeadBehs \cup {"fork_beh", "map_next_beh", "tag_beh", "map_unwrap_beh", "map_comb_beh", "map_tail_beh"}
      /\ b \notin ObjectBehs
  BY DEF PlainCusts, ObjectBehs, Immutable, Mutable, PlainArgsBehs, BrandBehs, PairBehs, BothBehs, JoinBehs, HeadBehs,
     ValueBehs, ArgsBehs
<1>2. ObjectOK(all, b, s)
  BY <1>1 DEF ObjectOK, ObjectBehs, Immutable, Mutable
<1>3. ForkJoinOK(all, a, b, s)
  BY <1>1 DEF ForkJoinOK, JoinBehs
<1>4. MapOK(all, row, a, b, s)
  BY <1>1 DEF MapOK, HeadBehs
<1>5. b \in OpenBehs /\ b \in Kinds
  BY DEF OpenBehs, Kinds, PlainCusts
<1> QED
  BY <1>2, <1>3, <1>4, <1>5 DEF StateOK

(* Messages to objects and to customers, for the customer k.               *)
Fits(all, row, m, k) == MessageOK(all, row, m) /\ Held(all, row, m) = {k} \ {a_sink}

LEMMA RequestFits ==
  ASSUME NEW all, NEW row, IsSeq(all), NEW x, IsValue(all, x) \/ IsIn(all, {"brand_type"}, x),
         NEW w, RequestOK(all, x, w), NEW m, m = Message(x, w)
  PROVE  Fits(all, row, m, row[w.cust])
<1>1. m.to = x /\ m.what = w
  BY DEF Message
<1>2. w.op \in Requests /\ w.op # "tagged"
  BY DEF RequestOK, Requests
<1>3. NIL \notin DOMAIN all /\ NotActor \notin DOMAIN all
  BY LengthIs DEF NIL, NotActor
<1>4. CASE x \in {NIL, NotActor}
  BY <1>1, <1>2, <1>3, <1>4 DEF Fits, MessageOK, Held, Answers, Serves
<1>5. CASE x \in DOMAIN all /\ all[x].beh \in ObjectBehs
  <2>1. all[x].beh \notin {"sink_beh", "fork_beh", "pair_copy_beh", "pair_map_beh"} \cup ValueBehs \cup ArgsBehs \cup PairBehs
                          \cup JoinBehs \cup {"map_unwrap_beh", "map_comb_beh", "map_next_beh", "map_tail_beh"} \cup HeadBehs
    BY <1>5 DEF ObjectBehs, Immutable, Mutable, PlainArgsBehs, BrandBehs, PairBehs, JoinBehs, HeadBehs, ValueBehs, ArgsBehs
  <2>2. SentOK(all, row, x, w)
    BY <2>1 DEF SentOK, HeadBehs
  <2> QED
    BY <1>1, <1>2, <1>5, <2>2 DEF Fits, MessageOK, Held, Answers, Serves
<1> QED
  BY <1>3, <1>4, <1>5 DEF IsValue, IsIn, ObjectBehs, Immutable

(* A value that k may be sent.                                             *)
Suits(all, k, v) == IsValue(all, v) /\ (WaitsForCopy(all, k) => IsFixed(all, v))

Sinks(all) == a_sink \in DOMAIN all /\ all[a_sink].beh = "sink_beh"
Itself(row, k) == row[k] = k

LEMMA RelayFits ==
  ASSUME NEW all, NEW row, Sinks(all), NEW k, AnyCust(all, k), Itself(row, k),
         NEW w, w.op = "value", Suits(all, k, w.val), NEW m, m = Message(k, w)
  PROVE  Fits(all, row, m, k)
<1>1. m.to = k /\ m.what = w /\ w.op = "value"
  BY DEF Message
<1>2. k \in DOMAIN all /\ all[k].beh \in ValueBehs \cup {"sink_beh"}
  BY DEF AnyCust, IsIn, Sinks
<1>3. all[k].beh \notin ObjectBehs \cup {"fork_beh", "pair_copy_beh", "pair_map_beh"} \cup ArgsBehs \cup PairBehs
                        \cup JoinBehs \cup {"map_unwrap_beh", "map_comb_beh", "map_next_beh", "map_tail_beh"} \cup HeadBehs
  BY <1>2 DEF ObjectBehs, Immutable, Mutable, PlainArgsBehs, BrandBehs, PairBehs, JoinBehs, HeadBehs, ValueBehs, ArgsBehs
<1>4. SentOK(all, row, k, m.what)
  BY <1>1, <1>3 DEF SentOK, ValueOK, HeadBehs, Suits
<1>6. "value" \notin Requests \cup {"heads"}
  BY DEF Requests
<1>7. Serves(row, m) = {}
  BY <1>1, <1>6 DEF Serves
<1>8. CASE k = a_sink
  BY <1>1, <1>2, <1>4, <1>7, <1>8 DEF Fits, MessageOK, Held, Answers, Sinks
<1>9. CASE k # a_sink
  <2>1. all[k].beh \in ValueBehs
    BY <1>9 DEF AnyCust, IsIn
  <2>2. all[k].beh # "sink_beh"
    BY <2>1 DEF ValueBehs
  <2> QED
    BY <1>1, <1>2, <1>3, <1>4, <1>7, <1>9, <2>2 DEF Fits, MessageOK, Held, Answers, Itself
<1> QED
  BY <1>8, <1>9

LEMMA ReplyFits ==
  ASSUME NEW all, NEW row, Sinks(all), NEW k, AnyCust(all, k), Itself(row, k),
         NEW v, Suits(all, k, v), NEW m, m = Message(k, Value(v))
  PROVE  Fits(all, row, m, k)
<1>1. Value(v).op = "value" /\ Value(v).val = v
  BY DEF Value
<1> QED
  BY <1>1, RelayFits

-----------------------------------------------------------------------------
(* How behaviours end: they answer k, ask others for k, or fail.           *)
Due(open, row, k) ==
  /\ Runs(open, row)
  /\ actors[SELF].beh \notin Unplain
  /\ AnyCust(actors, k)
  /\ Dues(row) = {k} \ {a_sink}

LEMMA CustNoMap ==
  ASSUME NEW all, NEW k, AnyCust(all, k), all[a_sink].beh = "sink_beh"
  PROVE  all[k].beh \notin MapBehs \cup JoinBehs
BY DEF AnyCust, IsIn, ValueBehs, MapBehs, JoinBehs

LEMMA OneSent ==
  /\ \A m : IsSeq(<<m>>) /\ DOMAIN <<m>> = {1} /\ <<m>>[1] = m
  /\ \A m, n : IsSeq(<<m, n>>) /\ DOMAIN <<m, n>> = {1, 2} /\ <<m, n>>[1] = m /\ <<m, n>>[2] = n
  /\ IsSeq(<< >>) /\ DOMAIN << >> = {} /\ Len(<< >>) = 0
  /\ \A m : Len(<<m>>) = 1
  /\ \A m, n : Len(<<m, n>>) = 2
<1>1. \A m : DOMAIN <<m>> = {1} /\ <<m>>[1] = m
  OBVIOUS
<1>2. \A m, n : DOMAIN <<m, n>> = {1, 2} /\ <<m, n>>[1] = m /\ <<m, n>>[2] = n
  OBVIOUS
<1>3. DOMAIN << >> = {}
  OBVIOUS
<1>4. \A m, n : Len(<<m>>) = 1 /\ Len(<<m, n>>) = 2
  OBVIOUS
<1>5. Len(<< >>) = 0
  OBVIOUS
<1> QED
  BY <1>1, <1>2, <1>3, <1>4, <1>5, SeqsAre

(* Only objects are new.                                                   *)
LEMMA Tells ==
  ASSUME NEW open, NEW row, NEW k, Due(open, row, k),
         NEW new, IsSeq(new), NEW more, more = actors \o new, NEW row2, row2 = Extended(row, actors, more),
         \A i \in DOMAIN new : new[i].beh \in ObjectBehs /\ ObjectOK(more, new[i].beh, new[i].mine),
         NEW m, NEW tokens, IsSeq(tokens), Handle(more, <<m>>, tokens),
         Fits(more, row2, m, k)
  PROVE  Onward
<1>1. /\ Runs(open, row) /\ actors[SELF].beh \notin Unplain /\ AnyCust(actors, k)
      /\ Dues(row) = {k} \ {a_sink}
  BY DEF Due
<1>0. Adds(row, new, more, row2)
  BY <1>1, Adding
<1>2. /\ Grown(actors, SELF, more) /\ more[SELF].beh = actors[SELF].beh
      /\ \A a \in DOMAIN actors : more[a] = actors[a]
      /\ \A i \in DOMAIN new :
           New(i) \in DOMAIN more /\ New(i) \notin DOMAIN actors /\ more[New(i)] = new[i] /\ row2[New(i)] = New(i)
      /\ \A a \in DOMAIN more : a \notin DOMAIN actors => \E i \in DOMAIN new : a = New(i)
  BY <1>0 DEF Adds
<1>3. \A a \in DOMAIN more : a \notin DOMAIN actors => more[a].beh \in ObjectBehs /\ ObjectOK(more, more[a].beh, more[a].mine) /\ row2[a] = a
  BY <1>2
<1>4. StatesDone(actors, more, row2)
  <2>1. ASSUME NEW a \in DOMAIN more, a \notin DOMAIN actors
        PROVE  /\ more[a].beh \in Kinds
               /\ StateOK(more, row2, a, more[a].beh, more[a].mine)
               /\ Keeps(more, a) = {}
    <3>1. PICK b, s : b = more[a].beh /\ s = more[a].mine
      OBVIOUS
    <3>2. b \in ObjectBehs /\ row2[a] = a /\ ObjectOK(more, b, s)
      BY <1>3, <2>1, <3>1
    <3>3. StateOK(more, row2, a, b, s) /\ b \in Kinds /\ (more[a].beh = b => Keeps(more, a) = {})
      BY <3>2, ObjectState
    <3> QED
      BY <3>1, <3>3
  <2> QED
    BY <1>2, <2>1 DEF StatesDone
<1>5. PICK sent : sent = <<m>>
  OBVIOUS
<1>6. IsSeq(sent) /\ DOMAIN sent = {1} /\ sent[1] = m
  BY <1>5, OneSent
<1>7. Newly(actors, more) = {}
  <2>1. \A b \in ObjectBehs : b \notin OpenBehs
    BY DEF ObjectBehs, Immutable, Mutable, PlainArgsBehs, BrandBehs, PairBehs, BothBehs, JoinBehs, MapBehs,
       ValueBehs, OpenBehs, ArgsBehs
  <2> QED
    BY <1>3, <2>1 DEF Newly
<1>8. PICK rights : rights = {k} \ {a_sink}
  OBVIOUS
<1>9. Handed(more, row2, sent, {}, rights)
  BY <1>6, <1>8 DEF Fits, Handed
<1>10. PassedOn(more, row2, sent, {}, rights)
  BY <1>6, <1>8 DEF Fits, PassedOn
<1>11. \A a \in DOMAIN more : a \notin DOMAIN actors => more[a].beh \notin {"tag_beh", "map_pair_beh", "throw_beh"} \cup JoinBehs
  BY <1>3 DEF ObjectBehs, Immutable, Mutable, JoinBehs
<1>12. RowsDone(actors, more, row2, sent, {})
  <2>1. more[k].beh \notin MapBehs
    <3>1. AnyCust(more, k)
      BY <1>1, <1>2, Still
    <3>2. more[a_sink].beh = "sink_beh"
      BY <1>1, <1>2, Running DEF Settled
    <3> QED
      BY <3>1, <3>2, CustNoMap
  <2> QED
    BY <1>6, <1>11, <2>1 DEF Fits, RowsDone
<1>13. \A i \in DOMAIN sent : MessageOK(more, row2, sent[i])
  BY <1>6 DEF Fits
<1>14. Handle(more, sent, tokens) /\ rights = Dues(row) \cup {}
  BY <1>1, <1>5, <1>8
<1>15. Plainly(open, row, more, row2, sent, tokens, {}, rights)
  BY <1>1, <1>2, <1>4, <1>6, <1>7, <1>9, <1>10, <1>11, <1>12, <1>13, <1>14 DEF Plainly
<1> QED
  BY <1>14, <1>15, PlainStep

(* New actors wait for each other: the first one will answer k, and each   *)
(* of the others the one before it.                                        *)
Chained(k, new, more, row2, n, m) ==
  /\ n \in DOMAIN new /\ n = Len(new)
  /\ \A i \in DOMAIN new : new[i].beh \in OpenBehs \ ({"tag_beh", "throw_beh"} \cup JoinBehs)
  /\ \A i \in DOMAIN new : StateOK(more, row2, New(i), new[i].beh, new[i].mine)
  /\ \A i \in DOMAIN new : i = 1 => Keeps(more, New(i)) = {k} \ {a_sink}
  /\ \A i \in DOMAIN new : i # 1 => Keeps(more, New(i)) = {New(i - 1)}
  /\ \A i \in DOMAIN new : new[i].beh \in MapBehs => i = n /\ m.to = New(n) /\ m.what.op # "as_pair"
  /\ MessageOK(more, row2, m) /\ Held(more, row2, m) = {New(n)}

LEMMA Entrusts ==
  ASSUME NEW open, NEW row, NEW k, Due(open, row, k),
         NEW new, IsSeq(new), NEW more, more = actors \o new, NEW row2, row2 = Extended(row, actors, more),
         NEW n, NEW m, Chained(k, new, more, row2, n, m),
         NEW tokens, IsSeq(tokens), Handle(more, <<m>>, tokens)
  PROVE  Onward
<1>1. /\ Runs(open, row) /\ actors[SELF].beh \notin Unplain /\ AnyCust(actors, k)
      /\ Dues(row) = {k} \ {a_sink}
  BY DEF Due
<1>0. Adds(row, new, more, row2)
  BY <1>1, Adding
<1>2. Grown(actors, SELF, more) /\ more[SELF].beh = actors[SELF].beh
  BY <1>0 DEF Adds
<1>21. \A a \in DOMAIN actors : more[a] = actors[a]
  BY <1>0 DEF Adds
<1>22. \A i \in DOMAIN new : New(i) \in DOMAIN more /\ New(i) \notin DOMAIN actors /\ more[New(i)] = new[i]
  BY <1>0 DEF Adds
<1>23. \A a \in DOMAIN more : a \notin DOMAIN actors => \E i \in DOMAIN new : a = New(i)
  BY <1>0 DEF Adds
<1>24. n \in DOMAIN new /\ n = Len(new)
  BY DEF Chained
<1>25. \A i \in DOMAIN new : new[i].beh \in OpenBehs \ ({"tag_beh", "throw_beh"} \cup JoinBehs)
  BY DEF Chained
<1>26. \A i \in DOMAIN new : i = 1 => Keeps(more, New(i)) = {k} \ {a_sink}
  BY DEF Chained
<1>27. \A i \in DOMAIN new : i # 1 => Keeps(more, New(i)) = {New(i - 1)}
  BY DEF Chained
<1>28. \A i \in DOMAIN new : new[i].beh \in MapBehs => i = n /\ m.to = New(n) /\ m.what.op # "as_pair"
  BY DEF Chained
<1>29. MessageOK(more, row2, m) /\ Held(more, row2, m) = {New(n)}
  BY DEF Chained
<1>3. /\ AnyCust(more, k) /\ k \in DOMAIN actors
      /\ more[k].beh \notin MapBehs
      /\ DOMAIN actors = 1 .. Len(actors) /\ Len(actors) \in Nat
  <2>1. AnyCust(more, k)
    BY <1>1, <1>2, Still
  <2>2. more[a_sink].beh = "sink_beh" /\ IsSeq(actors) /\ a_sink \in DOMAIN actors
    BY <1>1, <1>21, Running DEF Settled
  <2> QED
    BY <1>1, <2>1, <2>2, CustNoMap, LengthIs DEF AnyCust, IsIn
<1>4. n \in Nat /\ DOMAIN new = 1 .. n
  BY <1>24, LengthIs
<1>41. \A i \in DOMAIN new : i # 1 => i - 1 \in DOMAIN new
  BY <1>4
<1>42. \A i \in DOMAIN new : i # n => i + 1 \in DOMAIN new /\ i + 1 # 1 /\ (i + 1) - 1 = i
  BY <1>4
<1>43. \A i \in DOMAIN new : i # 1 => New(i - 1) < New(i)
  BY <1>3, <1>4 DEF New
<1>44. \A i \in DOMAIN new : k < New(i)
  BY <1>3, <1>4 DEF New
<1>45. \A i, j \in DOMAIN new : New(i) = New(j) => i = j
  BY <1>3, <1>4 DEF New
<1>46. 1 \in DOMAIN new
  BY <1>4, <1>24
<1>5. StatesDone(actors, more, row2)
  <2>1. ASSUME NEW a \in DOMAIN more, a \notin DOMAIN actors
        PROVE  /\ more[a].beh \in Kinds
               /\ StateOK(more, row2, a, more[a].beh, more[a].mine)
               /\ \A x \in Keeps(more, a) : x < a
    <3>1. PICK i \in DOMAIN new : a = New(i)
      BY <1>23, <2>1
    <3>2. more[a] = new[i] /\ new[i].beh \in OpenBehs
      BY <1>22, <1>25, <3>1
    <3>3. CASE i = 1
      <4>1. Keeps(more, a) = {k} \ {a_sink}
        BY <1>26, <3>1, <3>3
      <4> QED
        BY <1>44, <3>1, <3>2, <4>1 DEF Kinds, Chained
    <3>4. CASE i # 1
      <4>1. Keeps(more, a) = {New(i - 1)}
        BY <1>27, <3>1, <3>4
      <4> QED
        BY <1>43, <3>1, <3>2, <3>4, <4>1 DEF Kinds, Chained
    <3> QED
      BY <3>3, <3>4
  <2> QED
    BY <1>2, <2>1 DEF StatesDone
<1>6. PICK sent : sent = <<m>>
  OBVIOUS
<1>7. IsSeq(sent) /\ DOMAIN sent = {1} /\ sent[1] = m
  BY <1>6, OneSent
<1>8. PICK fresh : fresh = {New(i) : i \in DOMAIN new}
  OBVIOUS
<1>9. Newly(actors, more) = fresh
  BY <1>22, <1>23, <1>25, <1>8 DEF Newly
<1>10. PICK rights : rights = ({k} \ {a_sink}) \cup fresh
  OBVIOUS
<1>12. k \notin fresh
  BY <1>3, <1>22, <1>8
<1>121. \A i \in DOMAIN new : New(i) \in fresh
  BY <1>8
<1>122. \A a \in fresh : \E i \in DOMAIN new : a = New(i)
  BY <1>8
<1>123. ASSUME NEW i \in DOMAIN new, NEW x \in Keeps(more, New(i))
        PROVE  x \in rights /\ (i = 1 => x = k) /\ (i # 1 => x = New(i - 1) /\ x \in fresh)
  <2>1. i = 1 => x \in {k} \ {a_sink}
    BY <1>26, <1>123
  <2>2. i # 1 => x \in {New(i - 1)} /\ i - 1 \in DOMAIN new
    BY <1>27, <1>41, <1>123
  <2>3. i # 1 => x = New(i - 1) /\ x \in fresh
    BY <1>121, <2>2
  <2> QED
    BY <1>10, <2>1, <2>3
<1> HIDE <1>26, <1>27
<1>13. Handed(more, row2, sent, fresh, rights)
  <2>1. Held(more, row2, m) \subseteq rights
    BY <1>10, <1>24, <1>29, <1>121
  <2>3. \A a \in fresh : Keeps(more, a) \subseteq rights
    BY <1>122, <1>123
  <2>4. ASSUME NEW a \in fresh
        PROVE  Held(more, row2, m) \cap Keeps(more, a) = {}
    <3>1. PICK i \in DOMAIN new : a = New(i)
      BY <1>122
    <3>2. ASSUME New(n) \in Keeps(more, New(i))
          PROVE  FALSE
      <4>1. i = 1 => New(n) = k
        BY <1>123, <3>2
      <4>2. i = 1 => FALSE
        BY <1>12, <1>24, <1>121, <4>1
      <4>3. i # 1 => New(n) = New(i - 1) /\ i - 1 \in DOMAIN new
        BY <1>41, <1>123, <3>2
      <4>4. i # 1 => n = i - 1
        BY <1>24, <1>45, <4>3
      <4> QED
        BY <1>4, <4>2, <4>4
    <3> QED
      BY <1>29, <3>1, <3>2
  <2>5. ASSUME NEW a \in fresh, NEW b \in fresh, a # b
        PROVE  Keeps(more, a) \cap Keeps(more, b) = {}
    <3>1. PICK i \in DOMAIN new : a = New(i)
      BY <1>122
    <3>2. PICK j \in DOMAIN new : b = New(j)
      BY <1>122
    <3>3. i # j
      BY <2>5, <3>1, <3>2
    <3>4. ASSUME NEW x \in Keeps(more, New(i)), x \in Keeps(more, New(j))
          PROVE  FALSE
      <4>1. i = 1 => x = k /\ j # 1
        BY <1>123, <3>3
      <4>2. j # 1 => x = New(j - 1) /\ x \in fresh /\ j - 1 \in DOMAIN new
        BY <1>41, <1>123, <3>4
      <4>3. j = 1 => x = k /\ i # 1
        BY <1>123, <3>3, <3>4
      <4>4. i # 1 => x = New(i - 1) /\ x \in fresh /\ i - 1 \in DOMAIN new
        BY <1>41, <1>123
      <4>5. i # 1 /\ j # 1
        BY <1>12, <4>1, <4>2, <4>3, <4>4
      <4>6. i - 1 = j - 1
        BY <1>45, <4>2, <4>4, <4>5
      <4> QED
        BY <1>4, <3>3, <4>6
    <3> QED
      BY <3>1, <3>2, <3>4
  <2> QED
    BY <1>7, <2>1, <2>3, <2>4, <2>5 DEF Handed
<1>14. PassedOn(more, row2, sent, fresh, rights)
  <2>2. ASSUME NEW i \in DOMAIN new
        PROVE  \/ \E j \in DOMAIN sent : New(i) \in Held(more, row2, sent[j])
               \/ \E a \in fresh : New(i) \in Keeps(more, a)
    <3>1. CASE i = n
      BY <1>7, <1>29, <3>1
    <3>2. CASE i # n
      <4>1. i + 1 \in DOMAIN new /\ i + 1 # 1 /\ (i + 1) - 1 = i
        BY <1>42, <3>2
      <4>2. New(i + 1) \in fresh
        BY <1>121, <4>1
      <4>3. Keeps(more, New(i + 1)) = {New((i + 1) - 1)}
        BY <4>1 DEF Chained
      <4> QED
        BY <4>1, <4>2, <4>3
    <3> QED
      BY <3>1, <3>2
  <2>4. \A x \in {k} \ {a_sink} : x \in Keeps(more, New(1)) /\ New(1) \in fresh
    BY <1>46, <1>121 DEF Chained
  <2>5. ASSUME NEW x \in rights
        PROVE  \/ \E j \in DOMAIN sent : x \in Held(more, row2, sent[j])
               \/ \E a \in fresh : x \in Keeps(more, a)
    <3>1. CASE x \in {k} \ {a_sink}
      BY <2>4, <3>1
    <3>2. CASE x \in fresh
      BY <1>122, <2>2, <3>2
    <3> QED
      BY <1>10, <3>1, <3>2
  <2> QED
    BY <2>5 DEF PassedOn
<1>15. \A a \in DOMAIN more : a \notin DOMAIN actors => more[a].beh \notin {"tag_beh", "map_pair_beh", "throw_beh"} \cup JoinBehs
  <2>1. "map_pair_beh" \notin OpenBehs
    BY DEF ValueBehs, ArgsBehs, PlainArgsBehs, BrandBehs, PairBehs, BothBehs, JoinBehs, MapBehs, OpenBehs
  <2> QED
    BY <1>22, <1>23, <1>25, <2>1
<1>16. RowsDone(actors, more, row2, sent, fresh)
  <2>1. ASSUME NEW i \in DOMAIN new
        PROVE  Busy(more, row2, New(i)) = {}
    <3> SUFFICES ASSUME NEW x \in DOMAIN more, more[x].beh = "map_pair_beh", row2[x] = New(i)
                 PROVE  FALSE
      BY DEF Busy
    <3>1. x \in DOMAIN actors
      BY <1>15
    <3>2. IsIn(actors, MapBehs, row[x]) /\ row2[x] = row[x]
      <4>1. MapOK(actors, row, x, actors[x].beh, actors[x].mine) /\ actors[x].beh = "map_pair_beh"
        BY <1>1, <1>21, <3>1, Running DEF StatesOK, StateOK
      <4>2. row2[x] = row[x]
        BY <1>0, <3>1 DEF Adds
      <4> QED
        BY <4>1, <4>2 DEF MapOK, HeadBehs
    <3> QED
      BY <1>22, <3>2 DEF IsIn
  <2>2. more[New(n)].beh \in MapBehs => RowOK(more, row2, m, New(n))
    <3>1. new[n].beh \in MapBehs => m.to = New(n) /\ m.what.op # "as_pair"
      BY <1>24, <1>28
    <3>2. Busy(more, row2, New(n)) = {} /\ more[New(n)] = new[n]
      BY <1>22, <1>24, <2>1
    <3> QED
      BY <3>1, <3>2 DEF RowOK
  <2>4. ASSUME NEW a \in fresh, NEW x \in Keeps(more, a)
        PROVE  more[x].beh \notin MapBehs
    <3>0. PICK i \in DOMAIN new : a = New(i)
      BY <1>122
    <3>1. CASE i = 1
      <4>1. x = k
        BY <1>123, <3>0, <3>1
      <4> QED
        BY <1>3, <4>1
    <3>2. CASE i # 1
      <4>1. x = New(i - 1)
        BY <1>123, <2>4, <3>0, <3>2
      <4>2. i - 1 \in DOMAIN new /\ i - 1 # n
        BY <1>4, <3>2
      <4>3. more[x] = new[i - 1] /\ new[i - 1].beh \notin MapBehs
        BY <1>22, <1>28, <4>1, <4>2
      <4> QED
        BY <4>3
    <3> QED
      BY <3>1, <3>2
  <2>5. \A x \in Held(more, row2, m) : more[x].beh \in MapBehs => RowOK(more, row2, m, x)
    BY <1>29, <2>2
  <2> QED
    BY <1>7, <1>15, <2>4, <2>5 DEF RowsDone
<1>17. \A i \in DOMAIN sent : MessageOK(more, row2, sent[i])
  BY <1>7, <1>29
<1>18. Handle(more, sent, tokens) /\ rights = Dues(row) \cup fresh
  BY <1>1, <1>6, <1>10
<1>19. Plainly(open, row, more, row2, sent, tokens, fresh, rights)
  BY <1>1, <1>2, <1>5, <1>7, <1>9, <1>13, <1>14, <1>15, <1>16, <1>17, <1>18 DEF Plainly
<1> QED
  BY <1>18, <1>19, PlainStep

-----------------------------------------------------------------------------
(* An object whose contents may change does.                               *)
Same(base) ==
  /\ Grown(actors, SELF, base) /\ base[SELF].beh = actors[SELF].beh
  /\ DOMAIN base = DOMAIN actors
  /\ \A a \in DOMAIN actors :
       base[a] # actors[a] => base[a].beh \in ObjectBehs /\ ObjectOK(actors, base[a].beh, base[a].mine)

LEMMA SameSelf == ASSUME NEW open, NEW row, Runs(open, row) PROVE Same(actors)
<1>1. IsSeq(actors) /\ SELF \in DOMAIN actors
  BY Running
<1> QED
  BY <1>1 DEF Same, Grown, Turned

LEMMA SameChanged ==
  ASSUME NEW open, NEW row, Runs(open, row), NEW a, IsIn(actors, Mutable, a), NEW s,
         ObjectOK(actors, actors[a].beh, s), NEW base, base = Changed(a, actors[a].beh, s)
  PROVE  Same(base)
<1>1. IsSeq(actors) /\ SELF \in DOMAIN actors /\ a \in DOMAIN actors
  BY Running DEF IsIn
<1>2. base = [actors EXCEPT ![a] = Actor(actors[a].beh, s)]
  BY DEF Changed
<1>3. IsSeq(base)
  <2>1. PICK S : actors \in Seq(S)
    BY <1>1 DEF IsSeq
  <2>2. base \in Seq(S \cup {Actor(actors[a].beh, s)})
    BY <1>1, <1>2, <2>1
  <2> QED
    BY <2>2 DEF IsSeq
<1>4. DOMAIN base = DOMAIN actors
  BY <1>2
<1>5. \A x \in DOMAIN actors : x # a => base[x] = actors[x]
  BY <1>2
<1>6. base[a].beh = actors[a].beh /\ base[a].mine = s
  BY <1>1, <1>2 DEF Actor
<1>7. actors[a].beh \in Mutable /\ Mutable \subseteq ObjectBehs
  BY DEF IsIn, ObjectBehs
<1>8. Turned(actors[SELF], base[SELF])
  <2>1. CASE SELF = a
    BY <1>6, <1>7, <2>1 DEF Turned, Mutable, JoinBehs, MapBehs, HeadBehs
  <2>2. CASE SELF # a
    BY <1>1, <1>5, <2>2 DEF Turned
  <2> QED
    BY <2>1, <2>2
<1>9. Grown(actors, SELF, base)
  <2>1. ASSUME NEW x \in DOMAIN actors
        PROVE  IF actors[x].beh \in Mutable THEN base[x].beh = actors[x].beh ELSE base[x] = actors[x]
    BY <1>5, <1>6, <1>7
  <2> QED
    BY <1>1, <1>3, <1>4, <1>8, <2>1 DEF Grown
<1>10. base[SELF].beh = actors[SELF].beh
  BY <1>1, <1>5, <1>6
<1>11. ASSUME NEW x \in DOMAIN actors, base[x] # actors[x]
       PROVE  base[x].beh \in ObjectBehs /\ ObjectOK(actors, base[x].beh, base[x].mine)
  <2>1. x = a
    BY <1>5, <1>11
  <2> QED
    BY <1>6, <1>7, <2>1
<1> QED
  BY <1>4, <1>9, <1>10, <1>11 DEF Same

(* What is known of an object is known of it with more actors.             *)
LEMMA ObjectStays ==
  ASSUME NEW open, NEW row, Runs(open, row), NEW more, Grown(actors, SELF, more), NEW b, NEW s, ObjectOK(actors, b, s)
  PROVE  ObjectOK(more, b, s)
BY KindsStay, ValuesStay DEF ObjectOK

LEMMA CustomerStays ==
  ASSUME NEW open, NEW row, Runs(open, row), NEW more, Grown(actors, SELF, more), NEW b, NEW s, CustomerOK(actors, b, s)
  PROVE  CustomerOK(more, b, s)
<1>1. Tagging(actors) /\ a_sink \in DOMAIN actors /\ actors[a_sink].beh = "sink_beh"
  BY Running DEF Settled
<1> QED
  BY <1>1, KindsStay, ValuesStay, CustsStay, RequestsStay DEF CustomerOK

LEMMA RowOfSame ==
  ASSUME NEW open, NEW row, Runs(open, row)
  PROVE  /\ DOMAIN row = DOMAIN actors
         /\ \A a \in DOMAIN actors : actors[a].beh \notin HeadBehs \cup {"map_next_beh"} => row[a] = a
BY Running DEF StatesOK, StateOK, MapOK

LEMMA SameStates ==
  ASSUME NEW open, NEW row, Runs(open, row), NEW base, Same(base), NEW more, Grown(actors, SELF, more),
         NEW row2, NEW a \in DOMAIN actors, more[a] = base[a], base[a] # actors[a], row2[a] = row[a]
  PROVE  /\ more[a].beh \in Kinds
         /\ StateOK(more, row2, a, more[a].beh, more[a].mine)
         /\ Keeps(more, a) = {}
<1>1. PICK b, s : b = more[a].beh /\ s = more[a].mine
  OBVIOUS
<1>2. b \in ObjectBehs /\ ObjectOK(actors, b, s)
  BY <1>1 DEF Same
<1>3. ObjectOK(more, b, s)
  BY <1>2, ObjectStays
<1>4. actors[a].beh \notin HeadBehs \cup {"map_next_beh"}
  <2>1. Turned(actors[a], base[a])
    BY AllTurned DEF Same
  <2> QED
    BY <1>1, <1>2, <2>1 DEF Turned, ObjectBehs, Immutable, Mutable, Turning, JoinBehs, MapBehs, HeadBehs
<1>5. row2[a] = a
  BY <1>4, RowOfSame
<1>6. StateOK(more, row2, a, b, s) /\ b \in Kinds /\ (more[a].beh = b => Keeps(more, a) = {})
  BY <1>2, <1>3, <1>5, ObjectState
<1> QED
  BY <1>1, <1>6

(* Without new actors.                                                     *)
LEMMA Changes ==
  ASSUME NEW open, NEW row, NEW k, Due(open, row, k), NEW more, Same(more), NEW row2, row2 = Extended(row, actors, more),
         NEW m, NEW tokens, IsSeq(tokens), Handle(more, <<m>>, tokens),
         Fits(more, row2, m, k)
  PROVE  Onward
<1>1. /\ Runs(open, row) /\ actors[SELF].beh \notin Unplain /\ AnyCust(actors, k)
      /\ Dues(row) = {k} \ {a_sink}
  BY DEF Due
<1>2. /\ Grown(actors, SELF, more) /\ more[SELF].beh = actors[SELF].beh
      /\ DOMAIN more = DOMAIN actors
  BY DEF Same
<1>3. \A a \in DOMAIN actors : row2[a] = row[a]
  BY <1>2 DEF Extended
<1>4. StatesDone(actors, more, row2)
  <2>1. ASSUME NEW a \in DOMAIN more, a \notin DOMAIN actors \/ more[a] # actors[a]
        PROVE  /\ more[a].beh \in Kinds
               /\ StateOK(more, row2, a, more[a].beh, more[a].mine)
               /\ Keeps(more, a) = {}
    BY <1>1, <1>2, <1>3, <2>1, SameStates
  <2> QED
    BY <2>1 DEF StatesDone
<1>5. PICK sent : sent = <<m>>
  OBVIOUS
<1>6. IsSeq(sent) /\ DOMAIN sent = {1} /\ sent[1] = m
  BY <1>5, OneSent
<1>7. Newly(actors, more) = {}
  BY <1>2 DEF Newly
<1>8. PICK rights : rights = {k} \ {a_sink}
  OBVIOUS
<1>9. Handed(more, row2, sent, {}, rights)
  BY <1>6, <1>8 DEF Fits, Handed
<1>10. PassedOn(more, row2, sent, {}, rights)
  BY <1>6, <1>8 DEF Fits, PassedOn
<1>12. RowsDone(actors, more, row2, sent, {})
  <2>1. more[k].beh \notin MapBehs
    <3>1. AnyCust(more, k)
      BY <1>1, <1>2, Still
    <3>2. more[a_sink].beh = "sink_beh"
      <4>1. a_sink \in DOMAIN actors /\ actors[a_sink].beh = "sink_beh"
        BY <1>1, Running DEF Settled
      <4>2. Turned(actors[a_sink], more[a_sink])
        BY <1>2, <4>1, AllTurned
      <4> QED
        BY <4>1, <4>2 DEF Turned, Mutable, Turning, JoinBehs, MapBehs, HeadBehs
    <3> QED
      BY <3>1, <3>2, CustNoMap
  <2> QED
    BY <1>2, <1>6, <2>1 DEF Fits, RowsDone
<1>13. \A i \in DOMAIN sent : MessageOK(more, row2, sent[i])
  BY <1>6 DEF Fits
<1>14. Handle(more, sent, tokens) /\ rights = Dues(row) \cup {}
  BY <1>1, <1>5, <1>8
<1>15. Plainly(open, row, more, row2, sent, tokens, {}, rights)
  BY <1>1, <1>2, <1>3, <1>4, <1>6, <1>7, <1>9, <1>10, <1>12, <1>13, <1>14 DEF Plainly
<1> QED
  BY <1>14, <1>15, PlainStep

(* A failure is reported.                                                  *)
LEMMA Fails ==
  ASSUME NEW open, NEW row, Runs(open, row), actors[SELF].beh \notin Unplain,
         NEW base, Same(base), NEW more, more = base \o <<Actor("throw_beh", NIL)>>,
         Handle(more, <<Message(New(1), Value(NIL))>>, << >>)
  PROVE  Onward
<1>1. IsSeq(actors) /\ SELF \in DOMAIN actors /\ DOMAIN actors = 1 .. Len(actors) /\ Len(actors) \in Nat
  BY Running, LengthIs
<1>2. /\ Grown(actors, SELF, base) /\ base[SELF].beh = actors[SELF].beh
      /\ DOMAIN base = DOMAIN actors /\ IsSeq(base)
  BY DEF Same, Grown
<1>3. Len(base) = Len(actors)
  BY <1>1, <1>2, LengthIs
<1>4. PICK new : new = <<Actor("throw_beh", NIL)>>
  OBVIOUS
<1>5. IsSeq(new) /\ Len(new) = 1 /\ new[1] = Actor("throw_beh", NIL)
  BY <1>4, OneSent
<1>6. PICK n : n = New(1)
  OBVIOUS
<1>7. /\ IsSeq(more) /\ DOMAIN more = 1 .. Len(actors) + 1 /\ n = Len(actors) + 1
      /\ \A a \in DOMAIN actors : more[a] = base[a]
      /\ more[n] = Actor("throw_beh", NIL)
  <2>1. more = base \o new
    BY <1>4
  <2>2. IsSeq(more) /\ DOMAIN more = 1 .. Len(base) + Len(new)
    BY <1>2, <1>5, <2>1, ConcatenatedAt
  <2>4. \A a \in 1 .. Len(base) : more[a] = base[a]
    BY <1>2, <1>5, <2>1, ConcatenatedAt
  <2>5. \A a \in Len(base) + 1 .. Len(base) + Len(new) : more[a] = new[a - Len(base)]
    BY <1>2, <1>5, <2>1, ConcatenatedAt
  <2>3. n \in Len(base) + 1 .. Len(base) + Len(new) /\ n - Len(base) = 1
    BY <1>1, <1>3, <1>5, <1>6 DEF New
  <2> QED
    BY <1>1, <1>3, <1>5, <1>6, <2>2, <2>3, <2>4, <2>5 DEF New
<1>8. n \in DOMAIN more /\ n \notin DOMAIN actors /\ more[n].beh = "throw_beh" /\ more[n].mine = NIL
  BY <1>1, <1>7 DEF Actor
<1>9. \A a \in DOMAIN more : a \notin DOMAIN actors => a = n
  BY <1>1, <1>7
<1>10. Grown(actors, SELF, more) /\ more[SELF].beh = actors[SELF].beh
  BY <1>1, <1>2, <1>7 DEF Grown
<1>11. PICK row2 : row2 = Extended(row, actors, more)
  OBVIOUS
<1>12. (\A a \in DOMAIN actors : row2[a] = row[a]) /\ row2[n] = n
  <2>1. \A a \in DOMAIN more : row2[a] = IF a \in DOMAIN actors THEN row[a] ELSE a
    BY <1>11 DEF Extended
  <2>2. DOMAIN actors \subseteq DOMAIN more
    BY <1>10 DEF Grown
  <2> QED
    BY <1>8, <2>1, <2>2
<1>13. Keeps(more, n) = {}
  BY <1>8 DEF Keeps, Direct, Rest, WithCust, PairBehs, PlainArgsBehs, BrandBehs, JoinBehs
<1>14. "throw_beh" \in OpenBehs /\ "throw_beh" \in Kinds /\ "throw_beh" \in PlainCusts /\ "throw_beh" \in ValueBehs
  BY DEF OpenBehs, ValueBehs, Kinds, PlainCusts
<1>15. StateOK(more, row2, n, "throw_beh", NIL)
  <2>1. CustomerOK(more, "throw_beh", NIL)
    BY DEF CustomerOK, WithCust, PairBehs, PlainArgsBehs, BrandBehs
  <2> QED
    BY <1>12, <1>14, <2>1, CustomerState
<1>16. StatesDone(actors, more, row2)
  <2>1. ASSUME NEW a \in DOMAIN more, a \notin DOMAIN actors \/ more[a] # actors[a]
        PROVE  /\ more[a].beh \in Kinds
               /\ StateOK(more, row2, a, more[a].beh, more[a].mine)
               /\ Keeps(more, a) = {}
    <3>1. CASE a = n
      BY <1>8, <1>13, <1>14, <1>15, <3>1
    <3>2. CASE a # n
      <4>1. a \in DOMAIN actors /\ more[a] = base[a] /\ base[a] # actors[a] /\ row2[a] = row[a]
        BY <1>7, <1>9, <1>12, <2>1, <3>2
      <4> QED
        BY <1>10, <4>1, SameStates
    <3> QED
      BY <3>1, <3>2
  <2> QED
    BY <2>1 DEF StatesDone
<1>17. PICK m : m = Message(n, Value(NIL))
  OBVIOUS
<1>18. PICK sent : sent = <<m>>
  OBVIOUS
<1>19. IsSeq(sent) /\ DOMAIN sent = {1} /\ sent[1] = m
  BY <1>18, OneSent
<1>20. MessageOK(more, row2, m) /\ Held(more, row2, m) = {n}
  <2>1. AnyCust(more, n) /\ Suits(more, n, NIL)
    BY <1>8, <1>14 DEF AnyCust, WaitsForCopy, IsIn, IsValue, Suits
  <2>2. a_sink \in DOMAIN actors /\ actors[a_sink].beh = "sink_beh"
    BY Running DEF Settled
  <2>3. Turned(actors[a_sink], more[a_sink])
    BY <1>10, <2>2, AllTurned
  <2>4. a_sink \in DOMAIN more /\ more[a_sink].beh = "sink_beh" /\ n # a_sink
    BY <1>8, <1>10, <2>2, <2>3 DEF Grown, Turned, Mutable, Turning, JoinBehs, MapBehs, HeadBehs
  <2>5. Fits(more, row2, m, n)
    <3>1. Sinks(more) /\ Itself(row2, n)
      BY <1>12, <2>4 DEF Sinks, Itself
    <3>2. AnyCust(more, n) /\ Suits(more, n, NIL)
      BY <2>1
    <3> QED
      BY <1>17, <3>1, <3>2, ReplyFits
  <2> QED
    BY <2>4, <2>5 DEF Fits
<1>21. Newly(actors, more) = {n}
  BY <1>8, <1>9, <1>14 DEF Newly
<1>22. PICK rights : rights = Dues(row) \cup {n}
  OBVIOUS
<1>23. Handed(more, row2, sent, {n}, rights)
  BY <1>13, <1>19, <1>20, <1>22 DEF Handed
<1>24. PassedOn(more, row2, sent, {n}, rights)
  BY <1>8 DEF PassedOn
<1>25. \A a \in DOMAIN more : a \notin DOMAIN actors => more[a].beh \notin {"tag_beh", "map_pair_beh"} \cup JoinBehs
  BY <1>8, <1>9 DEF JoinBehs
<1>26. RowsDone(actors, more, row2, sent, {n})
  BY <1>8, <1>13, <1>19, <1>20, <1>25 DEF RowsDone, MapBehs
<1>27. m.to = n
  BY <1>17 DEF Message
<1>28. Handle(more, sent, << >>) /\ IsSeq(<< >>)
  BY <1>6, <1>17, <1>18, OneSent
<1>29. /\ \A i \in DOMAIN sent : MessageOK(more, row2, sent[i])
       /\ \A a \in DOMAIN more :
            a \notin DOMAIN actors /\ more[a].beh = "throw_beh" =>
              \E i \in DOMAIN sent : sent[i].to \in DOMAIN more /\ more[sent[i].to].beh = "throw_beh"
  BY <1>8, <1>19, <1>20, <1>27
<1>30. Plainly(open, row, more, row2, sent, << >>, {n}, rights)
  BY <1>10, <1>11, <1>16, <1>19, <1>21, <1>22, <1>23, <1>24, <1>25, <1>26, <1>28, <1>29 DEF Plainly
<1> QED
  BY <1>28, <1>30, PlainStep

(* A failure: the customer will never be answered.                         *)
LEMMA Throws == ASSUME NEW open, NEW row, Runs(open, row), actors[SELF].beh \notin Unplain, Throw PROVE Onward
<1>1. Handle(actors \o <<Actor("throw_beh", NIL)>>, <<Message(New(1), Value(NIL))>>, << >>)
  BY DEF Throw, React
<1> QED
  BY <1>1, Fails, SameSelf

(* Nobody is to be answered, and nothing is done.                          *)
LEMMA Ignores ==
  ASSUME NEW open, NEW row, Runs(open, row), actors[SELF].beh \notin Unplain, Dues(row) = {},
         NEW tokens, IsSeq(tokens), Handle(actors, << >>, tokens)
  PROVE  Onward
<1>1. PICK sent : sent = << >>
  OBVIOUS
<1>2. IsSeq(sent) /\ DOMAIN sent = {}
  BY <1>1, OneSent
<1>3. Grown(actors, SELF, actors)
  BY SameSelf DEF Same
<1>4. PICK row2 : row2 = Extended(row, actors, actors)
  OBVIOUS
<1>5. StatesDone(actors, actors, row2)
  BY DEF StatesDone
<1>6. Newly(actors, actors) = {}
  BY DEF Newly
<1>7. Handed(actors, row2, sent, {}, {})
  BY <1>2 DEF Handed
<1>8. PassedOn(actors, row2, sent, {}, {})
  BY DEF PassedOn
<1>9. RowsDone(actors, actors, row2, sent, {})
  BY <1>2 DEF RowsDone
<1>10. Plainly(open, row, actors, row2, sent, tokens, {}, {})
  BY <1>2, <1>3, <1>4, <1>5, <1>6, <1>7, <1>8, <1>9 DEF Plainly
<1> QED
  BY <1>1, <1>10, PlainStep

-----------------------------------------------------------------------------
(* Whom behaviours answer.                                                 *)
LEMMA Handles ==
  ASSUME NEW open, NEW row, Runs(open, row)
  PROVE  /\ SentOK(actors, row, SELF, WHAT)
         /\ StateOK(actors, row, SELF, actors[SELF].beh, MINE)
         /\ \A k \in Keeps(actors, SELF) : k < SELF \/ actors[SELF].beh \in MapBehs
         /\ Dues(row) = (Held(actors, row, queue[1]) \cup Keeps(actors, SELF)) \ {SELF}
         /\ queue[1].what = WHAT /\ queue[1].to = SELF
<1>1. /\ Orderly(actors, queue, turns, out, aborted, open, row)
      /\ 1 \in DOMAIN queue
      /\ SELF = queue[1].to /\ WHAT = queue[1].what /\ SELF \in DOMAIN actors
      /\ StatesOK(actors, row)
  BY Running
<1>2. SentOK(actors, row, SELF, WHAT)
  BY <1>1, Taking
<1> QED
  BY <1>1, <1>2 DEF StatesOK, Dues, InHand, MINE

LEMMA DueObject ==
  ASSUME NEW open, NEW row, Runs(open, row), actors[SELF].beh \in ObjectBehs
  PROVE  /\ RequestOK(actors, SELF, WHAT)
         /\ ObjectOK(actors, actors[SELF].beh, MINE)
         /\ WHAT.op \notin {"as_pair", "unwrap"} => Due(open, row, WHAT.cust)
         /\ WHAT.op \notin {"as_pair", "unwrap", "copy_immutable"} => Cust(actors, WHAT.cust)
<1>1. RequestOK(actors, SELF, WHAT)
  BY Handles DEF SentOK
<1>2. ObjectOK(actors, actors[SELF].beh, MINE)
  BY Handles DEF StateOK
<1>3. ASSUME WHAT.op \notin {"as_pair", "unwrap"}
      PROVE  Due(open, row, WHAT.cust)
  <2>1. AnyCust(actors, WHAT.cust)
    BY <1>1, <1>3 DEF RequestOK, CustOK, Cust
  <2>2. WHAT.cust \in DOMAIN actors /\ actors[WHAT.cust].beh \in ValueBehs \cup {"sink_beh"}
    BY <2>1, Running DEF AnyCust, IsIn, Settled
  <2>3. row[WHAT.cust] = WHAT.cust
    BY <2>2, RowOfSame DEF ValueBehs, HeadBehs
  <2>4. WHAT.op \in Requests /\ WHAT.op # "tagged"
    BY <1>1 DEF RequestOK, Requests
  <2>5. Held(actors, row, queue[1]) = {WHAT.cust} \ {a_sink}
    BY <2>3, <2>4, Handles DEF Held, Answers, Serves
  <2>6. Keeps(actors, SELF) = {}
    <3>1. PICK a, b, s : a = SELF /\ b = actors[SELF].beh /\ s = MINE
      OBVIOUS
    <3>2. row[a] = a
      BY <3>1, RowOfSame, Running DEF ObjectBehs, Immutable, Mutable, HeadBehs
    <3>3. b \in ObjectBehs /\ ObjectOK(actors, b, s)
      BY <1>2, <3>1
    <3> QED
      BY <3>1, <3>2, <3>3, ObjectState
  <2>7. actors[SELF].beh \notin ValueBehs \cup {"sink_beh"} \cup Unplain
    BY DEF ObjectBehs, Immutable, Mutable, ValueBehs, Unplain, JoinBehs
  <2>8. WHAT.cust # SELF
    BY <2>2, <2>7
  <2>9. Dues(row) = {WHAT.cust} \ {a_sink}
    BY <2>5, <2>6, <2>8, Handles
  <2> QED
    BY <2>1, <2>7, <2>9 DEF Due
<1>4. WHAT.op \notin {"as_pair", "unwrap", "copy_immutable"} => Cust(actors, WHAT.cust)
  BY <1>1 DEF RequestOK, CustOK
<1> QED
  BY <1>1, <1>2, <1>3, <1>4

(* What customers are sent.                                                *)
Waiting == PlainCusts \cup {"map_unwrap_beh", "map_comb_beh"}

LEMMA NoneServed ==
  ASSUME NEW open, NEW row, Runs(open, row), actors[SELF].beh \in Waiting
  PROVE  /\ Held(actors, row, queue[1]) = {SELF}
         /\ actors[SELF].beh \notin ObjectBehs \cup {"sink_beh", "fork_beh", "tag_beh"} \cup JoinBehs
<1>1. actors[SELF].beh \notin ObjectBehs \cup {"sink_beh", "fork_beh", "tag_beh"} \cup JoinBehs \cup HeadBehs \cup {"map_next_beh"}
  BY DEF Waiting, PlainCusts, ObjectBehs, Immutable, Mutable, PlainArgsBehs, BrandBehs, PairBehs, BothBehs, JoinBehs, HeadBehs,
     ValueBehs, ArgsBehs
<1>2. actors[SELF].beh \in ValueBehs \cup ArgsBehs \cup PairBehs \cup BothBehs \cup {"map_unwrap_beh", "map_comb_beh"}
  BY DEF Waiting, PlainCusts
<1>3. WHAT.op \in {"value", "args", "FALSE", "pair"}
  BY <1>2, Handles DEF SentOK, ValueOK, ArgsOK, FixedPair, NoPair, PairOK, BothBehs
<1>4. WHAT.op \notin Requests \cup {"heads", "tagged"}
  BY <1>3 DEF Requests
<1>5. row[SELF] = SELF /\ SELF \in DOMAIN actors
  BY <1>1, RowOfSame, Running
<1> QED
  BY <1>1, <1>4, <1>5, Handles DEF Held, Answers, Serves

LEMMA DueCustomer ==
  ASSUME NEW open, NEW row, Runs(open, row), actors[SELF].beh \in Waiting \ {"report_beh", "throw_beh"},
         NEW k, Direct(actors[SELF].beh, MINE) = {k}, AnyCust(actors, k)
  PROVE  Due(open, row, k)
<1>1. Held(actors, row, queue[1]) = {SELF}
  BY NoneServed
<1>2. actors[SELF].beh \notin Unplain
  BY NoneServed DEF Unplain
<1>3. Keeps(actors, SELF) = {k} \ {a_sink}
  BY NoneServed DEF Keeps, Rest, MINE
<1>4. k # a_sink => k # SELF
  <2>1. CASE actors[SELF].beh \in MapBehs
    BY <2>1, Running, CustNoMap DEF Settled
  <2>2. CASE actors[SELF].beh \notin MapBehs
    <3>1. SELF \in Nat
      BY Running, LengthIs
    <3> QED
      BY <1>3, <2>2, <3>1, Handles
  <2> QED
    BY <2>1, <2>2
<1>5. Dues(row) = {k} \ {a_sink}
  BY <1>1, <1>3, <1>4, Handles
<1> QED
  BY <1>2, <1>5 DEF Due

LEMMA DueCust ==
  ASSUME NEW open, NEW row, Runs(open, row), actors[SELF].beh \in WithCust
  PROVE  /\ Due(open, row, MINE.cust) /\ Cust(actors, MINE.cust)
         /\ CustomerOK(actors, actors[SELF].beh, MINE)
<1>1. CustomerOK(actors, actors[SELF].beh, MINE)
  BY Handles DEF StateOK
<1>2. Cust(actors, MINE.cust)
  BY <1>1 DEF CustomerOK
<1>3. Direct(actors[SELF].beh, MINE) = {MINE.cust}
  <2>1. actors[SELF].beh \notin {"dotted_close_beh", "pair_copy_beh", "pair_map_beh", "pair_foldl_beh"}
    BY DEF WithCust, PairBehs, PlainArgsBehs, BrandBehs
  <2> QED
    BY <2>1 DEF Direct
<1>4. actors[SELF].beh \in Waiting \ {"report_beh", "throw_beh"}
  BY DEF WithCust, Waiting, PlainCusts, ValueBehs, PlainArgsBehs, BrandBehs, PairBehs, ArgsBehs
<1> QED
  BY <1>1, <1>2, <1>3, <1>4, DueCustomer DEF Cust

-----------------------------------------------------------------------------
(* Values and requests.                                                    *)
LEMMA ConstantsAre ==
  ASSUME NEW open, NEW row, Runs(open, row)
  PROVE  /\ \A v \in 2 .. 6 : IsFixed(actors, v)
         /\ \A b : IsFixed(actors, Boolean(b))
         /\ IsFixed(actors, a_nil) /\ IsFixed(actors, a_inert) /\ IsFixed(actors, a_true) /\ IsFixed(actors, a_false)
         /\ IsFixed(actors, NIL) /\ IsFixed(actors, NotActor)
         /\ \A v : IsFixed(actors, v) => IsValue(actors, v)
<1>1. /\ IsSeq(actors) /\ Len(actors) >= 6
      /\ \A a \in 2 .. 6 : actors[a].beh \in {"unit_type", "null_type", "any_type", "bool_type"}
  BY Running DEF Orderly, Shape
<1>2. DOMAIN actors = 1 .. Len(actors) /\ Len(actors) \in Nat
  BY <1>1, LengthIs
<1>3. ASSUME NEW v \in 2 .. 6
      PROVE  IsFixed(actors, v)
  BY <1>1, <1>2 DEF IsFixed, IsValue, IsIn, ObjectBehs, Immutable
<1>4. IsFixed(actors, NIL) /\ IsFixed(actors, NotActor)
  BY <1>2 DEF IsFixed, IsValue, IsIn, NIL, NotActor
<1> QED
  BY <1>3, <1>4 DEF Boolean, a_nil, a_inert, a_true, a_false, IsFixed

LEMMA CustSuits ==
  ASSUME NEW all, NEW k, NEW v
  PROVE  /\ Cust(all, k) /\ IsValue(all, v) => AnyCust(all, k) /\ Suits(all, k, v)
         /\ IsFixed(all, v) => Suits(all, k, v)
BY DEF Cust, Suits, IsFixed

LEMMA NoBrand ==
  ASSUME NEW all, IsSeq(all), NEW x, IsValue(all, x)
  PROVE  ~IsIn(all, {"brand_type"}, x)
<1>1. NIL \notin DOMAIN all /\ NotActor \notin DOMAIN all
  BY LengthIs DEF NIL, NotActor
<1> QED
  BY <1>1 DEF IsValue, IsIn

(* Requests to objects, for customers who may be sent any value.           *)
LEMMA RequestsAre ==
  ASSUME NEW all, IsSeq(all), NEW x, IsValue(all, x), NEW k, Cust(all, k), NEW env, IsValue(all, env)
  PROVE  /\ RequestOK(all, x, Eval(k, env))
         /\ \A v : IsValue(all, v) => RequestOK(all, x, Comb(k, v, env))
         /\ RequestOK(all, x, Map(k, Eval(NIL, env)))
         /\ IsValue(all, a_inert) => RequestOK(all, x, InOrder(k, env))
<1>1. ~IsIn(all, {"brand_type"}, x)
  BY NoBrand
<1>2. Cust(all, Eval(k, env).cust) /\ Eval(k, env).op = "eval" /\ EvalOf(all, Eval(k, env), k)
  BY DEF Eval, EvalOf
<1>3. RequestOK(all, x, Eval(k, env))
  BY <1>1, <1>2 DEF RequestOK, Requests, CustOK, Eval
<1>4. ASSUME NEW v, IsValue(all, v)
      PROVE  RequestOK(all, x, Comb(k, v, env))
  <2>1. CombOf(all, Comb(k, v, env), k)
    BY <1>4 DEF CombOf, Comb
  <2> QED
    BY <1>1, <2>1 DEF RequestOK, Requests, CustOK, Comb
<1>5. EvalOf(all, Eval(NIL, env), NIL)
  BY DEF EvalOf, Eval
<1>6. RequestOK(all, x, Map(k, Eval(NIL, env)))
  <2>1. MapOf(all, Map(k, Eval(NIL, env)), k)
    BY <1>5 DEF MapOf, Map
  <2> QED
    BY <1>1, <2>1 DEF RequestOK, Requests, CustOK, Map
<1>7. ASSUME IsValue(all, a_inert)
      PROVE  RequestOK(all, x, InOrder(k, env))
  <2>1. FoldlOf(all, InOrder(k, env), k)
    BY <1>5, <1>7 DEF FoldlOf, InOrder, Foldl
  <2> QED
    BY <1>1, <2>1 DEF RequestOK, Requests, CustOK, InOrder, Foldl
<1> QED
  BY <1>3, <1>4, <1>6, <1>7

LEMMA OthersAre ==
  ASSUME NEW all, IsSeq(all), NEW x, IsValue(all, x), NEW k, Cust(all, k)
  PROVE  /\ RequestOK(all, x, Request("write", k))
         /\ \A p : RequestOK(all, x, WriteTail(k, p))
         /\ \A key : RequestOK(all, x, [op |-> "lookup", cust |-> k, key |-> key])
         /\ \A v : IsValue(all, v) => RequestOK(all, x, [op |-> "set_car", cust |-> k, val |-> v])
         /\ \A v : IsValue(all, v) => RequestOK(all, x, [op |-> "set_cdr", cust |-> k, val |-> v])
         /\ \A brand : RequestOK(all, x, [op |-> "unseal", cust |-> k, brand |-> brand])
<1>1. ~IsIn(all, {"brand_type"}, x)
  BY NoBrand
<1> QED
  BY <1>1 DEF RequestOK, Requests, CustOK, Request, WriteTail

LEMMA CopyIs ==
  ASSUME NEW all, IsSeq(all), NEW x, IsValue(all, x), NEW k, AnyCust(all, k)
  PROVE  RequestOK(all, x, Request("copy_immutable", k))
<1>1. ~IsIn(all, {"brand_type"}, x)
  BY NoBrand
<1> QED
  BY <1>1 DEF RequestOK, Requests, CustOK, Request

-----------------------------------------------------------------------------
(* What behaviours do.                                                     *)
LEMMA Sending ==
  ASSUME NEW open, NEW row, NEW k, Due(open, row, k), NEW x, NEW w, Send(x, w),
         \A row2 : Itself(row2, k) => Fits(actors, row2, Message(x, w), k)
  PROVE  Onward
<1>1. Runs(open, row) /\ AnyCust(actors, k)
  BY DEF Due
<1>2. Handle(actors, <<Message(x, w)>>, << >>)
  <2>1. actors \o << >> = actors
    BY <1>1, Running, Nothing
  <2> QED
    BY <2>1 DEF Send, React
<1>3. PICK row2 : row2 = Extended(row, actors, actors)
  OBVIOUS
<1>4. Itself(row2, k)
  <2>1. k \in DOMAIN actors /\ actors[k].beh \in ValueBehs \cup {"sink_beh"}
    BY <1>1, Running DEF AnyCust, IsIn, Settled
  <2>2. row[k] = k
    BY <1>1, <2>1, RowOfSame DEF ValueBehs, HeadBehs
  <2> QED
    BY <1>3, <2>1, <2>2 DEF Itself, Extended
<1>5. Fits(actors, row2, Message(x, w), k)
  BY <1>4
<1>6. Same(actors)
  BY <1>1, SameSelf
<1> QED
  BY <1>2, <1>3, <1>5, <1>6, Changes, OneSent

(* An object sends a request on for its customer.                          *)
LEMMA Sends ==
  ASSUME NEW open, NEW row, NEW k, Due(open, row, k), NEW x, IsValue(actors, x) \/ IsIn(actors, {"brand_type"}, x),
         NEW w, RequestOK(actors, x, w), w.cust = k, Send(x, w)
  PROVE  Onward
<1>1. IsSeq(actors)
  BY Running DEF Due
<1>2. ASSUME NEW row2, Itself(row2, k)
      PROVE  Fits(actors, row2, Message(x, w), k)
  <2>1. Fits(actors, row2, Message(x, w), row2[w.cust])
    BY <1>1, RequestFits
  <2> QED
    BY <1>2, <2>1 DEF Itself
<1> QED
  BY <1>2, Sending

(* A customer is answered.                                                 *)
LEMMA Replies ==
  ASSUME NEW open, NEW row, NEW k, Due(open, row, k), NEW v, Suits(actors, k, v), Send(k, Value(v))
  PROVE  Onward
<1>1. Sinks(actors) /\ AnyCust(actors, k)
  BY Running DEF Due, Settled, Sinks
<1>2. ASSUME NEW row2, Itself(row2, k)
      PROVE  Fits(actors, row2, Message(k, Value(v)), k)
  BY <1>1, <1>2, ReplyFits
<1> QED
  BY <1>2, Sending

LEMMA RepliesAre ==
  ASSUME NEW open, NEW row, NEW k, Due(open, row, k), Cust(actors, k), NEW v, IsValue(actors, v), Send(k, Value(v))
  PROVE  Onward
<1>1. Suits(actors, k, v)
  BY CustSuits
<1> QED
  BY <1>1, Replies

LEMMA BothKept ==
  ASSUME NEW open, NEW row, NEW k, Due(open, row, k), NEW more, Grown(actors, SELF, more)
  PROVE  /\ AnyCust(more, k) /\ (Cust(actors, k) => Cust(more, k)) /\ Sinks(more)
         /\ \A v : IsValue(actors, v) => IsValue(more, v)
         /\ \A v : IsFixed(actors, v) => IsFixed(more, v)
<1>1. Runs(open, row) /\ AnyCust(actors, k)
  BY DEF Due
<1>2. a_sink \in DOMAIN actors /\ actors[a_sink].beh = "sink_beh"
  BY <1>1, Running DEF Settled
<1>3. Turned(actors[a_sink], more[a_sink])
  BY <1>2, AllTurned
<1>4. Sinks(more)
  BY <1>2, <1>3 DEF Sinks, Grown, Turned, Mutable, Turning, JoinBehs, MapBehs, HeadBehs
<1> QED
  BY <1>1, <1>4, Still

LEMMA DueItself ==
  ASSUME NEW open, NEW row, NEW k, Due(open, row, k), NEW more, Grown(actors, SELF, more),
         NEW row2, row2 = Extended(row, actors, more)
  PROVE  Itself(row2, k)
<1>1. Runs(open, row) /\ AnyCust(actors, k)
  BY DEF Due
<1>2. k \in DOMAIN actors /\ actors[k].beh \in ValueBehs \cup {"sink_beh"}
  BY <1>1, Running DEF AnyCust, IsIn, Settled
<1>3. row[k] = k
  BY <1>1, <1>2, RowOfSame DEF ValueBehs, HeadBehs
<1> QED
  BY <1>2, <1>3 DEF Itself, Extended, Grown

(* A text is written, and the customer answered or asked.                  *)
LEMMA Puts ==
  ASSUME NEW open, NEW row, NEW k, Due(open, row, k), NEW text, Put(text, << >>, k)
  PROVE  Onward
<1>1. Runs(open, row) /\ AnyCust(actors, k)
  BY DEF Due
<1>2. PICK ok, tokens : Handle(actors, <<Message(k, Value(Boolean(ok)))>>, tokens) /\ IsSeq(tokens)
  <2>1. actors \o << >> = actors
    BY <1>1, Running, Nothing
  <2>2. PICK ok : Handle(actors \o << >>, <<Message(k, Value(Boolean(ok)))>>, IF ok THEN <<text>> ELSE << >>)
    BY DEF Put
  <2>3. IsSeq(IF ok THEN <<text>> ELSE << >>)
    BY SeqsAre
  <2> QED
    BY <2>1, <2>2, <2>3
<1>3. PICK row2 : row2 = Extended(row, actors, actors)
  OBVIOUS
<1>4. Same(actors)
  BY <1>1, SameSelf
<1>5. Itself(row2, k) /\ Sinks(actors)
  BY <1>3, <1>4, DueItself, BothKept DEF Same
<1>6. Suits(actors, k, Boolean(ok))
  BY <1>1, ConstantsAre, CustSuits
<1>7. PICK m : m = Message(k, Value(Boolean(ok)))
  OBVIOUS
<1>8. Fits(actors, row2, m, k)
  BY <1>1, <1>5, <1>6, <1>7, ReplyFits
<1> QED
  BY <1>2, <1>3, <1>4, <1>7, <1>8, Changes

(* One new object is answered.                                             *)
Made1(k, b, s) ==
  b \in ObjectBehs \ {"brand_type"} /\ ObjectOK(actors, b, s) /\ (b = "cons_type" => Cust(actors, k))

(* An object is made and the customer answered with it.                    *)
LEMMA Makes ==
  ASSUME NEW open, NEW row, NEW k, Due(open, row, k), NEW b, NEW s, Made1(k, b, s), Answer(k, b, s)
  PROVE  Onward
<1>1. Runs(open, row) /\ AnyCust(actors, k)
  BY DEF Due
<1>2. PICK new : new = <<Actor(b, s)>>
  OBVIOUS
<1>3. IsSeq(new) /\ DOMAIN new = {1} /\ new[1] = Actor(b, s) /\ IsSeq(<< >>)
  BY <1>2, OneSent
<1>4. PICK more : more = actors \o new
  OBVIOUS
<1>5. PICK row2 : row2 = Extended(row, actors, more)
  OBVIOUS
<1>6. Adds(row, new, more, row2)
  BY <1>1, <1>3, <1>4, <1>5, Adding
<1>7. Grown(actors, SELF, more) /\ New(1) \in DOMAIN more /\ more[New(1)] = Actor(b, s)
  BY <1>3, <1>6 DEF Adds
<1>8. new[1].beh = b /\ new[1].mine = s /\ more[New(1)].beh = b
  BY <1>3, <1>7 DEF Actor
<1>9. ObjectOK(more, b, s) /\ b \in ObjectBehs
  BY <1>1, <1>7, ObjectStays DEF Made1
<1>10. Suits(more, k, New(1))
  <2>1. IsValue(more, New(1))
    BY <1>7, <1>8 DEF Made1, IsValue, IsIn
  <2>2. b # "cons_type" => IsFixed(more, New(1))
    BY <1>8, <2>1 DEF IsFixed, IsIn
  <2>3. b = "cons_type" => ~WaitsForCopy(more, k)
    BY <1>7, BothKept DEF Made1, Cust
  <2> QED
    BY <2>1, <2>2, <2>3 DEF Suits
<1>11. PICK m : m = Message(k, Value(New(1)))
  OBVIOUS
<1>12. Fits(more, row2, m, k)
  <2>1. Itself(row2, k)
    BY <1>5, <1>7, DueItself
  <2>2. Sinks(more) /\ AnyCust(more, k)
    BY <1>7, BothKept
  <2> QED
    BY <1>10, <1>11, <2>1, <2>2, ReplyFits
<1>13. Handle(more, <<m>>, << >>)
  BY <1>2, <1>4, <1>11 DEF Answer, React
<1>14. \A i \in DOMAIN new : new[i].beh \in ObjectBehs /\ ObjectOK(more, new[i].beh, new[i].mine)
  BY <1>3, <1>8, <1>9
<1> QED
  BY <1>3, <1>4, <1>5, <1>12, <1>13, <1>14, Tells

-----------------------------------------------------------------------------
(* A new customer waits for an answer.                                     *)
Asker(k, b, s) ==
  b \in PlainCusts \ {"throw_beh"} /\ CustomerOK(actors, b, s) /\ Direct(b, s) = {k}

(* A new customer will answer the old one.                                 *)
LEMMA Asking ==
  ASSUME NEW open, NEW row, NEW k, Due(open, row, k), NEW b, NEW s, Asker(k, b, s), NEW m, NEW tokens, IsSeq(tokens),
         Handle(actors \o <<Actor(b, s)>>, <<m>>, tokens),
         b \in MapBehs => m.to = New(1) /\ m.what.op # "as_pair",
         \A more, row2 : Adds(row, <<Actor(b, s)>>, more, row2) => Fits(more, row2, m, New(1))
  PROVE  Onward
<1>1. Runs(open, row) /\ AnyCust(actors, k)
  BY DEF Due
<1>2. PICK new : new = <<Actor(b, s)>>
  OBVIOUS
<1>3. IsSeq(new) /\ DOMAIN new = {1} /\ new[1] = Actor(b, s) /\ Len(new) = 1
  BY <1>2, OneSent
<1>4. PICK more : more = actors \o new
  OBVIOUS
<1>5. PICK row2 : row2 = Extended(row, actors, more)
  OBVIOUS
<1>6. Adds(row, new, more, row2)
  BY <1>1, <1>3, <1>4, <1>5, Adding
<1>7. /\ Grown(actors, SELF, more) /\ New(1) \in DOMAIN more /\ more[New(1)] = Actor(b, s)
      /\ row2[New(1)] = New(1) /\ New(1) \notin DOMAIN actors
  BY <1>3, <1>6 DEF Adds
<1>8. new[1].beh = b /\ new[1].mine = s /\ more[New(1)].beh = b /\ more[New(1)].mine = s
  BY <1>3, <1>7 DEF Actor
<1>9. b \in PlainCusts \ {"throw_beh"} /\ CustomerOK(more, b, s)
  BY <1>1, <1>7, CustomerStays DEF Asker
<1>10. StateOK(more, row2, New(1), b, s) /\ b \in OpenBehs
  BY <1>7, <1>9, CustomerState
<1>11. b \notin JoinBehs \cup {"tag_beh", "fork_beh", "throw_beh"}
  BY <1>9 DEF PlainCusts, PlainArgsBehs, BrandBehs, PairBehs, BothBehs, JoinBehs, ValueBehs, ArgsBehs
<1>12. Keeps(more, New(1)) = {k} \ {a_sink}
  BY <1>8, <1>11 DEF Keeps, Rest, Asker
<1>13. Fits(more, row2, m, New(1))
  BY <1>2, <1>6
<1>14. New(1) # a_sink
  BY <1>1, <1>7, Running DEF Settled
<1>15. MessageOK(more, row2, m) /\ Held(more, row2, m) = {New(1)}
  BY <1>13, <1>14 DEF Fits
<1>16. Chained(k, new, more, row2, 1, m)
  BY <1>3, <1>8, <1>10, <1>11, <1>12, <1>15 DEF Chained
<1>17. Handle(more, <<m>>, tokens)
  BY <1>2, <1>4
<1> QED
  BY <1>3, <1>4, <1>5, <1>16, <1>17, Entrusts

(* ... from an object.                                                     *)
AskedFor(x, w, b, s) ==
  \A more : Grown(actors, SELF, more) /\ New(1) \in DOMAIN more /\ more[New(1)] = Actor(b, s) /\ Sinks(more)
    => IsValue(more, x) /\ RequestOK(more, x, w) /\ w.cust = New(1)

(* An object is asked for a new customer.                                  *)
LEMMA AsksFor ==
  ASSUME NEW open, NEW row, NEW k, Due(open, row, k), NEW b, NEW s, Asker(k, b, s), b \in ValueBehs \cup PairBehs,
         NEW tokens, IsSeq(tokens), NEW x, NEW w, AskedFor(x, w, b, s),
         Handle(actors \o <<Actor(b, s)>>, <<Message(x, w)>>, tokens)
  PROVE  Onward
<1>1. b \notin MapBehs
  BY DEF ValueBehs, PairBehs, MapBehs
<1>2. ASSUME NEW more, NEW row2, Adds(row, <<Actor(b, s)>>, more, row2)
      PROVE  Fits(more, row2, Message(x, w), New(1))
  <2>1. PICK new : new = <<Actor(b, s)>>
    OBVIOUS
  <2>2. DOMAIN new = {1} /\ new[1] = Actor(b, s)
    BY <2>1, OneSent
  <2>3. /\ Grown(actors, SELF, more) /\ New(1) \in DOMAIN more /\ more[New(1)] = Actor(b, s)
        /\ row2[New(1)] = New(1) /\ IsSeq(more)
    BY <1>2, <2>1, <2>2 DEF Adds
  <2>4. Sinks(more)
    BY <2>3, BothKept
  <2>5. IsValue(more, x) /\ RequestOK(more, x, w) /\ w.cust = New(1)
    BY <2>3, <2>4 DEF AskedFor
  <2>6. Fits(more, row2, Message(x, w), row2[w.cust])
    BY <2>3, <2>5, RequestFits
  <2> QED
    BY <2>3, <2>5, <2>6
<1> QED
  BY <1>1, <1>2, Asking

(* A new customer of one value may be sent any.                            *)
LEMMA NewCust ==
  ASSUME NEW more, NEW k, k \in DOMAIN more, NEW b, b \in ValueBehs \ {"tag_beh", "command_beh"}, more[k].beh = b
  PROVE  Cust(more, k)
BY DEF Cust, AnyCust, WaitsForCopy, IsIn

(* ... for operands.                                                       *)
LEMMA Collects ==
  ASSUME NEW open, NEW row, NEW k, Due(open, row, k), NEW b, NEW s, Asker(k, b, s), b \in ArgsBehs,
         NEW w, ArgsOK(actors, w), React(<<Actor(b, s)>>, <<Message(New(1), w)>>)
  PROVE  Onward
<1>1. w.op \notin Requests \cup {"heads", "tagged"}
  BY DEF ArgsOK, Requests
<1>2. Message(New(1), w).to = New(1) /\ Message(New(1), w).what = w
  BY DEF Message
<1>3. w.op # "as_pair"
  BY <1>1 DEF Requests
<1>4. b \notin ObjectBehs \cup {"sink_beh", "fork_beh", "pair_copy_beh", "pair_map_beh"} \cup ValueBehs \cup PairBehs
           \cup JoinBehs \cup {"map_unwrap_beh", "map_comb_beh", "map_next_beh", "map_tail_beh"} \cup HeadBehs
  BY DEF ObjectBehs, Immutable, Mutable, PlainArgsBehs, BrandBehs, PairBehs, JoinBehs, HeadBehs, ValueBehs, ArgsBehs
<1>5. ASSUME NEW more, NEW row2, Adds(row, <<Actor(b, s)>>, more, row2)
      PROVE  Fits(more, row2, Message(New(1), w), New(1))
  <2>1. PICK new : new = <<Actor(b, s)>>
    OBVIOUS
  <2>2. DOMAIN new = {1} /\ new[1] = Actor(b, s)
    BY <2>1, OneSent
  <2>3. /\ Grown(actors, SELF, more) /\ New(1) \in DOMAIN more /\ more[New(1)] = Actor(b, s)
        /\ row2[New(1)] = New(1) /\ New(1) \notin DOMAIN actors
    BY <1>5, <2>1, <2>2 DEF Adds
  <2>4. more[New(1)].beh = b
    BY <2>3 DEF Actor
  <2>5. New(1) # a_sink
    BY <2>3, Running DEF Settled, Due
  <2>6. ArgsOK(more, w)
    BY <2>3, BothKept DEF ArgsOK
  <2>7. SentOK(more, row2, New(1), w)
    BY <1>4, <2>4, <2>6 DEF SentOK, HeadBehs
  <2> QED
    BY <1>1, <1>2, <1>4, <2>3, <2>4, <2>5, <2>7 DEF Fits, MessageOK, Held, Answers, Serves
<1>6. Handle(actors \o <<Actor(b, s)>>, <<Message(New(1), w)>>, << >>) /\ IsSeq(<< >>)
  BY OneSent DEF React
<1> QED
  BY <1>2, <1>3, <1>5, <1>6, Asking

(* Two customers are new; the second one's answers are for the first.      *)
SecondOK(more, row2, b2, s2, m) ==
  /\ b2 \in {"fork_beh", "command_beh"}
  /\ StateOK(more, row2, New(2), b2, s2)
  /\ s2.cust = New(1)
  /\ b2 = "fork_beh" => ~IsIn(more, MapBehs, s2.tail)
  /\ Fits(more, row2, m, New(2))

(* Two new customers, of which the second answers the first.               *)
LEMMA AskingTwo ==
  ASSUME NEW open, NEW row, NEW k, Due(open, row, k), NEW b, NEW s, Asker(k, b, s), b \in PairBehs \cup BothBehs,
         NEW b2, NEW s2, NEW m, NEW more, more = actors \o <<Actor(b, s), Actor(b2, s2)>>,
         NEW row2, row2 = Extended(row, actors, more), SecondOK(more, row2, b2, s2, m),
         Handle(more, <<m>>, << >>)
  PROVE  Onward
<1>1. Runs(open, row) /\ AnyCust(actors, k)
  BY DEF Due
<1>2. PICK new : new = <<Actor(b, s), Actor(b2, s2)>>
  OBVIOUS
<1>3. IsSeq(new) /\ DOMAIN new = {1, 2} /\ new[1] = Actor(b, s) /\ new[2] = Actor(b2, s2) /\ Len(new) = 2
  BY <1>2, OneSent
<1>4. more = actors \o new
  BY <1>2
<1>6. Adds(row, new, more, row2)
  BY <1>1, <1>3, <1>4, Adding
<1>7. /\ Grown(actors, SELF, more) /\ New(1) \in DOMAIN more /\ more[New(1)] = Actor(b, s)
      /\ row2[New(1)] = New(1) /\ New(1) \notin DOMAIN actors
      /\ New(2) \in DOMAIN more /\ more[New(2)] = Actor(b2, s2) /\ New(2) \notin DOMAIN actors
  BY <1>3, <1>6 DEF Adds
<1>8. /\ new[1].beh = b /\ new[1].mine = s /\ more[New(1)].beh = b /\ more[New(1)].mine = s
      /\ new[2].beh = b2 /\ new[2].mine = s2 /\ more[New(2)].beh = b2 /\ more[New(2)].mine = s2
  BY <1>3, <1>7 DEF Actor
<1>9. b \in PlainCusts \ {"throw_beh"} /\ CustomerOK(more, b, s)
  BY <1>1, <1>7, CustomerStays DEF Asker
<1>10. StateOK(more, row2, New(1), b, s) /\ b \in OpenBehs
  BY <1>7, <1>9, CustomerState
<1>11. b \notin JoinBehs \cup {"tag_beh", "fork_beh", "throw_beh"} \cup MapBehs
  BY DEF PairBehs, BothBehs, JoinBehs, MapBehs
<1>12. Keeps(more, New(1)) = {k} \ {a_sink}
  BY <1>8, <1>11 DEF Keeps, Rest, Asker
<1>14. New(1) # a_sink /\ New(2) # a_sink
  BY <1>1, <1>7, Running DEF Settled
<1>13. Keeps(more, New(2)) = {New(1)}
  <2>1. b2 \in {"fork_beh", "command_beh"} /\ s2.cust = New(1)
    BY DEF SecondOK
  <2>2. Direct(b2, s2) = {New(1)}
    BY <2>1 DEF Direct
  <2>3. Rest(more, b2, s2) = {}
    BY DEF Rest, SecondOK
  <2> QED
    BY <1>8, <1>14, <2>2, <2>3 DEF Keeps
<1>15. MessageOK(more, row2, m) /\ Held(more, row2, m) = {New(2)}
  BY <1>14 DEF Fits, SecondOK
<1>16. /\ StateOK(more, row2, New(2), b2, s2) /\ b2 \in OpenBehs
       /\ b2 \notin JoinBehs \cup {"tag_beh", "throw_beh"} \cup MapBehs
  BY DEF SecondOK, OpenBehs, ValueBehs, JoinBehs, MapBehs
<1>17. 2 # 1 /\ 2 - 1 = 1
  OBVIOUS
<1>18. Chained(k, new, more, row2, 2, m)
  BY <1>3, <1>8, <1>10, <1>11, <1>12, <1>13, <1>15, <1>16, <1>17 DEF Chained
<1> QED
  BY <1>1, <1>3, <1>4, <1>18, Entrusts, OneSent

(* A fork that is sent w, of a customer for both answers.                  *)
LEMMA ForksTo ==
  ASSUME NEW open, NEW row, NEW k, Due(open, row, k), NEW b, b \in BothBehs, b = "pair_map_beh" => Cust(actors, k),
         NEW x, IsValue(actors, x), NEW y, IsValue(actors, y), NEW h_req, NEW t_req,
         IF b = "pair_copy_beh"
         THEN h_req = Request("copy_immutable", NIL) /\ t_req = Request("copy_immutable", NIL)
         ELSE EvalOf(actors, h_req, NIL) /\ MapOf(actors, t_req, NIL),
         React(<<Actor(b, k), Actor("fork_beh", [cust |-> New(1), head |-> x, tail |-> y])>>,
               <<Message(New(2), ForkRequest(h_req, t_req))>>)
  PROVE  Onward
<1>1. Runs(open, row) /\ AnyCust(actors, k)
  BY DEF Due
<1>2. PICK s2 : s2 = [cust |-> New(1), head |-> x, tail |-> y]
  OBVIOUS
<1>3. PICK more : more = actors \o <<Actor(b, k), Actor("fork_beh", s2)>>
  OBVIOUS
<1>4. PICK row2 : row2 = Extended(row, actors, more)
  OBVIOUS
<1>5. PICK m, w : m = Message(New(2), w) /\ w = ForkRequest(h_req, t_req)
  OBVIOUS
<1>6. Handle(more, <<m>>, << >>)
  BY <1>2, <1>3, <1>5 DEF React
<1>7. Asker(k, b, k)
  <2>1. CustomerOK(actors, b, k)
    BY <1>1 DEF CustomerOK, BothBehs, WithCust, PairBehs, PlainArgsBehs, BrandBehs
  <2>2. Direct(b, k) = {k}
    BY DEF Direct, BothBehs, WithCust, PairBehs, PlainArgsBehs, BrandBehs, JoinBehs
  <2> QED
    BY <2>1, <2>2 DEF Asker, PlainCusts, BothBehs
<1>8. PICK new : new = <<Actor(b, k), Actor("fork_beh", s2)>>
  OBVIOUS
<1>9. IsSeq(new) /\ DOMAIN new = {1, 2} /\ new[1] = Actor(b, k) /\ new[2] = Actor("fork_beh", s2)
  BY <1>8, OneSent
<1>10. Adds(row, new, more, row2)
  BY <1>1, <1>3, <1>4, <1>8, <1>9, Adding
<1>11. /\ Grown(actors, SELF, more) /\ New(1) \in DOMAIN more /\ more[New(1)] = Actor(b, k)
       /\ New(2) \in DOMAIN more /\ more[New(2)] = Actor("fork_beh", s2)
       /\ row2[New(2)] = New(2) /\ New(2) \notin DOMAIN actors
  BY <1>9, <1>10 DEF Adds
<1>12. more[New(1)].beh = b /\ more[New(2)].beh = "fork_beh" /\ more[New(2)].mine = s2
  BY <1>11 DEF Actor
<1>13. s2.cust = New(1) /\ s2.head = x /\ s2.tail = y
  BY <1>2
<1>14. IsValue(more, x) /\ IsValue(more, y) /\ IsIn(more, BothBehs, New(1))
  BY <1>11, <1>12, BothKept DEF IsIn
<1>15. ~IsIn(more, MapBehs, y)
  <2>1. NIL \notin DOMAIN more /\ NotActor \notin DOMAIN more
    BY <1>11, LengthIs DEF NIL, NotActor, Grown
  <2> QED
    BY <1>14, <2>1 DEF IsValue, IsIn, MapBehs, ObjectBehs, Immutable, Mutable
<1>16. StateOK(more, row2, New(2), "fork_beh", s2)
  <2>1. "fork_beh" \notin ObjectBehs \cup WithCust \cup PlainArgsBehs \cup PairBehs \cup BrandBehs \cup JoinBehs \cup HeadBehs
    BY DEF ObjectBehs, Immutable, Mutable, WithCust, PlainArgsBehs, PairBehs, BrandBehs, JoinBehs, HeadBehs
  <2>2. ObjectOK(more, "fork_beh", s2)
    BY <2>1 DEF ObjectOK
  <2>3. CustomerOK(more, "fork_beh", s2)
    BY <2>1 DEF CustomerOK
  <2>4. ForkJoinOK(more, New(2), "fork_beh", s2)
    BY <1>13, <1>14, <2>1 DEF ForkJoinOK
  <2>5. MapOK(more, row2, New(2), "fork_beh", s2)
    BY <1>11, <2>1 DEF MapOK
  <2> QED
    BY <2>2, <2>3, <2>4, <2>5 DEF StateOK
<1>17. w.op = "fork" /\ w.h_req = h_req /\ w.t_req = t_req
  BY <1>5 DEF ForkRequest
<1>18. EvalOf(actors, h_req, NIL) => EvalOf(more, h_req, NIL)
  BY <1>1, <1>11, BothKept DEF EvalOf
<1>19. MapOf(actors, t_req, NIL) => MapOf(more, t_req, NIL)
  BY <1>1, <1>11, BothKept DEF EvalOf, MapOf
<1>20. ForkOK(more, row2, New(2), w)
  <2>1. CASE b = "pair_copy_beh"
    BY <1>12, <1>13, <1>14, <1>17, <2>1 DEF ForkOK
  <2>2. CASE b # "pair_copy_beh"
    <3>1. ~IsIn(more, {"pair_copy_beh"}, New(1))
      BY <1>12, <2>2 DEF IsIn
    <3> QED
      BY <1>12, <1>13, <1>14, <1>17, <1>18, <1>19, <2>2, <3>1 DEF ForkOK
  <2> QED
    BY <2>1, <2>2
<1>21. Fits(more, row2, m, New(2))
  <2>1. "fork_beh" \notin ObjectBehs \cup {"sink_beh"} \cup ValueBehs \cup ArgsBehs \cup PairBehs \cup BothBehs \cup JoinBehs \cup HeadBehs
    BY DEF ObjectBehs, Immutable, Mutable, ValueBehs, ArgsBehs, PlainArgsBehs, PairBehs, BothBehs, BrandBehs, JoinBehs, HeadBehs
  <2>2. SentOK(more, row2, New(2), w)
    BY <1>12, <1>20, <2>1 DEF SentOK, BothBehs, HeadBehs
  <2>3. "fork" \notin Requests \cup {"heads", "tagged"}
    BY DEF Requests
  <2>4. m.to = New(2) /\ m.what = w
    BY <1>5 DEF Message
  <2>5. New(2) # a_sink
    BY <1>1, <1>11, Running DEF Settled
  <2> QED
    BY <1>11, <1>12, <1>17, <2>1, <2>2, <2>3, <2>4, <2>5 DEF Fits, MessageOK, Held, Answers, Serves
<1>22. SecondOK(more, row2, "fork_beh", s2, m)
  BY <1>13, <1>15, <1>16, <1>21 DEF SecondOK
<1> QED
  BY <1>3, <1>4, <1>6, <1>7, <1>22, AskingTwo

(* A closure's parameters and body are copied first.                       *)
LEMMA Closes ==
  ASSUME NEW open, NEW row, Runs(open, row), actors[SELF].beh \in ObjectBehs, WHAT.op = "comb",
         NEW b, b \in {"vau_vars_beh", "lambda_vars_beh"}, Closure(b)
  PROVE  Onward
<1>1. RequestOK(actors, SELF, WHAT) /\ Due(open, row, WHAT.cust) /\ Cust(actors, WHAT.cust)
  BY DueObject
<1>2. PICK k : k = WHAT.cust
  OBVIOUS
<1>3. CombOf(actors, WHAT, k) /\ Due(open, row, k) /\ Cust(actors, k)
  BY <1>1, <1>2 DEF RequestOK
<1>4. IsValue(actors, WHAT.opnds) /\ IsValue(actors, WHAT.env)
  BY <1>3 DEF CombOf
<1>5. PICK s : s = [cust |-> k, env |-> WHAT.env]
  OBVIOUS
<1>6. PICK s2 : s2 = Request("as_pair", New(1))
  OBVIOUS
<1>7. PICK more : more = actors \o <<Actor(b, s), Actor("command_beh", s2)>>
  OBVIOUS
<1>8. PICK row2 : row2 = Extended(row, actors, more)
  OBVIOUS
<1>9. PICK m, w : m = Message(WHAT.opnds, w) /\ w = Request("copy_immutable", New(2))
  OBVIOUS
<1>10. Handle(more, <<m>>, << >>)
  BY <1>2, <1>5, <1>6, <1>7, <1>9 DEF Closure, React
<1>11. s.cust = k /\ s.env = WHAT.env
  BY <1>5
<1>12. Asker(k, b, s)
  <2>1. CustomerOK(actors, b, s)
    BY <1>3, <1>4, <1>11 DEF CustomerOK, BrandBehs
  <2>2. b \in WithCust /\ b \in PlainCusts \ {"throw_beh"} /\ b \in PairBehs
    BY DEF WithCust, PlainCusts, PairBehs
  <2>3. Direct(b, s) = {k}
    BY <1>11, <2>2 DEF Direct
  <2> QED
    BY <2>1, <2>2, <2>3 DEF Asker
<1>13. PICK new : new = <<Actor(b, s), Actor("command_beh", s2)>>
  OBVIOUS
<1>14. IsSeq(new) /\ DOMAIN new = {1, 2} /\ new[1] = Actor(b, s) /\ new[2] = Actor("command_beh", s2)
  BY <1>13, OneSent
<1>15. Adds(row, new, more, row2)
  BY <1>3, <1>7, <1>8, <1>13, <1>14, Adding DEF Due
<1>16. /\ Grown(actors, SELF, more) /\ New(1) \in DOMAIN more /\ more[New(1)] = Actor(b, s) /\ IsSeq(more)
       /\ New(2) \in DOMAIN more /\ more[New(2)] = Actor("command_beh", s2)
       /\ row2[New(2)] = New(2)
  BY <1>14, <1>15 DEF Adds
<1>17. more[New(1)].beh = b /\ more[New(2)].beh = "command_beh"
  BY <1>16 DEF Actor
<1>18. s2.cust = New(1) /\ s2 = Request("as_pair", s2.cust) /\ IsIn(more, PairBehs, s2.cust)
  BY <1>6, <1>16, <1>17 DEF Request, IsIn, PairBehs
<1>19. StateOK(more, row2, New(2), "command_beh", s2)
  <2>1. CustomerOK(more, "command_beh", s2)
    BY <1>18 DEF CustomerOK, WithCust, PlainArgsBehs, PairBehs, BrandBehs
  <2>2. "command_beh" \in PlainCusts
    BY DEF PlainCusts, ValueBehs
  <2> QED
    BY <1>16, <2>1, <2>2, CustomerState
<1>20. Fits(more, row2, m, New(2))
  <2>1. AnyCust(more, New(2))
    BY <1>16, <1>17 DEF AnyCust, IsIn, ValueBehs
  <2>2. IsValue(more, WHAT.opnds)
    BY <1>3, <1>4, <1>16, BothKept
  <2>3. RequestOK(more, WHAT.opnds, w)
    BY <1>9, <1>16, <2>1, <2>2, CopyIs
  <2>4. w.cust = New(2)
    BY <1>9 DEF Request
  <2>5. Fits(more, row2, m, row2[w.cust])
    BY <1>9, <1>16, <2>2, <2>3, RequestFits
  <2> QED
    BY <1>16, <2>4, <2>5
<1>21. SecondOK(more, row2, "command_beh", s2, m)
  BY <1>18, <1>19, <1>20 DEF SecondOK
<1>22. b \in PairBehs \cup BothBehs
  BY DEF PairBehs
<1> QED
  BY <1>3, <1>7, <1>8, <1>10, <1>12, <1>21, <1>22, AskingTwo

-----------------------------------------------------------------------------
(* Objects.                                                                *)
LEMMA PutsFor ==
  ASSUME NEW open, NEW row, NEW k, Due(open, row, k), NEW b, NEW s, Asker(k, b, s), b \in ValueBehs \ {"tag_beh", "command_beh"},
         NEW text, Put(text, <<Actor(b, s)>>, New(1))
  PROVE  Onward
<1>1. PICK ok, tokens : /\ Handle(actors \o <<Actor(b, s)>>, <<Message(New(1), Value(Boolean(ok)))>>, tokens)
                        /\ IsSeq(tokens)
  <2>1. PICK ok : Handle(actors \o <<Actor(b, s)>>, <<Message(New(1), Value(Boolean(ok)))>>, IF ok THEN <<text>> ELSE << >>)
    BY DEF Put
  <2>2. IsSeq(IF ok THEN <<text>> ELSE << >>)
    BY SeqsAre
  <2> QED
    BY <2>1, <2>2
<1>2. b \notin MapBehs
  BY DEF ValueBehs, MapBehs
<1>3. ASSUME NEW more, NEW row2, Adds(row, <<Actor(b, s)>>, more, row2)
      PROVE  Fits(more, row2, Message(New(1), Value(Boolean(ok))), New(1))
  <2>1. PICK new : new = <<Actor(b, s)>>
    OBVIOUS
  <2>2. DOMAIN new = {1} /\ new[1] = Actor(b, s)
    BY <2>1, OneSent
  <2>3. /\ Grown(actors, SELF, more) /\ New(1) \in DOMAIN more /\ more[New(1)] = Actor(b, s)
        /\ row2[New(1)] = New(1)
    BY <1>3, <2>1, <2>2 DEF Adds
  <2>4. Sinks(more)
    BY <2>3, BothKept
  <2>5. Cust(more, New(1))
    BY <2>3, NewCust DEF Actor
  <2>6. IsValue(more, Boolean(ok))
    BY <2>3, BothKept, ConstantsAre DEF Due
  <2>7. AnyCust(more, New(1)) /\ Suits(more, New(1), Boolean(ok))
    BY <2>5, <2>6, CustSuits
  <2>8. Itself(row2, New(1))
    BY <2>3 DEF Itself
  <2> QED
    BY <2>4, <2>7, <2>8, ReplyFits
<1> QED
  BY <1>1, <1>2, <1>3, Asking

-----------------------------------------------------------------------------
(* The behaviours, one by one: the objects of the language.                *)

(* The behaviour that runs is that of the actor that acts.                 *)
LEMMA Behaving ==
  ASSUME NEW open, NEW row, Invariant(open, row), NEW b, Behaves(b)
  PROVE  Runs(open, row) /\ actors[SELF].beh = b
BY DEF Behaves, Runs

LEMMA ValueSelf ==
  ASSUME NEW open, NEW row, Runs(open, row), actors[SELF].beh \in ObjectBehs \ {"brand_type"}
  PROVE  /\ IsValue(actors, SELF)
         /\ actors[SELF].beh # "cons_type" => IsFixed(actors, SELF)
BY Running DEF IsValue, IsFixed, IsIn

LEMMA ObjectUnplain ==
  ASSUME NEW open, NEW row, Runs(open, row), actors[SELF].beh \in ObjectBehs, Throw
  PROVE  Onward
<1>1. actors[SELF].beh \notin Unplain
  BY DEF ObjectBehs, Immutable, Mutable, Unplain, JoinBehs
<1> QED
  BY <1>1, Throws

LEMMA ObjectReplies ==
  ASSUME NEW open, NEW row, Runs(open, row), actors[SELF].beh \in ObjectBehs,
         WHAT.op \notin {"as_pair", "unwrap"}, NEW v, Reply(v),
         IsFixed(actors, v) \/ (WHAT.op # "copy_immutable" /\ IsValue(actors, v))
  PROVE  Onward
<1>1. Due(open, row, WHAT.cust) /\ (WHAT.op # "copy_immutable" => Cust(actors, WHAT.cust))
  BY DueObject
<1>2. Suits(actors, WHAT.cust, v)
  BY <1>1, CustSuits
<1>3. Send(WHAT.cust, Value(v))
  BY DEF Reply
<1> QED
  BY <1>1, <1>2, <1>3, Replies

LEMMA ObjectPuts ==
  ASSUME NEW open, NEW row, Runs(open, row), actors[SELF].beh \in ObjectBehs,
         WHAT.op \notin {"as_pair", "unwrap"}, NEW text, Put(text, << >>, WHAT.cust)
  PROVE  Onward
BY DueObject, Puts

LEMMA ObjectTypes ==
  ASSUME NEW open, NEW row, Runs(open, row), actors[SELF].beh \in ObjectBehs \ {"brand_type", "cons_type"}, object_type
  PROVE  Onward
<1>1. CASE WHAT.op \in {"eval", "copy_immutable"}
  <2>1. Reply(SELF)
    BY <1>1 DEF object_type
  <2> QED
    BY <1>1, <2>1, ValueSelf, ObjectReplies
<1>2. CASE WHAT.op = "write_tail" /\ WHAT.prefix = " "
  <2>1. PICK k, s : k = WHAT.cust /\ s = [cust |-> WHAT.cust, last |-> SELF]
    OBVIOUS
  <2>2. Put(" . ", <<Actor("dotted_tail_beh", s)>>, New(1))
    BY <1>2, <2>1 DEF object_type
  <2>3. Due(open, row, k) /\ Cust(actors, k)
    BY <1>2, <2>1, DueObject
  <2>4. s.cust = k /\ s.last = SELF
    BY <2>1
  <2>5. CustomerOK(actors, "dotted_tail_beh", s)
    BY <2>3, <2>4, ValueSelf DEF CustomerOK, PlainArgsBehs, PairBehs, BrandBehs
  <2>6. Direct("dotted_tail_beh", s) = {k}
    BY <2>4 DEF Direct, WithCust
  <2>7. Asker(k, "dotted_tail_beh", s)
    BY <2>5, <2>6 DEF Asker, PlainCusts, ValueBehs
  <2>8. "dotted_tail_beh" \in ValueBehs \ {"tag_beh", "command_beh"}
    BY DEF ValueBehs
  <2> QED
    BY <2>2, <2>3, <2>7, <2>8, PutsFor
<1>3. CASE ~(WHAT.op \in {"eval", "copy_immutable"} \/ (WHAT.op = "write_tail" /\ WHAT.prefix = " "))
  <2>1. Throw
    BY <1>3 DEF object_type
  <2> QED
    BY <2>1, ObjectUnplain
<1> QED
  BY <1>1, <1>2, <1>3

LEMMA TypedTypes ==
  ASSUME NEW open, NEW row, Runs(open, row), actors[SELF].beh \in ObjectBehs \ {"brand_type", "cons_type"},
         NEW type, NEW text, Typed(type, text)
  PROVE  Onward
<1>1. CASE WHAT.op = "type_eq"
  <2>1. Reply(Boolean(WHAT.type = type))
    BY <1>1 DEF Typed
  <2>2. IsFixed(actors, Boolean(WHAT.type = type))
    BY ConstantsAre
  <2> QED
    BY <1>1, <2>1, <2>2, ObjectReplies
<1>2. CASE WHAT.op = "write"
  <2>1. Put(text, << >>, WHAT.cust)
    BY <1>2 DEF Typed
  <2> QED
    BY <1>2, <2>1, ObjectPuts
<1>3. CASE WHAT.op \notin {"type_eq", "write"}
  <2>1. object_type
    BY <1>3 DEF Typed
  <2> QED
    BY <2>1, ObjectTypes
<1> QED
  BY <1>1, <1>2, <1>3

LEMMA ObjectSends ==
  ASSUME NEW open, NEW row, Runs(open, row), actors[SELF].beh \in ObjectBehs,
         WHAT.op \notin {"as_pair", "unwrap"}, NEW x, IsValue(actors, x), NEW w, Send(x, w),
         RequestOK(actors, x, w), w.cust = WHAT.cust
  PROVE  Onward
BY DueObject, Sends

-----------------------------------------------------------------------------
(* A right is handed on by a message, with new objects.                    *)
LEMMA Passes ==
  ASSUME NEW open, NEW row, Runs(open, row), actors[SELF].beh \notin Unplain, NEW R, Dues(row) = R,
         NEW new, IsSeq(new), NEW more, more = actors \o new, NEW row2, row2 = Extended(row, actors, more),
         \A i \in DOMAIN new : new[i].beh \in ObjectBehs /\ ObjectOK(more, new[i].beh, new[i].mine),
         NEW m, NEW tokens, IsSeq(tokens), Handle(more, <<m>>, tokens),
         MessageOK(more, row2, m), Held(more, row2, m) = R,
         \A k \in R : more[k].beh \in MapBehs => RowOK(more, row2, m, k)
  PROVE  Onward
<1>0. Adds(row, new, more, row2)
  BY Adding
<1>2. /\ Grown(actors, SELF, more) /\ more[SELF].beh = actors[SELF].beh
      /\ \A a \in DOMAIN actors : more[a] = actors[a]
      /\ \A i \in DOMAIN new :
           New(i) \in DOMAIN more /\ New(i) \notin DOMAIN actors /\ more[New(i)] = new[i] /\ row2[New(i)] = New(i)
      /\ \A a \in DOMAIN more : a \notin DOMAIN actors => \E i \in DOMAIN new : a = New(i)
  BY <1>0 DEF Adds
<1>3. \A a \in DOMAIN more : a \notin DOMAIN actors => more[a].beh \in ObjectBehs /\ ObjectOK(more, more[a].beh, more[a].mine) /\ row2[a] = a
  BY <1>2
<1>4. StatesDone(actors, more, row2)
  <2>1. ASSUME NEW a \in DOMAIN more, a \notin DOMAIN actors
        PROVE  /\ more[a].beh \in Kinds
               /\ StateOK(more, row2, a, more[a].beh, more[a].mine)
               /\ Keeps(more, a) = {}
    <3>1. PICK b, s : b = more[a].beh /\ s = more[a].mine
      OBVIOUS
    <3>2. b \in ObjectBehs /\ row2[a] = a /\ ObjectOK(more, b, s)
      BY <1>3, <2>1, <3>1
    <3>3. StateOK(more, row2, a, b, s) /\ b \in Kinds /\ (more[a].beh = b => Keeps(more, a) = {})
      BY <3>2, ObjectState
    <3> QED
      BY <3>1, <3>3
  <2> QED
    BY <1>2, <2>1 DEF StatesDone
<1>5. PICK sent : sent = <<m>>
  OBVIOUS
<1>6. IsSeq(sent) /\ DOMAIN sent = {1} /\ sent[1] = m
  BY <1>5, OneSent
<1>7. Newly(actors, more) = {}
  <2>1. \A b \in ObjectBehs : b \notin OpenBehs
    BY DEF ObjectBehs, Immutable, Mutable, PlainArgsBehs, BrandBehs, PairBehs, BothBehs, JoinBehs, MapBehs,
       ValueBehs, OpenBehs, ArgsBehs
  <2> QED
    BY <1>3, <2>1 DEF Newly
<1>9. Handed(more, row2, sent, {}, R)
  BY <1>6 DEF Handed
<1>10. PassedOn(more, row2, sent, {}, R)
  BY <1>6 DEF PassedOn
<1>11. \A a \in DOMAIN more : a \notin DOMAIN actors => more[a].beh \notin {"tag_beh", "map_pair_beh", "throw_beh"} \cup JoinBehs
  BY <1>3 DEF ObjectBehs, Immutable, Mutable, JoinBehs
<1>12. RowsDone(actors, more, row2, sent, {})
  BY <1>6, <1>11 DEF RowsDone
<1>13. \A i \in DOMAIN sent : MessageOK(more, row2, sent[i])
  BY <1>6
<1>14. Handle(more, sent, tokens) /\ R = Dues(row) \cup {}
  BY <1>5
<1>15. Plainly(open, row, more, row2, sent, tokens, {}, R)
  BY <1>2, <1>4, <1>6, <1>7, <1>9, <1>10, <1>11, <1>12, <1>13, <1>14 DEF Plainly
<1> QED
  BY <1>14, <1>15, PlainStep

(* The right of a request for a pair, or for what an applicative wraps.    *)
LEMMA DueRow ==
  ASSUME NEW open, NEW row, Runs(open, row), actors[SELF].beh \in ObjectBehs, WHAT.op \in {"as_pair", "unwrap"}
  PROVE  /\ WHAT.cust \in DOMAIN actors /\ Dues(row) = {row[WHAT.cust]}
         /\ row[WHAT.cust] \in DOMAIN actors /\ row[WHAT.cust] # SELF
         /\ actors[row[WHAT.cust]].beh \in MapBehs => RowOK(actors, row, queue[1], row[WHAT.cust])
         /\ actors[SELF].beh \notin Unplain
<1>1. /\ Orderly(actors, queue, turns, out, aborted, open, row) /\ 1 \in DOMAIN queue /\ SELF \in DOMAIN actors
      /\ Settled(actors) /\ StatesOK(actors, row)
  BY Running
<1>2. MessageOK(actors, row, queue[1])
  BY <1>1 DEF Orderly
<1>3. WHAT.op \in Requests /\ WHAT.op # "tagged"
  BY DEF Requests
<1>4. /\ WHAT.cust \in DOMAIN actors /\ row[WHAT.cust] \in DOMAIN actors
      /\ actors[row[WHAT.cust]].beh \in ValueBehs \cup PairBehs \cup MapBehs \cup {"sink_beh"}
  BY <1>1, <1>2, <1>3, ServedAre, Handles
<1>5. row[WHAT.cust] # a_sink
  <2>1. IsIn(actors, PairBehs \cup HeadBehs \cup MapBehs, WHAT.cust)
    BY DueObject DEF RequestOK, CustOK, IsIn
  <2>2. MapOK(actors, row, WHAT.cust, actors[WHAT.cust].beh, actors[WHAT.cust].mine)
    BY <1>1, <1>4 DEF StatesOK, StateOK
  <2>3. actors[row[WHAT.cust]].beh \in PairBehs \cup MapBehs
    BY <2>1, <2>2 DEF MapOK, IsIn, PairBehs, HeadBehs, MapBehs
  <2> QED
    BY <1>1, <2>3 DEF Settled, PairBehs, MapBehs
<1>6. Held(actors, row, queue[1]) = {row[WHAT.cust]}
  BY <1>3, <1>5, Handles DEF Held, Answers, Serves
<1>7. Keeps(actors, SELF) = {}
  <2>1. PICK a, b, s : a = SELF /\ b = actors[SELF].beh /\ s = MINE
    OBVIOUS
  <2>2. row[a] = a
    BY <2>1, RowOfSame, Running DEF ObjectBehs, Immutable, Mutable, HeadBehs
  <2>3. b \in ObjectBehs /\ ObjectOK(actors, b, s)
    BY <2>1, DueObject
  <2> QED
    BY <2>1, <2>2, <2>3, ObjectState
<1>8. row[WHAT.cust] # SELF
  BY <1>4 DEF ObjectBehs, Immutable, Mutable, ValueBehs, PairBehs, MapBehs
<1>9. Dues(row) = {row[WHAT.cust]}
  BY <1>6, <1>7, <1>8, Handles
<1>10. actors[SELF].beh \notin Unplain
  BY DEF ObjectBehs, Immutable, Mutable, Unplain, JoinBehs
<1>11. actors[row[WHAT.cust]].beh \in MapBehs => RowOK(actors, row, queue[1], row[WHAT.cust])
  BY <1>1, <1>6 DEF Orderly, Rows
<1> QED
  BY <1>4, <1>8, <1>9, <1>10, <1>11

LEMMA RowStays ==
  ASSUME NEW open, NEW row, Runs(open, row), NEW row2, row2 = Extended(row, actors, actors)
  PROVE  /\ DOMAIN row2 = DOMAIN actors /\ \A a \in DOMAIN actors : row2[a] = row[a]
         /\ \A k : Busy(actors, row2, k) = Busy(actors, row, k)
<1>1. DOMAIN row2 = DOMAIN actors /\ \A a \in DOMAIN actors : row2[a] = row[a]
  BY DEF Extended
<1> QED
  BY <1>1 DEF Busy

(* An answer to as_pair.                                                   *)
LEMMA AnswersPair ==
  ASSUME NEW open, NEW row, Runs(open, row), actors[SELF].beh \in ObjectBehs, WHAT.op = "as_pair",
         NEW w, Send(WHAT.cust, w),
         \/ w.op = "value" /\ w.val = NIL
         \/ PairOK(actors, w) /\ (actors[SELF].beh # "cons_type" => FixedPair(actors, w))
  PROVE  Onward
<1>1. PICK k, r : k = WHAT.cust /\ r = row[k]
  OBVIOUS
<1>2. /\ k \in DOMAIN actors /\ Dues(row) = {r} /\ r \in DOMAIN actors /\ r # SELF
      /\ actors[SELF].beh \notin Unplain
      /\ actors[r].beh \in MapBehs => RowOK(actors, row, queue[1], r)
  BY <1>1, DueRow
<1>3. IsIn(actors, PairBehs \cup HeadBehs, k) /\ (IsIn(actors, PairBehs, k) => ~IsIn(actors, {"cons_type"}, SELF))
  BY <1>1, DueObject DEF RequestOK, CustOK
<1>4. MapOK(actors, row, k, actors[k].beh, actors[k].mine)
  BY <1>2, Running DEF StatesOK, StateOK
<1>5. actors[k].beh \in PairBehs \/ actors[k].beh = "map_pair_beh"
  <2>1. CASE actors[k].beh \in HeadBehs
    <3>1. actors[r].beh \in MapBehs
      BY <1>1, <1>4, <2>1 DEF MapOK, IsIn
    <3>2. RowOK(actors, row, queue[1], r)
      BY <1>2, <3>1
    <3> QED
      BY <1>1, <3>2, Handles DEF RowOK
  <2> QED
    BY <1>3, <2>1 DEF IsIn
<1>6. PICK row2 : row2 = Extended(row, actors, actors)
  OBVIOUS
<1>7. PICK m : m = Message(k, w)
  OBVIOUS
<1>8. m.to = k /\ m.what = w
  BY <1>7 DEF Message
<1>9. actors[k].beh \notin ObjectBehs \cup {"sink_beh", "fork_beh", "pair_copy_beh", "pair_map_beh"} \cup ValueBehs \cup ArgsBehs
        \cup JoinBehs \cup {"map_unwrap_beh", "map_comb_beh", "map_next_beh", "map_tail_beh", "map_head_beh"}
  BY <1>5 DEF ObjectBehs, Immutable, Mutable, PlainArgsBehs, BrandBehs, PairBehs, JoinBehs, ValueBehs, ArgsBehs
<1>10. w.op \in {"value", "pair"} /\ w.op \notin Requests \cup {"heads", "tagged"}
  BY DEF PairOK, Requests
<1>11. SentOK(actors, row2, k, w)
  <2>1. CASE actors[k].beh \in PairBehs
    <3>1. actors[SELF].beh # "cons_type"
      BY <1>2, <1>3, <2>1, Running DEF IsIn
    <3>2. FixedPair(actors, w) \/ NoPair(w)
      BY <3>1 DEF NoPair
    <3>3. actors[k].beh # "map_pair_beh"
      BY <2>1 DEF PairBehs
    <3> QED
      BY <1>9, <3>2, <3>3 DEF SentOK
  <2>2. CASE actors[k].beh = "map_pair_beh"
    <3>1. PairOK(actors, w) \/ NoPair(w)
      BY DEF NoPair
    <3>2. actors[k].beh \notin PairBehs
      BY <2>2 DEF PairBehs
    <3> QED
      BY <1>9, <3>1, <3>2 DEF SentOK
  <2> QED
    BY <1>5, <2>1, <2>2
<1>12. row2[k] = r /\ \A x : Busy(actors, row2, x) = Busy(actors, row, x)
  BY <1>1, <1>2, <1>6, RowStays
<1>13. MessageOK(actors, row2, m)
  BY <1>2, <1>8, <1>11 DEF MessageOK
<1>14. Held(actors, row2, m) = {r}
  BY <1>2, <1>8, <1>9, <1>10, <1>12 DEF Held, Answers, Serves
<1>15. ASSUME actors[r].beh \in MapBehs
       PROVE  RowOK(actors, row2, m, r)
  <2>1. RowOK(actors, row, queue[1], r)
    BY <1>2, <1>15
  <2>2. queue[1].to = SELF /\ queue[1].what = WHAT
    BY Handles
  <2>3. actors[r].beh = "map_comb_beh"
    BY <1>2, <2>1, <2>2 DEF RowOK
  <2>4. \A x \in Busy(actors, row, r) : x = k
    <3>1. ASSUME NEW x \in Busy(actors, row, r), x = SELF
          PROVE  FALSE
      BY <3>1 DEF Busy, ObjectBehs, Immutable, Mutable
    <3> QED
      BY <1>1, <2>1, <2>2, <3>1 DEF RowOK
  <2> QED
    BY <1>8, <1>10, <1>12, <2>3, <2>4 DEF RowOK, Requests
<1>16. PICK new : new = << >>
  OBVIOUS
<1>17. IsSeq(new) /\ DOMAIN new = {} /\ actors \o new = actors /\ IsSeq(<< >>)
  BY <1>16, OneSent, Nothing, Running
<1>18. Handle(actors, <<m>>, << >>)
  BY <1>1, <1>7, <1>16, <1>17 DEF Send, React
<1> QED
  BY <1>2, <1>6, <1>13, <1>14, <1>15, <1>17, <1>18, Passes

(* What an applicative wraps.                                              *)
LEMMA AnswersUnwrap ==
  ASSUME NEW open, NEW row, Runs(open, row), actors[SELF].beh \in ObjectBehs, WHAT.op = "unwrap",
         NEW v, IsValue(actors, v), Reply(v)
  PROVE  Onward
<1>1. PICK k : k = WHAT.cust
  OBVIOUS
<1>2. IsIn(actors, MapBehs, k)
  BY <1>1, DueObject DEF RequestOK, CustOK
<1>3. /\ k \in DOMAIN actors /\ Dues(row) = {row[k]} /\ row[k] # SELF
      /\ actors[SELF].beh \notin Unplain
      /\ actors[row[k]].beh \in MapBehs => RowOK(actors, row, queue[1], row[k])
  BY <1>1, DueRow
<1>4. row[k] = k
  BY <1>2, <1>3, RowOfSame DEF IsIn, MapBehs, HeadBehs
<1>5. RowOK(actors, row, queue[1], k) /\ queue[1].to = SELF /\ queue[1].what = WHAT
  BY <1>2, <1>3, <1>4, Handles DEF IsIn
<1>6. actors[k].beh = "map_unwrap_beh"
  BY <1>3, <1>4, <1>5 DEF RowOK
<1>7. Busy(actors, row, k) = {}
  <2>1. ASSUME NEW x \in Busy(actors, row, k), x = SELF
        PROVE  FALSE
    BY <2>1 DEF Busy, ObjectBehs, Immutable, Mutable
  <2> QED
    BY <1>5, <2>1 DEF RowOK
<1>8. PICK row2 : row2 = Extended(row, actors, actors)
  OBVIOUS
<1>9. PICK m : m = Message(k, Value(v))
  OBVIOUS
<1>10. m.to = k /\ m.what = Value(v) /\ m.what.op = "value" /\ m.what.val = v
  BY <1>9 DEF Message, Value
<1>11. actors[k].beh \notin ObjectBehs \cup {"sink_beh", "fork_beh", "pair_copy_beh", "pair_map_beh"} \cup ValueBehs \cup ArgsBehs
        \cup JoinBehs \cup {"map_tail_beh", "map_head_beh"} \cup PairBehs \cup HeadBehs
  BY <1>6 DEF ObjectBehs, Immutable, Mutable, PlainArgsBehs, BrandBehs, PairBehs, JoinBehs, ValueBehs, ArgsBehs, HeadBehs
<1>12. SentOK(actors, row2, k, m.what)
  BY <1>6, <1>10, <1>11 DEF SentOK, HeadBehs
<1>13. row2[k] = k /\ Busy(actors, row2, k) = {}
  BY <1>3, <1>4, <1>7, <1>8, RowStays
<1>14. MessageOK(actors, row2, m)
  BY <1>3, <1>10, <1>12 DEF MessageOK
<1>15. Held(actors, row2, m) = {k}
  BY <1>3, <1>10, <1>11, <1>13 DEF Held, Answers, Serves, Requests
<1>16. RowOK(actors, row2, m, k)
  BY <1>10, <1>13 DEF RowOK
<1>17. PICK new : new = << >>
  OBVIOUS
<1>18. IsSeq(new) /\ DOMAIN new = {} /\ actors \o new = actors /\ IsSeq(<< >>)
  BY <1>17, OneSent, Nothing, Running
<1>19. Handle(actors, <<m>>, << >>)
  BY <1>1, <1>9, <1>17, <1>18 DEF Reply, Send, React
<1>20. Dues(row) = {k}
  BY <1>3, <1>4
<1> QED
  BY <1>3, <1>8, <1>14, <1>15, <1>16, <1>18, <1>19, <1>20, Passes

-----------------------------------------------------------------------------
LEMMA ConstantTypes ==
  ASSUME NEW open, NEW row, Invariant(open, row), unit_type \/ any_type \/ number_type \/ time_type
  PROVE  Onward
<1>1. PICK b, type, text : b \in {"unit_type", "any_type", "number_type", "time_type"} /\ Behaves(b) /\ Typed(type, text)
  BY DEF unit_type, any_type, number_type, time_type
<1> QED
  BY <1>1, Behaving, TypedTypes DEF ObjectBehs, Immutable

LEMMA BoolType ==
  ASSUME NEW open, NEW row, Invariant(open, row), bool_type
  PROVE  Onward
<1>1. Runs(open, row) /\ actors[SELF].beh = "bool_type" /\ actors[SELF].beh \in ObjectBehs \ {"brand_type", "cons_type"}
  BY Behaving DEF bool_type, ObjectBehs, Immutable
<1>2. CASE WHAT.op = "if"
  <2>1. PICK x, w : x = (IF MINE THEN WHAT.cnsq ELSE WHAT.altn) /\ w = Eval(WHAT.cust, WHAT.env)
    OBVIOUS
  <2>2. Send(x, w)
    BY <1>2, <2>1 DEF bool_type
  <2>3. IsValue(actors, x) /\ IsValue(actors, WHAT.env) /\ Cust(actors, WHAT.cust) /\ IsSeq(actors)
    BY <1>1, <1>2, <2>1, DueObject, Running DEF RequestOK
  <2>4. RequestOK(actors, x, w) /\ w.cust = WHAT.cust
    BY <2>1, <2>3, RequestsAre DEF Eval
  <2> QED
    BY <1>1, <1>2, <2>2, <2>3, <2>4, ObjectSends
<1>3. CASE WHAT.op # "if"
  <2>1. PICK text : Typed("bool_type", text)
    BY <1>3 DEF bool_type
  <2> QED
    BY <1>1, <2>1, TypedTypes
<1> QED
  BY <1>2, <1>3

LEMMA SymbolType ==
  ASSUME NEW open, NEW row, Invariant(open, row), symbol_type
  PROVE  Onward
<1>1. Runs(open, row) /\ actors[SELF].beh = "symbol_type" /\ actors[SELF].beh \in ObjectBehs \ {"brand_type", "cons_type"}
  BY Behaving DEF symbol_type, ObjectBehs, Immutable
<1>2. CASE WHAT.op = "eval"
  <2>1. PICK x, w : x = WHAT.env /\ w = [op |-> "lookup", cust |-> WHAT.cust, key |-> MINE]
    OBVIOUS
  <2>2. Send(x, w)
    BY <1>2, <2>1 DEF symbol_type
  <2>3. IsValue(actors, x) /\ Cust(actors, WHAT.cust) /\ IsSeq(actors)
    BY <1>1, <1>2, <2>1, DueObject, Running DEF RequestOK, EvalOf
  <2>4. RequestOK(actors, x, w) /\ w.cust = WHAT.cust
    BY <2>1, <2>3, OthersAre
  <2> QED
    BY <1>1, <1>2, <2>2, <2>3, <2>4, ObjectSends
<1>3. CASE WHAT.op # "eval"
  <2>1. PICK text : Typed("symbol_type", text)
    BY <1>3 DEF symbol_type
  <2> QED
    BY <1>1, <2>1, TypedTypes
<1> QED
  BY <1>2, <1>3

-----------------------------------------------------------------------------
(* Empty lists and what pairs are asked.                                   *)

LEMMA DirectIs ==
  ASSUME NEW b, NEW s
  PROVE  /\ b \in WithCust => Direct(b, s) = {s.cust}
         /\ b \in {"dotted_close_beh", "pair_copy_beh", "pair_map_beh"} => Direct(b, s) = {s}
         /\ b = "pair_foldl_beh" => Direct(b, s) = {s.fold.cust}
<1>1. b \in WithCust => b \notin {"dotted_close_beh", "pair_copy_beh", "pair_map_beh", "pair_foldl_beh"}
  BY DEF WithCust, PairBehs, PlainArgsBehs, BrandBehs
<1>2. JoinBehs \cap {"dotted_close_beh", "pair_copy_beh", "pair_map_beh", "pair_foldl_beh"} = {}
  BY DEF JoinBehs
<1> QED
  BY <1>1, <1>2 DEF Direct

LEMMA ForIs == \A k, j, env : For(k, Eval(j, env)) = Eval(k, env)
BY DEF For, Eval

LEMMA NullType ==
  ASSUME NEW open, NEW row, Invariant(open, row), null_type
  PROVE  Onward
<1>0. Behaves("null_type")
  BY DEF null_type
<1>1. Runs(open, row) /\ actors[SELF].beh = "null_type" /\ actors[SELF].beh \in ObjectBehs \ {"brand_type", "cons_type"}
  BY <1>0, Behaving DEF ObjectBehs, Immutable
<1>2. IsValue(actors, SELF) /\ IsFixed(actors, SELF)
  BY <1>1, ValueSelf
<1>3. RequestOK(actors, SELF, WHAT)
  BY <1>1, DueObject
<1>4. CASE WHAT.op = "type_eq"
  <2>1. PICK v : v = Boolean(WHAT.type = "null_type")
    OBVIOUS
  <2>2. Reply(v)
    BY <1>4, <2>1 DEF null_type
  <2> QED
    BY <1>1, <1>4, <2>1, <2>2, ConstantsAre, ObjectReplies
<1>5. CASE WHAT.op \in {"eval", "copy_immutable"}
  <2>1. Reply(SELF)
    BY <1>5 DEF null_type
  <2> QED
    BY <1>1, <1>2, <1>5, <2>1, ObjectReplies
<1>6. CASE WHAT.op = "as_pair"
  <2>1. Send(WHAT.cust, Value(NIL))
    BY <1>6 DEF null_type, Reply
  <2>2. Value(NIL).op = "value" /\ Value(NIL).val = NIL
    BY DEF Value
  <2> QED
    BY <1>1, <1>6, <2>1, <2>2, AnswersPair
<1>7. CASE WHAT.op = "map"
  <2>1. Send(SELF, For(WHAT.cust, WHAT.req))
    BY <1>7 DEF null_type
  <2>2. EvalOf(actors, WHAT.req, NIL) /\ Cust(actors, WHAT.cust)
    BY <1>1, <1>3, <1>7, DueObject DEF RequestOK, MapOf
  <2>3. PICK env : env = WHAT.req.env /\ WHAT.req = Eval(NIL, env) /\ IsValue(actors, env)
    BY <2>2 DEF EvalOf
  <2>4. PICK w : w = Eval(WHAT.cust, env)
    OBVIOUS
  <2>5. Send(SELF, w)
    BY <2>1, <2>3, <2>4, ForIs
  <2>6. RequestOK(actors, SELF, w) /\ w.cust = WHAT.cust
    BY <1>1, <1>2, <2>2, <2>3, <2>4, RequestsAre, Running DEF Eval
  <2> QED
    BY <1>1, <1>2, <1>7, <2>5, <2>6, ObjectSends
<1>8. CASE WHAT.op = "foldl"
  <2>1. Reply(WHAT.zero)
    BY <1>8 DEF null_type
  <2>2. IsValue(actors, WHAT.zero)
    BY <1>3, <1>8 DEF RequestOK, FoldlOf
  <2> QED
    BY <1>1, <1>8, <2>1, <2>2, ObjectReplies
<1>9. CASE WHAT.op \in {"write", "write_tail"}
  <2>1. Throw \/ \E text : Put(text, << >>, WHAT.cust)
    BY <1>9 DEF null_type
  <2> QED
    BY <1>1, <1>9, <2>1, ObjectPuts, ObjectUnplain
<1>10. CASE WHAT.op \notin {"type_eq", "eval", "copy_immutable", "as_pair", "map", "foldl", "write", "write_tail"}
  <2>1. Throw
    BY <1>10 DEF null_type
  <2> QED
    BY <1>1, <2>1, ObjectUnplain
<1> QED
  BY <1>4, <1>5, <1>6, <1>7, <1>8, <1>9, <1>10

(* A value that a customer was sent is sent on.                            *)
LEMMA Relays ==
  ASSUME NEW open, NEW row, NEW k, Due(open, row, k), NEW w, w.op = "value", Suits(actors, k, w.val), Send(k, w)
  PROVE  Onward
<1>1. Runs(open, row) /\ AnyCust(actors, k)
  BY DEF Due
<1>2. Sinks(actors)
  BY <1>1, Running DEF Settled, Sinks
<1>3. ASSUME NEW row2, Itself(row2, k)
      PROVE  Fits(actors, row2, Message(k, w), k)
  BY <1>1, <1>2, <1>3, RelayFits
<1> QED
  BY <1>3, Sending

(* What a customer of one value is sent.                                   *)
LEMMA Gets ==
  ASSUME NEW open, NEW row, Invariant(open, row), NEW b, b \in ValueBehs \ {"tag_beh"}, Behaves(b)
  PROVE  /\ Runs(open, row) /\ actors[SELF].beh = b /\ IsSeq(actors)
         /\ WHAT.op = "value" /\ IsValue(actors, WHAT.val)
         /\ b = "command_beh" => IsFixed(actors, WHAT.val)
         /\ CustomerOK(actors, b, MINE)
<1>1. Runs(open, row) /\ actors[SELF].beh = b
  BY Behaving
<1>2. SentOK(actors, row, SELF, WHAT) /\ StateOK(actors, row, SELF, b, MINE) /\ SELF \in DOMAIN actors /\ IsSeq(actors)
  BY <1>1, Handles, Running
<1>3. ValueOK(actors, SELF, WHAT)
  BY <1>1, <1>2 DEF SentOK
<1>4. b = "command_beh" => WaitsForCopy(actors, SELF)
  BY <1>1, <1>2 DEF WaitsForCopy, IsIn
<1> QED
  BY <1>1, <1>2, <1>3, <1>4 DEF StateOK, ValueOK

LEMMA DottedTail ==
  ASSUME NEW open, NEW row, Invariant(open, row), dotted_tail_beh
  PROVE  Onward
<1>1. /\ Runs(open, row) /\ actors[SELF].beh = "dotted_tail_beh" /\ IsSeq(actors)
      /\ WHAT.op = "value" /\ IsValue(actors, WHAT.val) /\ CustomerOK(actors, "dotted_tail_beh", MINE)
  BY Gets DEF dotted_tail_beh, ValueBehs
<1>2. Due(open, row, MINE.cust) /\ Cust(actors, MINE.cust)
  BY <1>1, DueCust DEF WithCust
<1>3. CASE WHAT.val = a_true
  <2>1. PICK b, s, x, w : b = "dotted_close_beh" /\ s = MINE.cust /\ x = MINE.last /\ w = Request("write", New(1))
    OBVIOUS
  <2>2. Handle(actors \o <<Actor(b, s)>>, <<Message(x, w)>>, << >>)
    BY <1>3, <2>1 DEF dotted_tail_beh, React
  <2>3. Asker(MINE.cust, b, s)
    <3>1. CustomerOK(actors, b, s)
      BY <1>2, <2>1 DEF CustomerOK, WithCust, PlainArgsBehs, PairBehs, BrandBehs
    <3> QED
      BY <2>1, <3>1, DirectIs DEF Asker, PlainCusts, ValueBehs
  <2>4. AskedFor(x, w, b, s)
    <3>1. SUFFICES ASSUME NEW more, Grown(actors, SELF, more), New(1) \in DOMAIN more, more[New(1)] = Actor(b, s)
                   PROVE  IsValue(more, x) /\ RequestOK(more, x, w) /\ w.cust = New(1)
      BY DEF AskedFor
    <3>2. IsValue(actors, x)
      BY <1>1, <2>1 DEF CustomerOK
    <3>3. IsValue(more, x)
      BY <1>1, <3>1, <3>2, Still
    <3>4. more[New(1)].beh = b /\ b \in ValueBehs \ {"tag_beh", "command_beh"}
      BY <2>1, <3>1 DEF Actor, ValueBehs
    <3>5. Cust(more, New(1)) /\ IsSeq(more)
      BY <3>1, <3>4, NewCust DEF Grown
    <3> QED
      BY <2>1, <3>3, <3>5, OthersAre DEF Request
  <2>5. IsSeq(<< >>) /\ b \in ValueBehs
    BY <2>1, OneSent DEF ValueBehs
  <2> QED
    BY <1>2, <2>2, <2>3, <2>4, <2>5, AsksFor
<1>4. CASE WHAT.val # a_true
  <2>1. Send(MINE.cust, WHAT)
    BY <1>4 DEF dotted_tail_beh
  <2> QED
    BY <1>1, <1>2, <2>1, Relays, CustSuits
<1> QED
  BY <1>3, <1>4

LEMMA DottedClose ==
  ASSUME NEW open, NEW row, Invariant(open, row), dotted_close_beh
  PROVE  Onward
<1>1. /\ Runs(open, row) /\ actors[SELF].beh = "dotted_close_beh"
      /\ WHAT.op = "value" /\ IsValue(actors, WHAT.val) /\ CustomerOK(actors, "dotted_close_beh", MINE)
  BY Gets DEF dotted_close_beh, ValueBehs
<1>2. Cust(actors, MINE) /\ AnyCust(actors, MINE)
  BY <1>1 DEF CustomerOK, Cust
<1>3. Due(open, row, MINE)
  <2>1. Direct("dotted_close_beh", MINE) = {MINE}
    BY DirectIs
  <2> QED
    BY <1>1, <1>2, <2>1, DueCustomer DEF Waiting, PlainCusts, ValueBehs
<1>4. CASE WHAT.val = a_true
  <2>1. Put(")", << >>, MINE)
    BY <1>4 DEF dotted_close_beh
  <2> QED
    BY <1>3, <2>1, Puts
<1>5. CASE WHAT.val # a_true
  <2>1. Send(MINE, WHAT)
    BY <1>5 DEF dotted_close_beh
  <2> QED
    BY <1>1, <1>2, <1>3, <2>1, Relays, CustSuits
<1> QED
  BY <1>4, <1>5

(* What a request to an object must be with more actors.                   *)
Grows(more) == IsSeq(more) /\ \A v : IsValue(actors, v) => IsValue(more, v)

LEMMA AsksObject ==
  ASSUME NEW open, NEW row, Runs(open, row), NEW b, b \in ValueBehs \ {"tag_beh", "command_beh"}, NEW s,
         NEW x, IsValue(actors, x), NEW w, w.cust = New(1),
         \A more : Grows(more) /\ IsValue(more, x) /\ Cust(more, New(1)) => RequestOK(more, x, w)
  PROVE  AskedFor(x, w, b, s)
<1>1. SUFFICES ASSUME NEW more, Grown(actors, SELF, more), New(1) \in DOMAIN more, more[New(1)] = Actor(b, s)
               PROVE  IsValue(more, x) /\ RequestOK(more, x, w) /\ w.cust = New(1)
  BY DEF AskedFor
<1>2. IsSeq(more) /\ \A v : IsValue(actors, v) => IsValue(more, v)
  BY <1>1, Still DEF Grown
<1>3. more[New(1)].beh = b
  BY <1>1 DEF Actor
<1>4. Cust(more, New(1))
  BY <1>1, <1>3, NewCust
<1> QED
  BY <1>2, <1>4 DEF Grows

(* Pairs.                                                                  *)
Pairs == {"cons_type", "pair_type"}

LEMMA PairSelf ==
  ASSUME NEW open, NEW row, Runs(open, row), actors[SELF].beh \in Pairs
  PROVE  /\ actors[SELF].beh \in ObjectBehs \ {"brand_type"} /\ IsSeq(actors)
         /\ IsValue(actors, SELF) /\ IsValue(actors, MINE.hd) /\ IsValue(actors, MINE.tl)
         /\ actors[SELF].beh = "pair_type" => IsFixed(actors, SELF) /\ IsFixed(actors, MINE.hd) /\ IsFixed(actors, MINE.tl)
         /\ RequestOK(actors, SELF, WHAT)
<1>1. actors[SELF].beh \in ObjectBehs \ {"brand_type"}
  BY DEF Pairs, ObjectBehs, Immutable, Mutable
<1>2. ObjectOK(actors, actors[SELF].beh, MINE) /\ RequestOK(actors, SELF, WHAT)
  BY <1>1, DueObject
<1>3. actors[SELF].beh = "pair_type" => IsFixed(actors, MINE.hd) /\ IsFixed(actors, MINE.tl)
  BY <1>2 DEF ObjectOK
<1>4. actors[SELF].beh = "cons_type" => IsValue(actors, MINE.hd) /\ IsValue(actors, MINE.tl)
  BY <1>2 DEF ObjectOK
<1>5. IsValue(actors, SELF) /\ (actors[SELF].beh = "pair_type" => IsFixed(actors, SELF))
  BY <1>1, ValueSelf
<1>6. \A v : IsFixed(actors, v) => IsValue(actors, v)
  BY DEF IsFixed
<1> QED
  BY <1>1, <1>2, <1>3, <1>4, <1>5, <1>6, Running DEF Pairs

LEMMA PairEval ==
  ASSUME NEW open, NEW row, Runs(open, row), actors[SELF].beh \in Pairs, WHAT.op = "eval", cons_type_req
  PROVE  Onward
<1>1. PICK b, s, x, w : /\ b = "pair_comb_beh" /\ s = [cust |-> WHAT.cust, opnds |-> MINE.tl, env |-> WHAT.env]
                        /\ x = MINE.hd /\ w = Eval(New(1), WHAT.env)
  OBVIOUS
<1>2. Handle(actors \o <<Actor(b, s)>>, <<Message(x, w)>>, << >>)
  BY <1>1 DEF cons_type_req, React
<1>3. /\ actors[SELF].beh \in ObjectBehs /\ IsSeq(actors) /\ IsValue(actors, MINE.hd) /\ IsValue(actors, MINE.tl)
      /\ RequestOK(actors, SELF, WHAT)
  BY PairSelf
<1>4. IsValue(actors, WHAT.env)
  BY <1>3 DEF RequestOK, EvalOf
<1>5. Due(open, row, WHAT.cust) /\ Cust(actors, WHAT.cust)
  BY <1>3, DueObject
<1>6. Asker(WHAT.cust, b, s)
  <2>1. s.cust = WHAT.cust /\ s.opnds = MINE.tl /\ s.env = WHAT.env
    BY <1>1
  <2>2. CustomerOK(actors, b, s)
    BY <1>1, <1>3, <1>4, <1>5, <2>1 DEF CustomerOK, WithCust, PlainArgsBehs, PairBehs, BrandBehs
  <2>3. b \in WithCust /\ b \in PlainCusts \ {"throw_beh"}
    BY <1>1 DEF WithCust, PlainCusts, ValueBehs
  <2> QED
    BY <2>1, <2>2, <2>3, DirectIs DEF Asker
<1>7. AskedFor(x, w, b, s)
  <2>1. w.cust = New(1) /\ b \in ValueBehs \ {"tag_beh", "command_beh"}
    BY <1>1 DEF Eval, ValueBehs
  <2>2. ASSUME NEW more, Grows(more), IsValue(more, x), Cust(more, New(1))
        PROVE  RequestOK(more, x, w)
    BY <1>1, <1>4, <2>2, RequestsAre DEF Grows
  <2> QED
    BY <1>1, <1>3, <2>1, <2>2, AsksObject
<1>8. IsSeq(<< >>) /\ b \in ValueBehs
  BY <1>1, OneSent DEF ValueBehs
<1> QED
  BY <1>2, <1>5, <1>6, <1>7, <1>8, AsksFor

LEMMA PairFoldl ==
  ASSUME NEW open, NEW row, Runs(open, row), actors[SELF].beh \in Pairs, WHAT.op = "foldl", cons_type_req
  PROVE  Onward
<1>1. PICK b, s, x, w : /\ b = "pair_foldl_beh" /\ s = [fold |-> WHAT, right |-> MINE.tl]
                        /\ x = MINE.hd /\ w = For(New(1), WHAT.req)
  OBVIOUS
<1>2. Handle(actors \o <<Actor(b, s)>>, <<Message(x, w)>>, << >>)
  BY <1>1 DEF cons_type_req, React
<1>3. /\ actors[SELF].beh \in ObjectBehs /\ IsSeq(actors) /\ IsValue(actors, MINE.hd) /\ IsValue(actors, MINE.tl)
      /\ RequestOK(actors, SELF, WHAT)
  BY PairSelf
<1>4. FoldlOf(actors, WHAT, WHAT.cust)
  BY <1>3 DEF RequestOK
<1>5. Due(open, row, WHAT.cust) /\ Cust(actors, WHAT.cust)
  BY <1>3, DueObject
<1>6. Asker(WHAT.cust, b, s)
  <2>1. s.fold = WHAT /\ s.right = MINE.tl
    BY <1>1
  <2>2. CustomerOK(actors, b, s)
    BY <1>1, <1>3, <1>4, <1>5, <2>1 DEF CustomerOK, WithCust, PlainArgsBehs, PairBehs, BrandBehs
  <2>3. b = "pair_foldl_beh" /\ b \in PlainCusts \ {"throw_beh"}
    BY <1>1 DEF PlainCusts, ValueBehs
  <2> QED
    BY <2>1, <2>2, <2>3, DirectIs DEF Asker
<1>7. AskedFor(x, w, b, s)
  <2>1. b \in ValueBehs \ {"tag_beh", "command_beh"}
    BY <1>1 DEF ValueBehs
  <2>2. CASE EvalOf(actors, WHAT.req, NIL)
    <3>1. PICK env : WHAT.req = Eval(NIL, env) /\ IsValue(actors, env)
      BY <2>2 DEF EvalOf
    <3>2. w = Eval(New(1), env)
      BY <1>1, <3>1, ForIs
    <3>3. ASSUME NEW more, Grows(more), IsValue(more, x), Cust(more, New(1))
          PROVE  RequestOK(more, x, w)
      BY <3>1, <3>2, <3>3, RequestsAre DEF Grows
    <3>4. w.cust = New(1)
      BY <3>2 DEF Eval
    <3> QED
      BY <1>1, <1>3, <2>1, <3>3, <3>4, AsksObject
  <2>3. CASE WHAT.req.op = "type_eq" /\ WHAT.req = TypeEq(NIL, WHAT.req.type, WHAT.req.brand)
    <3>1. PICK type, brand : WHAT.req = TypeEq(NIL, type, brand)
      BY <2>3
    <3>2. w = TypeEq(New(1), type, brand)
      BY <1>1, <3>1 DEF For, TypeEq
    <3>3. ASSUME NEW more, Grows(more), IsValue(more, x), Cust(more, New(1))
          PROVE  RequestOK(more, x, w)
      <4>1. w.op = "type_eq" /\ w.cust = New(1)
        BY <3>2 DEF TypeEq
      <4>2. ~IsIn(more, {"brand_type"}, x)
        BY <3>3, NoBrand DEF Grows
      <4> QED
        BY <3>3, <4>1, <4>2 DEF RequestOK, CustOK, Requests
    <3>4. w.cust = New(1)
      BY <3>2 DEF TypeEq
    <3> QED
      BY <1>1, <1>3, <2>1, <3>3, <3>4, AsksObject
  <2> QED
    BY <1>4, <2>2, <2>3 DEF FoldlOf
<1>8. IsSeq(<< >>) /\ b \in ValueBehs
  BY <1>1, OneSent DEF ValueBehs
<1> QED
  BY <1>2, <1>5, <1>6, <1>7, <1>8, AsksFor

-----------------------------------------------------------------------------
(* Pairs.                                                                  *)

LEMMA PairForks ==
  ASSUME NEW open, NEW row, Runs(open, row), actors[SELF].beh \in Pairs, cons_type_req,
         WHAT.op = "map" \/ (WHAT.op = "copy_immutable" /\ actors[SELF].beh = "cons_type")
  PROVE  Onward
<1>3. /\ actors[SELF].beh \in ObjectBehs /\ IsSeq(actors) /\ IsValue(actors, MINE.hd) /\ IsValue(actors, MINE.tl)
      /\ RequestOK(actors, SELF, WHAT)
  BY PairSelf
<1>5. Due(open, row, WHAT.cust)
  BY <1>3, DueObject
<1>6. CASE WHAT.op = "map"
  <2>1. PICK k, b, x, y, h_req, t_req : /\ k = WHAT.cust /\ b = "pair_map_beh" /\ x = MINE.hd /\ y = MINE.tl
                                        /\ h_req = WHAT.req /\ t_req = For(NIL, WHAT)
    OBVIOUS
  <2>2. React(<<Actor(b, k), Actor("fork_beh", [cust |-> New(1), head |-> x, tail |-> y])>>,
              <<Message(New(2), ForkRequest(h_req, t_req))>>)
    BY <1>6, <2>1 DEF cons_type_req, ForkPair
  <2>3. EvalOf(actors, h_req, NIL) /\ MapOf(actors, WHAT, k)
    BY <1>3, <1>6, <2>1 DEF RequestOK, MapOf
  <2>4. t_req = Map(NIL, h_req) /\ t_req.op = "map" /\ t_req.req = h_req
    BY <2>1, <2>3 DEF MapOf, Map, For
  <2>5. MapOf(actors, t_req, NIL)
    BY <2>3, <2>4 DEF MapOf
  <2>6. Cust(actors, k) /\ b \in BothBehs
    BY <1>3, <1>6, <2>1, DueObject DEF BothBehs
  <2>7. b # "pair_copy_beh"
    BY <2>1
  <2> QED
    BY <1>3, <1>5, <2>1, <2>2, <2>3, <2>5, <2>6, <2>7, ForksTo
<1>7. CASE WHAT.op = "copy_immutable"
  <2>1. PICK k, b, x, y, h_req : /\ k = WHAT.cust /\ b = "pair_copy_beh" /\ x = MINE.hd /\ y = MINE.tl
                                 /\ h_req = For(NIL, WHAT)
    OBVIOUS
  <2>2. React(<<Actor(b, k), Actor("fork_beh", [cust |-> New(1), head |-> x, tail |-> y])>>,
              <<Message(New(2), ForkRequest(h_req, h_req))>>)
    BY <1>7, <2>1 DEF cons_type_req, CopyImmutable, ForkPair
  <2>3. WHAT = Request("copy_immutable", k)
    BY <1>3, <1>7, <2>1 DEF RequestOK
  <2>4. h_req = Request("copy_immutable", NIL)
    BY <2>1, <2>3 DEF Request, For
  <2>6. b \in BothBehs /\ b # "pair_map_beh"
    BY <2>1 DEF BothBehs
  <2> QED
    BY <1>3, <1>5, <2>1, <2>2, <2>4, <2>6, ForksTo
<1> QED
  BY <1>6, <1>7

LEMMA PairWrites ==
  ASSUME NEW open, NEW row, Runs(open, row), actors[SELF].beh \in Pairs, WHAT.op = "write_tail", cons_type_req
  PROVE  Onward
<1>3. /\ actors[SELF].beh \in ObjectBehs /\ IsSeq(actors) /\ IsValue(actors, MINE.hd) /\ IsValue(actors, MINE.tl)
      /\ RequestOK(actors, SELF, WHAT)
  BY PairSelf
<1>5. Due(open, row, WHAT.cust) /\ Cust(actors, WHAT.cust)
  BY <1>3, DueObject
<1>0. PICK ok :
        IF ok
        THEN Handle(actors \o <<Actor("pair_write_tail_beh", [cust |-> WHAT.cust, right |-> MINE.tl])>>,
                    <<Message(MINE.hd, Request("write", New(1)))>>, <<WHAT.prefix>>)
        ELSE Reply(a_false)
  BY DEF cons_type_req
<1>9. CASE ok
  <2>1. PICK b, s, x, w : /\ b = "pair_write_tail_beh" /\ s = [cust |-> WHAT.cust, right |-> MINE.tl]
                          /\ x = MINE.hd /\ w = Request("write", New(1))
    OBVIOUS
  <2>2. Handle(actors \o <<Actor(b, s)>>, <<Message(x, w)>>, <<WHAT.prefix>>)
    BY <1>0, <1>9, <2>1
  <2>3. Asker(WHAT.cust, b, s)
    <3>1. s.cust = WHAT.cust /\ s.right = MINE.tl
      BY <2>1
    <3>2. CustomerOK(actors, b, s)
      BY <2>1, <1>3, <1>5, <3>1 DEF CustomerOK, WithCust, PlainArgsBehs, PairBehs, BrandBehs
    <3>3. b \in WithCust /\ b \in PlainCusts \ {"throw_beh"}
      BY <2>1 DEF WithCust, PlainCusts, ValueBehs
    <3> QED
      BY <3>1, <3>2, <3>3, DirectIs DEF Asker
  <2>4. AskedFor(x, w, b, s)
    <3>1. w.cust = New(1) /\ b \in ValueBehs \ {"tag_beh", "command_beh"}
      BY <2>1 DEF Request, ValueBehs
    <3>2. ASSUME NEW more, Grows(more), IsValue(more, x), Cust(more, New(1))
          PROVE  RequestOK(more, x, w)
      BY <2>1, <3>2, OthersAre DEF Grows
    <3> QED
      BY <1>3, <2>1, <3>1, <3>2, AsksObject
  <2>5. IsSeq(<<WHAT.prefix>>) /\ b \in ValueBehs
    BY <2>1, OneSent DEF ValueBehs
  <2> QED
    BY <1>5, <2>2, <2>3, <2>4, <2>5, AsksFor
<1>10. CASE ~ok
  <2>1. Reply(a_false)
    BY <1>0, <1>10
  <2> QED
    BY <1>3, <2>1, ConstantsAre, ObjectReplies
<1> QED
  BY <1>9, <1>10

LEMMA PairSets ==
  ASSUME NEW open, NEW row, Runs(open, row), actors[SELF].beh = "cons_type", WHAT.op \in {"set_car", "set_cdr"}, cons_type_req
  PROVE  Onward
<1>1. actors[SELF].beh \in Pairs
  BY DEF Pairs
<1>2. /\ actors[SELF].beh \in ObjectBehs /\ IsSeq(actors) /\ IsValue(actors, MINE.hd) /\ IsValue(actors, MINE.tl)
      /\ RequestOK(actors, SELF, WHAT)
  BY <1>1, PairSelf
<1>3. PICK k : k = WHAT.cust /\ Due(open, row, k)
  BY <1>2, DueObject
<1>4. IsValue(actors, WHAT.val)
  BY <1>2 DEF RequestOK
<1>5. PICK s : /\ Become(actors[SELF].beh, s, <<Message(k, Value(a_inert))>>)
               /\ ObjectOK(actors, actors[SELF].beh, s)
  <2>1. \A h, t : IsValue(actors, h) /\ IsValue(actors, t) => ObjectOK(actors, "cons_type", Halves(h, t))
    BY DEF ObjectOK, Halves
  <2>2. CASE WHAT.op = "set_car"
    <3>1. Become(actors[SELF].beh, Halves(WHAT.val, MINE.tl), <<Message(k, Value(a_inert))>>)
      BY <1>3, <2>2 DEF cons_type_req
    <3> QED
      BY <1>2, <1>4, <2>1, <3>1
  <2>3. CASE WHAT.op = "set_cdr"
    <3>1. Become(actors[SELF].beh, Halves(MINE.hd, WHAT.val), <<Message(k, Value(a_inert))>>)
      BY <1>3, <2>3 DEF cons_type_req
    <3> QED
      BY <1>2, <1>4, <2>1, <3>1
  <2> QED
    BY <2>2, <2>3
<1>6. PICK more, row2, m : /\ more = Changed(SELF, actors[SELF].beh, s) /\ row2 = Extended(row, actors, more)
                           /\ m = Message(k, Value(a_inert))
  OBVIOUS
<1>7. Same(more)
  <2>1. IsIn(actors, Mutable, SELF)
    BY Running DEF IsIn, Mutable
  <2> QED
    BY <1>5, <1>6, <2>1, SameChanged
<1>8. Grown(actors, SELF, more)
  BY <1>7 DEF Same
<1>9. Fits(more, row2, m, k)
  <2>1. Itself(row2, k) /\ AnyCust(more, k) /\ Sinks(more) /\ IsFixed(more, a_inert)
    BY <1>3, <1>6, <1>8, DueItself, BothKept, ConstantsAre
  <2> QED
    BY <1>6, <2>1, CustSuits, ReplyFits
<1>10. Handle(more, <<m>>, << >>) /\ IsSeq(<< >>)
  BY <1>5, <1>6, OneSent DEF Become
<1> QED
  BY <1>3, <1>6, <1>7, <1>9, <1>10, Changes

LEMMA PairTypes ==
  ASSUME NEW open, NEW row, Runs(open, row), actors[SELF].beh \in Pairs, cons_type_req,
         actors[SELF].beh = "pair_type" => WHAT.op \notin {"copy_immutable", "set_car", "set_cdr"}
  PROVE  Onward
<1>1. /\ actors[SELF].beh \in ObjectBehs /\ IsSeq(actors) /\ IsValue(actors, MINE.hd) /\ IsValue(actors, MINE.tl)
      /\ IsValue(actors, SELF)
      /\ actors[SELF].beh = "pair_type" => IsFixed(actors, MINE.hd) /\ IsFixed(actors, MINE.tl)
      /\ actors[SELF].beh # "pair_type" => actors[SELF].beh = "cons_type"
  BY PairSelf DEF Pairs
<1>2. CASE WHAT.op = "type_eq"
  <2>1. Reply(Boolean(WHAT.type = "pair_type"))
    BY <1>2 DEF cons_type_req
  <2> QED
    BY <1>1, <1>2, <2>1, ConstantsAre, ObjectReplies
<1>3. CASE WHAT.op = "as_pair"
  <2>1. PICK w : w = Pair(MINE.hd, MINE.tl)
    OBVIOUS
  <2>2. Send(WHAT.cust, w)
    BY <1>3, <2>1 DEF cons_type_req
  <2>3. PairOK(actors, w) /\ (actors[SELF].beh # "cons_type" => FixedPair(actors, w))
    BY <1>1, <2>1 DEF Pair, PairOK, FixedPair, Pairs
  <2> QED
    BY <1>1, <1>3, <2>2, <2>3, AnswersPair
<1>4. CASE WHAT.op = "write"
  <2>1. PICK w : w = WriteTail(WHAT.cust, "(")
    OBVIOUS
  <2>2. Send(SELF, w)
    BY <1>4, <2>1 DEF cons_type_req
  <2>3. RequestOK(actors, SELF, w) /\ w.cust = WHAT.cust
    BY <1>1, <1>4, <2>1, DueObject, OthersAre DEF WriteTail
  <2> QED
    BY <1>1, <1>4, <2>2, <2>3, ObjectSends
<1>5. CASE WHAT.op \notin {"type_eq", "eval", "as_pair", "copy_immutable", "map", "foldl", "set_car", "set_cdr", "write", "write_tail"}
  <2>1. Throw
    BY <1>5 DEF cons_type_req
  <2> QED
    BY <1>1, <2>1, ObjectUnplain
<1> QED
  BY <1>1, <1>2, <1>3, <1>4, <1>5, PairEval, PairFoldl, PairForks, PairWrites, PairSets

LEMMA ConsType ==
  ASSUME NEW open, NEW row, Invariant(open, row), cons_type
  PROVE  Onward
<1>1. Behaves("cons_type") /\ cons_type_req
  BY DEF cons_type
<1>2. Runs(open, row) /\ actors[SELF].beh = "cons_type"
  BY <1>1, Behaving
<1> QED
  BY <1>1, <1>2, PairTypes DEF Pairs

LEMMA PairType ==
  ASSUME NEW open, NEW row, Invariant(open, row), pair_type
  PROVE  Onward
<1>1. Behaves("pair_type")
  BY DEF pair_type
<1>2. Runs(open, row) /\ actors[SELF].beh = "pair_type" /\ actors[SELF].beh \in Pairs
  BY <1>1, Behaving DEF Pairs
<1>3. actors[SELF].beh \in ObjectBehs /\ IsFixed(actors, SELF)
  BY <1>2, PairSelf
<1>4. CASE WHAT.op \in {"set_car", "set_cdr"}
  <2>1. Throw
    BY <1>4 DEF pair_type
  <2> QED
    BY <1>2, <1>3, <2>1, ObjectUnplain
<1>5. CASE WHAT.op = "copy_immutable"
  <2>1. Reply(SELF)
    BY <1>5 DEF pair_type
  <2> QED
    BY <1>2, <1>3, <1>5, <2>1, ObjectReplies
<1>6. CASE WHAT.op \notin {"set_car", "set_cdr", "copy_immutable"}
  <2>1. cons_type_req
    BY <1>6 DEF pair_type
  <2> QED
    BY <1>2, <1>6, <2>1, PairTypes
<1> QED
  BY <1>4, <1>5, <1>6

-----------------------------------------------------------------------------
(* Customers of pairs, and environments.                                   *)

(* A customer of one value that asks an object for its own customer.       *)
LEMMA ValueSends ==
  ASSUME NEW open, NEW row, Invariant(open, row), NEW b, b \in ValueBehs \cap WithCust, Behaves(b)
  PROVE  /\ Due(open, row, MINE.cust) /\ Cust(actors, MINE.cust) /\ CustomerOK(actors, b, MINE)
         /\ Runs(open, row) /\ actors[SELF].beh = b /\ IsSeq(actors)
         /\ WHAT.op = "value" /\ IsValue(actors, WHAT.val)
         /\ \A x, w : Send(x, w) /\ IsValue(actors, x) /\ RequestOK(actors, x, w) /\ w.cust = MINE.cust => Onward
<1>1. b \in ValueBehs \ {"tag_beh"}
  BY DEF WithCust, PairBehs, PlainArgsBehs, BrandBehs
<1>2. /\ Runs(open, row) /\ actors[SELF].beh = b /\ IsSeq(actors)
      /\ WHAT.op = "value" /\ IsValue(actors, WHAT.val) /\ CustomerOK(actors, b, MINE)
  BY <1>1, Gets
<1>3. Due(open, row, MINE.cust) /\ Cust(actors, MINE.cust)
  BY <1>2, DueCust
<1> QED
  BY <1>2, <1>3, Sends

LEMMA PairComb ==
  ASSUME NEW open, NEW row, Invariant(open, row), pair_comb_beh
  PROVE  Onward
<1>0. Behaves("pair_comb_beh") /\ "pair_comb_beh" \in ValueBehs \cap WithCust
  BY DEF pair_comb_beh, ValueBehs, WithCust
<1>1. PICK w : w = Comb(MINE.cust, MINE.opnds, MINE.env)
  OBVIOUS
<1>2. Send(WHAT.val, w)
  BY <1>1 DEF pair_comb_beh
<1>3. Cust(actors, MINE.cust) /\ CustomerOK(actors, "pair_comb_beh", MINE) /\ IsSeq(actors) /\ IsValue(actors, WHAT.val)
  BY <1>0, ValueSends
<1>4. RequestOK(actors, WHAT.val, w) /\ w.cust = MINE.cust
  BY <1>1, <1>3, RequestsAre DEF CustomerOK, Comb
<1> QED
  BY <1>0, <1>2, <1>3, <1>4, ValueSends

LEMMA ApplArgs ==
  ASSUME NEW open, NEW row, Invariant(open, row), appl_args_beh
  PROVE  Onward
<1>0. Behaves("appl_args_beh") /\ "appl_args_beh" \in ValueBehs \cap WithCust
  BY DEF appl_args_beh, ValueBehs, WithCust
<1>1. PICK w : w = Comb(MINE.cust, WHAT.val, MINE.env)
  OBVIOUS
<1>2. Send(MINE.comb, w)
  BY <1>1 DEF appl_args_beh
<1>3. Cust(actors, MINE.cust) /\ CustomerOK(actors, "appl_args_beh", MINE) /\ IsSeq(actors) /\ IsValue(actors, WHAT.val)
  BY <1>0, ValueSends
<1>4. IsValue(actors, MINE.comb) /\ IsValue(actors, MINE.env)
  BY <1>3 DEF CustomerOK
<1>5. RequestOK(actors, MINE.comb, w) /\ w.cust = MINE.cust
  BY <1>1, <1>3, <1>4, RequestsAre DEF Comb
<1> QED
  BY <1>0, <1>2, <1>4, <1>5, ValueSends

LEMMA IfTest ==
  ASSUME NEW open, NEW row, Invariant(open, row), if_test_beh
  PROVE  Onward
<1>0. Behaves("if_test_beh") /\ "if_test_beh" \in ValueBehs \cap WithCust
  BY DEF if_test_beh, ValueBehs, WithCust
<1>1. PICK w : w = [op |-> "if", cust |-> MINE.cust, cnsq |-> MINE.cnsq, altn |-> MINE.altn, env |-> MINE.env]
  OBVIOUS
<1>2. Send(WHAT.val, w)
  BY <1>1 DEF if_test_beh
<1>3. Cust(actors, MINE.cust) /\ CustomerOK(actors, "if_test_beh", MINE) /\ IsSeq(actors) /\ IsValue(actors, WHAT.val)
  BY <1>0, ValueSends
<1>4. IsValue(actors, MINE.cnsq) /\ IsValue(actors, MINE.altn) /\ IsValue(actors, MINE.env)
  BY <1>3 DEF CustomerOK
<1>5. RequestOK(actors, WHAT.val, w) /\ w.cust = MINE.cust
  <2>1. w.op = "if" /\ w.cust = MINE.cust /\ w.cnsq = MINE.cnsq /\ w.altn = MINE.altn /\ w.env = MINE.env
    BY <1>1
  <2>2. ~IsIn(actors, {"brand_type"}, WHAT.val)
    BY <1>3, NoBrand
  <2> QED
    BY <1>3, <1>4, <2>1, <2>2 DEF RequestOK, CustOK, Requests
<1> QED
  BY <1>0, <1>2, <1>3, <1>5, ValueSends

LEMMA PairWriteTail ==
  ASSUME NEW open, NEW row, Invariant(open, row), pair_write_tail_beh
  PROVE  Onward
<1>0. Behaves("pair_write_tail_beh") /\ "pair_write_tail_beh" \in ValueBehs \cap WithCust
  BY DEF pair_write_tail_beh, ValueBehs, WithCust
<1>3. /\ Due(open, row, MINE.cust) /\ Cust(actors, MINE.cust) /\ CustomerOK(actors, "pair_write_tail_beh", MINE)
      /\ IsSeq(actors) /\ WHAT.op = "value" /\ IsValue(actors, WHAT.val)
  BY <1>0, ValueSends
<1>4. CASE WHAT.val = a_true
  <2>1. PICK w : w = WriteTail(MINE.cust, " ")
    OBVIOUS
  <2>2. Send(MINE.right, w)
    BY <1>4, <2>1 DEF pair_write_tail_beh
  <2>3. IsValue(actors, MINE.right)
    BY <1>3 DEF CustomerOK
  <2>4. RequestOK(actors, MINE.right, w) /\ w.cust = MINE.cust
    BY <1>3, <2>1, <2>3, OthersAre DEF WriteTail
  <2> QED
    BY <1>0, <2>2, <2>3, <2>4, ValueSends
<1>5. CASE WHAT.val # a_true
  <2>1. Send(MINE.cust, WHAT)
    BY <1>5 DEF pair_write_tail_beh
  <2> QED
    BY <1>3, <2>1, Relays, CustSuits
<1> QED
  BY <1>4, <1>5

LEMMA PairFold ==
  ASSUME NEW open, NEW row, Invariant(open, row), pair_foldl_beh
  PROVE  Onward
<1>0. Behaves("pair_foldl_beh") /\ "pair_foldl_beh" \in ValueBehs \ {"tag_beh"}
  BY DEF pair_foldl_beh, ValueBehs
<1>1. /\ Runs(open, row) /\ actors[SELF].beh = "pair_foldl_beh" /\ IsSeq(actors)
      /\ WHAT.op = "value" /\ IsValue(actors, WHAT.val) /\ CustomerOK(actors, "pair_foldl_beh", MINE)
  BY <1>0, Gets
<1>2. PICK fold, k : fold = MINE.fold /\ k = fold.cust
  OBVIOUS
<1>3. FoldlOf(actors, fold, k) /\ Cust(actors, k) /\ AnyCust(actors, k) /\ IsValue(actors, MINE.right)
  BY <1>1, <1>2 DEF CustomerOK, Cust
<1>4. Due(open, row, k)
  <2>1. Direct("pair_foldl_beh", MINE) = {k}
    BY <1>2, DirectIs
  <2> QED
    BY <1>1, <1>3, <2>1, DueCustomer DEF Waiting, PlainCusts, ValueBehs
<1>5. PICK z : z = Oplus(fold.oplus, fold.zero, WHAT.val)
  OBVIOUS
<1>6. IsValue(actors, z)
  <2>1. fold.oplus \in {"boolean_and", "pair_tail"} /\ IsValue(actors, a_false)
    BY <1>1, <1>3, ConstantsAre DEF FoldlOf
  <2>2. z \in {WHAT.val, a_false}
    BY <1>5, <2>1 DEF Oplus
  <2> QED
    BY <1>1, <2>1, <2>2
<1>7. PICK w : w = Foldl(k, z, fold.oplus, fold.req)
  OBVIOUS
<1>8. Send(MINE.right, w)
  <2>1. fold = Foldl(k, fold.zero, fold.oplus, fold.req)
    BY <1>3 DEF FoldlOf
  <2>2. [fold EXCEPT !.zero = z] = w
    BY <1>7, <2>1 DEF Foldl
  <2>3. Send(MINE.right, [fold EXCEPT !.zero = Oplus(fold.oplus, fold.zero, WHAT.val)])
    BY <1>2 DEF pair_foldl_beh
  <2> QED
    BY <1>5, <2>2, <2>3
<1>9. /\ w.op = "foldl" /\ w.cust = k /\ w.zero = z /\ w.oplus = fold.oplus /\ w.req = fold.req
  BY <1>7 DEF Foldl
<1>10. FoldlOf(actors, w, k)
  BY <1>3, <1>6, <1>7, <1>9 DEF FoldlOf
<1>11. RequestOK(actors, MINE.right, w)
  <2>1. ~IsIn(actors, {"brand_type"}, MINE.right)
    BY <1>1, <1>3, NoBrand
  <2> QED
    BY <1>3, <1>9, <1>10, <2>1 DEF RequestOK, CustOK, Requests
<1> QED
  BY <1>3, <1>4, <1>8, <1>9, <1>11, Sends

(* What a customer of both answers is sent.                                *)
LEMMA PairCopy ==
  ASSUME NEW open, NEW row, Invariant(open, row), pair_copy_beh
  PROVE  Onward
<1>0. Behaves("pair_copy_beh")
  BY DEF pair_copy_beh
<1>1. Runs(open, row) /\ actors[SELF].beh = "pair_copy_beh"
  BY <1>0, Behaving
<1>2. SentOK(actors, row, SELF, WHAT) /\ StateOK(actors, row, SELF, "pair_copy_beh", MINE)
  BY <1>1, Handles
<1>3. FixedPair(actors, WHAT)
  BY <1>1, <1>2 DEF SentOK
<1>4. AnyCust(actors, MINE)
  BY <1>2 DEF StateOK, CustomerOK
<1>5. Due(open, row, MINE)
  <2>1. Direct("pair_copy_beh", MINE) = {MINE}
    BY DirectIs
  <2> QED
    BY <1>1, <1>4, <2>1, DueCustomer DEF Waiting, PlainCusts, BothBehs
<1>6. PICK b, s : b = "pair_type" /\ s = Halves(WHAT.hd, WHAT.tl)
  OBVIOUS
<1>7. Answer(MINE, b, s)
  BY <1>6 DEF pair_copy_beh
<1>8. Made1(MINE, b, s)
  <2>1. s.hd = WHAT.hd /\ s.tl = WHAT.tl
    BY <1>6 DEF Halves
  <2>2. ObjectOK(actors, b, s)
    BY <1>3, <1>6, <2>1 DEF ObjectOK, FixedPair
  <2> QED
    BY <1>6, <2>2 DEF Made1, ObjectBehs, Immutable
<1> QED
  BY <1>5, <1>7, <1>8, Makes

LEMMA PairMap ==
  ASSUME NEW open, NEW row, Invariant(open, row), pair_map_beh
  PROVE  Onward
<1>0. Behaves("pair_map_beh")
  BY DEF pair_map_beh
<1>1. Runs(open, row) /\ actors[SELF].beh = "pair_map_beh"
  BY <1>0, Behaving
<1>2. SentOK(actors, row, SELF, WHAT) /\ StateOK(actors, row, SELF, "pair_map_beh", MINE)
  BY <1>1, Handles
<1>3. PairOK(actors, WHAT)
  BY <1>1, <1>2 DEF SentOK
<1>4. Cust(actors, MINE) /\ AnyCust(actors, MINE)
  BY <1>2 DEF StateOK, CustomerOK, Cust
<1>5. Due(open, row, MINE)
  <2>1. Direct("pair_map_beh", MINE) = {MINE}
    BY DirectIs
  <2> QED
    BY <1>1, <1>4, <2>1, DueCustomer DEF Waiting, PlainCusts, BothBehs
<1>6. PICK b, s : b = "cons_type" /\ s = Halves(WHAT.hd, WHAT.tl)
  OBVIOUS
<1>7. Answer(MINE, b, s)
  BY <1>6 DEF pair_map_beh
<1>8. Made1(MINE, b, s)
  <2>1. s.hd = WHAT.hd /\ s.tl = WHAT.tl
    BY <1>6 DEF Halves
  <2>2. ObjectOK(actors, b, s)
    BY <1>3, <1>6, <2>1 DEF ObjectOK, PairOK
  <2> QED
    BY <1>4, <1>6, <2>2 DEF Made1, ObjectBehs, Mutable
<1> QED
  BY <1>5, <1>7, <1>8, Makes

LEMMA EnvType ==
  ASSUME NEW open, NEW row, Invariant(open, row), env_type
  PROVE  Onward
<1>0. Behaves("env_type")
  BY DEF env_type
<1>1. Runs(open, row) /\ actors[SELF].beh = "env_type" /\ actors[SELF].beh \in ObjectBehs \ {"brand_type", "cons_type"}
  BY <1>0, Behaving DEF ObjectBehs, Mutable
<1>2. ObjectOK(actors, "env_type", MINE) /\ RequestOK(actors, SELF, WHAT)
  BY <1>1, DueObject
<1>3. CASE WHAT.op = "lookup" /\ WHAT.key \in DOMAIN MINE.map
  <2>1. Reply(MINE.map[WHAT.key])
    BY <1>3 DEF env_type
  <2>2. IsValue(actors, MINE.map[WHAT.key])
    BY <1>2, <1>3 DEF ObjectOK
  <2> QED
    BY <1>1, <1>3, <2>1, <2>2, ObjectReplies
<1>4. CASE WHAT.op = "lookup" /\ WHAT.key \notin DOMAIN MINE.map
  <2>1. Throw \/ Send(MINE.parent, WHAT)
    BY <1>4 DEF env_type
  <2>2. IsValue(actors, MINE.parent) /\ IsSeq(actors)
    BY <1>1, <1>2, Running DEF ObjectOK
  <2>3. ~IsIn(actors, {"brand_type"}, MINE.parent)
    BY <2>2, NoBrand
  <2>4. RequestOK(actors, MINE.parent, WHAT)
    BY <1>2, <1>4, <2>3 DEF RequestOK, CustOK
  <2> QED
    BY <1>1, <1>4, <2>1, <2>2, <2>4, ObjectSends, ObjectUnplain
<1>5. CASE WHAT.op # "lookup"
  <2>1. Typed("env_type", "#environment")
    BY <1>5 DEF env_type
  <2> QED
    BY <1>1, <2>1, TypedTypes
<1> QED
  BY <1>3, <1>4, <1>5

LEMMA Newline ==
  ASSUME NEW open, NEW row, Invariant(open, row), newline_beh
  PROVE  Onward
<1>0. Behaves("newline_beh") /\ "newline_beh" \in ValueBehs \cap WithCust
  BY DEF newline_beh, ValueBehs, WithCust
<1>1. /\ Due(open, row, MINE.cust) /\ Cust(actors, MINE.cust) /\ CustomerOK(actors, "newline_beh", MINE)
      /\ Runs(open, row)
  BY <1>0, ValueSends
<1>2. PICK k, m, row2, tokens : /\ k = MINE.cust /\ m = Message(k, Value(MINE.val)) /\ tokens = <<"\n">>
                                /\ row2 = Extended(row, actors, actors)
  OBVIOUS
<1>3. IsSeq(tokens) /\ Handle(actors, <<m>>, tokens)
  BY <1>2, OneSent DEF newline_beh
<1>4. Same(actors) /\ Grown(actors, SELF, actors)
  BY <1>1, SameSelf DEF Same
<1>5. IsValue(actors, MINE.val)
  BY <1>1 DEF CustomerOK
<1>6. Fits(actors, row2, m, k)
  <2>1. Itself(row2, k) /\ AnyCust(actors, k) /\ Sinks(actors)
    BY <1>1, <1>2, <1>4, DueItself, BothKept
  <2> QED
    BY <1>1, <1>2, <1>5, <2>1, CustSuits, ReplyFits
<1> QED
  BY <1>1, <1>2, <1>3, <1>4, <1>6, Changes
=============================================================================
