--------------------------- MODULE BehaviourProofs ---------------------------
(***************************************************************************)
(* Proofs that every behaviour of the interpreter, and the code around it, *)
(* leaves an orderly state orderly: every customer that may still be       *)
(* answered is answered by one actor or message only. What follows for     *)
(* every program: copies are deep, customers are answered at most once,    *)
(* and no report is lost.                                                  *)
(***************************************************************************)
EXTENDS EvaluatorProofs

-----------------------------------------------------------------------------
(* Operatives that take their operands as a list.                          *)

(* Lists of operands.                                                      *)
LEMMA HalvesAre ==
  ASSUME NEW open, NEW row, Runs(open, row), NEW v, IsPair(v)
  PROVE  IsValue(actors, Hd(v)) /\ IsValue(actors, Tl(v))
<1>1. v \in DOMAIN actors /\ actors[v].beh \in {"cons_type", "pair_type"} /\ StatesOK(actors, row)
  BY Running DEF IsPair, Is
<1>2. ObjectOK(actors, actors[v].beh, actors[v].mine)
  BY <1>1 DEF StatesOK, StateOK
<1> QED
  BY <1>1, <1>2 DEF ObjectOK, IsFixed, Hd, Tl

LEMMA ValuesAreInts ==
  ASSUME NEW all, IsSeq(all), NEW v, IsValue(all, v)
  PROVE  v \in Int
BY LengthIs DEF IsValue, IsIn, NIL, NotActor

LEMMA WalkIs ==
  ASSUME NEW open, NEW row, Runs(open, row), NEW list, IsValue(actors, list)
  PROVE  \A k \in Nat : IsValue(actors, walk(list)[k])
<1>1. walk(list) = Orbit(tails, list)
  BY DEF walk, Orbit
<1>2. PICK w : w = walk(list)
  OBVIOUS
<1>3. w[0] = list /\ \A k \in Nat : w[k + 1] = tails[w[k]]
  BY <1>1, <1>2, OrbitDef
<1>4. PICK S : S = {k \in Nat : IsValue(actors, w[k])}
  OBVIOUS
<1>5. 0 \in S
  BY <1>3, <1>4
<1>6. ASSUME NEW k \in Nat, k \in S
      PROVE  k + 1 \in S
  <2>1. IsValue(actors, w[k]) /\ w[k] \in Int
    BY <1>4, <1>6, ValuesAreInts, Running
  <2>2. tails[w[k]] = IF IsPair(w[k]) THEN Tl(w[k]) ELSE w[k]
    BY <2>1 DEF tails
  <2>3. IsValue(actors, tails[w[k]])
    BY <2>1, <2>2, HalvesAre
  <2> QED
    BY <1>3, <1>4, <2>3
<1>7. \A k \in Nat : k \in S
  BY <1>5, <1>6, NatSetInduction
<1> QED
  BY <1>2, <1>4, <1>7

LEMMA EndIs ==
  ASSUME NEW open, NEW row, Runs(open, row), NEW list, HasEnd(list)
  PROVE  length(list) \in Nat /\ \A k \in 0 .. length(list) - 1 : IsPair(walk(list)[k])
<1>1. Len(actors) \in Nat
  BY Running, LengthIs
<1>2. PICK S : S = {n \in Nat : ~IsPair(walk(list)[n])}
  OBVIOUS
<1>3. Len(actors) \in S
  BY <1>1, <1>2 DEF HasEnd
<1>4. PICK m \in S : \A k \in S : m <= k
  BY <1>2, <1>3, LeastNat
<1>5. m \in 0 .. Len(actors) /\ ~IsPair(walk(list)[m])
  BY <1>1, <1>2, <1>3, <1>4
<1>6. ASSUME NEW k \in 0 .. m - 1
      PROVE  IsPair(walk(list)[k])
  BY <1>2, <1>4, <1>6
<1>7. \E n \in 0 .. Len(actors) : ~IsPair(walk(list)[n]) /\ \A k \in 0 .. n - 1 : IsPair(walk(list)[k])
  BY <1>5, <1>6
<1>8. /\ length(list) \in 0 .. Len(actors)
      /\ \A k \in 0 .. length(list) - 1 : IsPair(walk(list)[k])
  BY <1>7 DEF length
<1> QED
  BY <1>1, <1>8

LEMMA TupleIs ==
  ASSUME NEW open, NEW row, Runs(open, row), NEW list, IsValue(actors, list), HasEnd(list)
  PROVE  ArgsOK(actors, as_tuple(list))
<1>1. PICK n \in Nat : n = length(list) /\ \A k \in 0 .. n - 1 : IsPair(walk(list)[k])
  BY EndIs
<1>2. PICK e : e = elements(list)
  OBVIOUS
<1>3. e = [i \in 1 .. n |-> Hd(walk(list)[i - 1])]
  BY <1>1, <1>2 DEF elements
<1>4. e = [i \in 1 .. n |-> e[i]]
  BY <1>3
<1>5. IsSeq(e) /\ DOMAIN e = 1 .. n
  BY <1>3, <1>4, IsSeqOf
<1>6. ASSUME NEW i \in 1 .. n
      PROVE  IsValue(actors, e[i])
  <2>1. i - 1 \in 0 .. n - 1
    OBVIOUS
  <2>2. IsPair(walk(list)[i - 1])
    BY <1>1, <2>1
  <2> QED
    BY <1>3, <2>2, HalvesAre
<1>7. as_tuple(list) = ProperTuple(e) \/ as_tuple(list) = FALSETuple
  BY <1>2 DEF as_tuple
<1>8. FALSETuple.op = "FALSE" /\ ProperTuple(e).op = "args" /\ ProperTuple(e).args = e
  BY DEF FALSETuple, ProperTuple
<1> QED
  BY <1>5, <1>6, <1>7, <1>8 DEF ArgsOK

-----------------------------------------------------------------------------
(* Operatives.                                                             *)
LEMMA Combining ==
  ASSUME NEW open, NEW row, Invariant(open, row), NEW b, b \in ObjectBehs \ {"brand_type", "cons_type"}, Behaves(b)
  PROVE  /\ Runs(open, row) /\ actors[SELF].beh = b /\ actors[SELF].beh \in ObjectBehs /\ IsSeq(actors)
         /\ ObjectOK(actors, b, MINE)
         /\ oper_type => Onward
         /\ Throw => Onward
         /\ WHAT.op = "comb" => /\ Due(open, row, WHAT.cust) /\ Cust(actors, WHAT.cust)
                                /\ IsValue(actors, WHAT.opnds) /\ IsValue(actors, WHAT.env)
                                /\ \A v : IsValue(actors, v) /\ Reply(v) => Onward
<1>1. Runs(open, row) /\ actors[SELF].beh = b
  BY Behaving
<1>2. actors[SELF].beh \in ObjectBehs \ {"brand_type", "cons_type"} /\ IsSeq(actors)
  BY <1>1, Running
<1>3. ObjectOK(actors, b, MINE)
  BY <1>1, <1>2, DueObject
<1>4. oper_type => Onward
  BY <1>1, <1>2, TypedTypes DEF oper_type
<1>5. Throw => Onward
  BY <1>1, <1>2, ObjectUnplain
<1>6. ASSUME WHAT.op = "comb"
      PROVE  /\ Due(open, row, WHAT.cust) /\ Cust(actors, WHAT.cust)
             /\ IsValue(actors, WHAT.opnds) /\ IsValue(actors, WHAT.env)
             /\ \A v : IsValue(actors, v) /\ Reply(v) => Onward
  <2>1. Due(open, row, WHAT.cust) /\ Cust(actors, WHAT.cust) /\ RequestOK(actors, SELF, WHAT)
    BY <1>1, <1>2, <1>6, DueObject
  <2>2. IsValue(actors, WHAT.opnds) /\ IsValue(actors, WHAT.env)
    BY <1>6, <2>1 DEF RequestOK, CombOf
  <2>3. \A v : IsValue(actors, v) /\ Reply(v) => Onward
    BY <1>1, <1>2, <1>6, ObjectReplies
  <2> QED
    BY <2>1, <2>2, <2>3
<1> QED
  BY <1>1, <1>2, <1>3, <1>4, <1>5, <1>6

LEMMA ArgsOperative ==
  ASSUME NEW open, NEW row, Invariant(open, row), args_oper
  PROVE  Onward
<1>0. Behaves("args_oper") /\ "args_oper" \in ObjectBehs \ {"brand_type", "cons_type"}
  BY DEF args_oper, Listing, Operative, ObjectBehs, Immutable
<1>1. Runs(open, row) /\ ObjectOK(actors, "args_oper", MINE) /\ (oper_type => Onward)
  BY <1>0, Combining
<1>2. CASE WHAT.op = "comb"
  <2>1. PICK b, s, w, k : b = MINE /\ s = [cust |-> WHAT.cust, env |-> WHAT.env] /\ w = as_tuple(WHAT.opnds) /\ k = WHAT.cust
    OBVIOUS
  <2>2. HasEnd(WHAT.opnds) /\ React(<<Actor(b, s)>>, <<Message(New(1), w)>>)
    BY <1>2, <2>1 DEF args_oper, Listing, Operative
  <2>3. Due(open, row, k) /\ Cust(actors, k) /\ IsValue(actors, WHAT.opnds) /\ IsValue(actors, WHAT.env)
    BY <1>0, <1>2, <2>1, Combining
  <2>4. ArgsOK(actors, w)
    BY <1>1, <2>1, <2>2, <2>3, TupleIs
  <2>5. b \in PlainArgsBehs \cup {"map_args_beh"}
    BY <1>1, <2>1 DEF ObjectOK
  <2>6. Asker(k, b, s)
    <3>1. s.cust = k /\ s.env = WHAT.env
      BY <2>1
    <3>2. CustomerOK(actors, b, s)
      BY <2>3, <2>5, <3>1 DEF CustomerOK, PlainArgsBehs, BrandBehs
    <3>3. b \in WithCust /\ b \in PlainCusts \ {"throw_beh"}
      BY <2>5 DEF WithCust, PlainCusts, ArgsBehs, PlainArgsBehs
    <3> QED
      BY <3>1, <3>2, <3>3, DirectIs DEF Asker
  <2>7. b \in ArgsBehs
    BY <2>5 DEF ArgsBehs
  <2> QED
    BY <2>2, <2>3, <2>4, <2>6, <2>7, Collects
<1>3. CASE WHAT.op # "comb"
  BY <1>1, <1>3 DEF args_oper, Listing, Operative
<1> QED
  BY <1>2, <1>3

LEMMA BrandOperative ==
  ASSUME NEW open, NEW row, Invariant(open, row), brand_oper
  PROVE  Onward
<1>0. Behaves("brand_oper") /\ "brand_oper" \in ObjectBehs \ {"brand_type", "cons_type"}
  BY DEF brand_oper, Listing, Operative, ObjectBehs, Immutable
<1>1. Runs(open, row) /\ ObjectOK(actors, "brand_oper", MINE) /\ (oper_type => Onward)
  BY <1>0, Combining
<1>2. CASE WHAT.op = "comb"
  <2>1. PICK b, s, w, k : /\ b = MINE.args_beh /\ s = [cust |-> WHAT.cust, brand |-> MINE.brand]
                          /\ w = as_tuple(WHAT.opnds) /\ k = WHAT.cust
    OBVIOUS
  <2>2. HasEnd(WHAT.opnds) /\ React(<<Actor(b, s)>>, <<Message(New(1), w)>>)
    BY <1>2, <2>1 DEF brand_oper, Listing, Operative
  <2>3. Due(open, row, k) /\ Cust(actors, k) /\ IsValue(actors, WHAT.opnds)
    BY <1>0, <1>2, <2>1, Combining
  <2>4. ArgsOK(actors, w)
    BY <1>1, <2>1, <2>2, <2>3, TupleIs
  <2>5. b \in BrandBehs /\ IsIn(actors, {"brand_type"}, MINE.brand)
    BY <1>1, <2>1 DEF ObjectOK
  <2>6. Asker(k, b, s)
    <3>1. s.cust = k /\ s.brand = MINE.brand
      BY <2>1
    <3>2. CustomerOK(actors, b, s)
      BY <2>3, <2>5, <3>1 DEF CustomerOK, PlainArgsBehs, BrandBehs, PairBehs
    <3>3. b \in WithCust /\ b \in PlainCusts \ {"throw_beh"}
      BY <2>5 DEF WithCust, PlainCusts, ArgsBehs, BrandBehs
    <3> QED
      BY <3>1, <3>2, <3>3, DirectIs DEF Asker
  <2>7. b \in ArgsBehs
    BY <2>5 DEF ArgsBehs
  <2> QED
    BY <2>2, <2>3, <2>4, <2>6, <2>7, Collects
<1>3. CASE WHAT.op # "comb"
  BY <1>1, <1>3 DEF brand_oper, Listing, Operative
<1> QED
  BY <1>2, <1>3

(* Operatives that reply, or fail.                                         *)
LEMMA ReplyingOpers ==
  ASSUME NEW open, NEW row, Invariant(open, row),
         obj_rel_oper \/ list_oper \/ car_oper \/ cdr_oper \/ num_rel_oper
  PROVE  Onward
<1>1. PICK b \in {"obj_rel_oper", "list_oper", "car_oper", "cdr_oper", "num_rel_oper"} : Behaves(b)
  BY DEF obj_rel_oper, list_oper, car_oper, cdr_oper, num_rel_oper, Listing, Operative
<1>2. b \in ObjectBehs \ {"brand_type", "cons_type"}
  BY DEF ObjectBehs, Immutable
<1>3. Runs(open, row) /\ (oper_type => Onward) /\ (Throw => Onward)
  BY <1>1, <1>2, Combining
<1>4. CASE WHAT.op = "comb"
  <2>1. IsValue(actors, WHAT.opnds) /\ \A v : IsValue(actors, v) /\ Reply(v) => Onward
    BY <1>1, <1>2, <1>4, Combining
  <2>2. \A c : IsValue(actors, Boolean(c))
    BY <1>3, ConstantsAre
  <2>3. CASE obj_rel_oper
    <3>1. \E c : Reply(Boolean(c))
      BY <1>4, <2>3 DEF obj_rel_oper, Listing, Operative
    <3> QED
      BY <2>1, <2>2, <3>1
  <2>4. CASE list_oper
    BY <1>4, <2>1, <2>4 DEF list_oper, Operative
  <2>5. CASE car_oper \/ cdr_oper
    <3>1. Throw \/ (OnePair /\ (Reply(Hd(Hd(WHAT.opnds))) \/ Reply(Tl(Hd(WHAT.opnds)))))
      BY <1>4, <2>5 DEF car_oper, cdr_oper, Operative
    <3>2. OnePair => IsValue(actors, Hd(Hd(WHAT.opnds))) /\ IsValue(actors, Tl(Hd(WHAT.opnds)))
      BY <1>3, HalvesAre DEF OnePair
    <3> QED
      BY <1>3, <2>1, <3>1, <3>2
  <2>6. CASE num_rel_oper
    <3>1. Throw \/ Reply(a_true) \/ Reply(a_false)
      BY <1>4, <2>6 DEF num_rel_oper, Listing, Operative
    <3>2. IsValue(actors, a_true) /\ IsValue(actors, a_false)
      BY <1>3, ConstantsAre
    <3> QED
      BY <1>3, <2>1, <3>1, <3>2
  <2> QED
    BY <2>3, <2>4, <2>5, <2>6
<1>5. CASE WHAT.op # "comb"
  BY <1>3, <1>5 DEF obj_rel_oper, list_oper, car_oper, cdr_oper, num_rel_oper, Listing, Operative
<1> QED
  BY <1>4, <1>5

LEMMA NumFoldl ==
  ASSUME NEW open, NEW row, Invariant(open, row), num_foldl_oper
  PROVE  Onward
<1>0. Behaves("num_foldl_oper") /\ "num_foldl_oper" \in ObjectBehs \ {"brand_type", "cons_type"}
  BY DEF num_foldl_oper, Listing, Operative, ObjectBehs, Immutable
<1>1. Runs(open, row) /\ (oper_type => Onward) /\ (Throw => Onward)
  BY <1>0, Combining
<1>2. CASE WHAT.op = "comb"
  <2>1. Throw \/ \E v : Answer(WHAT.cust, "number_type", v)
    BY <1>2 DEF num_foldl_oper, Listing, Operative
  <2>2. Due(open, row, WHAT.cust)
    BY <1>0, <1>2, Combining
  <2>3. \A v : Made1(WHAT.cust, "number_type", v)
    BY DEF Made1, ObjectOK, ObjectBehs, Immutable
  <2> QED
    BY <1>1, <2>1, <2>2, <2>3, Makes
<1>3. CASE WHAT.op # "comb"
  BY <1>1, <1>3 DEF num_foldl_oper, Listing, Operative
<1> QED
  BY <1>2, <1>3

-----------------------------------------------------------------------------
(* What parameter trees bind.                                              *)

(* What a parameter tree binds.                                            *)
Leaves == {[binds |-> FALSE]}
            \cup [binds : {TRUE}, name : {actors[a].mine : a \in DOMAIN actors}, val : Int]
BoundOK(s) == \A i \in DOMAIN s : s[i].binds => IsValue(actors, s[i].val)
AreLeaves(f) ==
  /\ f \in [Int \X Int -> Seq(Leaves)]
  /\ \A p, v \in Int : IsValue(actors, v) => BoundOK(f[<<p, v>>])

LEMMA DiffersIs == Differs \in Seq(Leaves) /\ BoundOK(Differs) /\ << >> \in Seq(Leaves) /\ BoundOK(<< >>)
<1>1. [binds |-> FALSE] \in Leaves
  BY DEF Leaves
<1>2. PICK x : x = [binds |-> FALSE]
  OBVIOUS
<1>3. Differs = <<x>> /\ x \in Leaves /\ ~x.binds
  BY <1>1, <1>2 DEF Differs
<1> QED
  BY <1>3 DEF BoundOK

LEMMA BindsIs ==
  ASSUME NEW a \in DOMAIN actors, NEW v \in Int
  PROVE  Binds(actors[a].mine, v) \in Seq(Leaves) /\ (IsValue(actors, v) => BoundOK(Binds(actors[a].mine, v)))
<1>1. PICK x : x = [binds |-> TRUE, name |-> actors[a].mine, val |-> v]
  OBVIOUS
<1>2. x \in Leaves /\ x.val = v
  <2>1. actors[a].mine \in {actors[c].mine : c \in DOMAIN actors}
    OBVIOUS
  <2>2. x \in [binds : {TRUE}, name : {actors[c].mine : c \in DOMAIN actors}, val : Int]
    BY <1>1, <2>1
  <2> QED
    BY <1>1, <2>2 DEF Leaves
<1>3. Binds(actors[a].mine, v) = <<x>>
  BY <1>1 DEF Binds
<1> QED
  BY <1>2, <1>3 DEF BoundOK

LEMMA BothBound ==
  ASSUME NEW S, NEW s \in Seq(S), NEW t \in Seq(S), BoundOK(s), BoundOK(t)
  PROVE  BoundOK(s \o t)
<1>1. Len(s) \in Nat /\ Len(t) \in Nat /\ DOMAIN s = 1 .. Len(s) /\ DOMAIN t = 1 .. Len(t)
  OBVIOUS
<1>2. /\ DOMAIN (s \o t) = 1 .. Len(s) + Len(t)
      /\ \A i \in 1 .. Len(s) + Len(t) : (s \o t)[i] = IF i <= Len(s) THEN s[i] ELSE t[i - Len(s)]
  OBVIOUS
<1>3. ASSUME NEW i \in DOMAIN (s \o t), (s \o t)[i].binds
      PROVE  IsValue(actors, (s \o t)[i].val)
  <2>1. CASE i <= Len(s)
    BY <1>1, <1>2, <1>3, <2>1 DEF BoundOK
  <2>2. CASE i > Len(s)
    <3>1. i - Len(s) \in DOMAIN t /\ (s \o t)[i] = t[i - Len(s)]
      BY <1>1, <1>2, <2>2
    <3> QED
      BY <1>3, <3>1 DEF BoundOK
  <2> QED
    BY <1>1, <1>2, <2>1, <2>2
<1> QED
  BY <1>3 DEF BoundOK

LEMMA DeeperAt ==
  ASSUME NEW open, NEW row, Runs(open, row), NEW f, AreLeaves(f), NEW p \in Int, NEW v \in Int
  PROVE  Deeper(f)[<<p, v>>] \in Seq(Leaves) /\ (IsValue(actors, v) => BoundOK(Deeper(f)[<<p, v>>]))
<1>1. PICK d : d = Deeper(f)[<<p, v>>]
  OBVIOUS
<1>2. d = CASE p = a_ignore -> << >>
            [] p = a_nil -> IF v = a_nil THEN << >> ELSE Differs
            [] IsPair(p) ->
                 IF IsPair(v) THEN f[<<Hd(p), Hd(v)>>] \o f[<<Tl(p), Tl(v)>>]
                 ELSE Differs
            [] Is("symbol_type", p) -> Binds(actors[p].mine, v)
            [] OTHER -> Differs
  BY <1>1 DEF Deeper
<1>3. \/ d \in {<< >>, Differs}
      \/ IsPair(p) /\ IsPair(v) /\ d = f[<<Hd(p), Hd(v)>>] \o f[<<Tl(p), Tl(v)>>]
      \/ Is("symbol_type", p) /\ d = Binds(actors[p].mine, v)
  <2>1. p \in {a_ignore, a_nil} => ~IsPair(p) /\ ~Is("symbol_type", p) /\ a_ignore # a_nil
    <3>1. \A a \in 2 .. 6 : actors[a].beh \in {"unit_type", "null_type", "any_type", "bool_type"}
      BY Running DEF Orderly, Shape
    <3> QED
      BY <3>1 DEF a_ignore, a_nil, IsPair, Is
  <2>2. Is("symbol_type", p) => ~IsPair(p)
    BY DEF Is, IsPair
  <2> QED
    BY <1>2, <2>1, <2>2
<1>4. CASE d \in {<< >>, Differs}
  BY <1>1, <1>4, DiffersIs
<1>5. CASE IsPair(p) /\ IsPair(v) /\ d = f[<<Hd(p), Hd(v)>>] \o f[<<Tl(p), Tl(v)>>]
  <2>1. IsValue(actors, Hd(p)) /\ IsValue(actors, Tl(p)) /\ IsValue(actors, Hd(v)) /\ IsValue(actors, Tl(v))
    BY <1>5, HalvesAre
  <2>2. Hd(p) \in Int /\ Tl(p) \in Int /\ Hd(v) \in Int /\ Tl(v) \in Int
    BY <2>1, ValuesAreInts, Running
  <2>3. PICK s, t : s = f[<<Hd(p), Hd(v)>>] /\ t = f[<<Tl(p), Tl(v)>>]
    OBVIOUS
  <2>4. s \in Seq(Leaves) /\ t \in Seq(Leaves)
    BY <2>2, <2>3 DEF AreLeaves
  <2>5. BoundOK(s) /\ BoundOK(t)
    BY <2>1, <2>2, <2>3 DEF AreLeaves
  <2>6. s \o t \in Seq(Leaves) /\ BoundOK(s \o t)
    BY <2>4, <2>5, BothBound
  <2> QED
    BY <1>1, <1>5, <2>3, <2>6
<1>6. CASE Is("symbol_type", p) /\ d = Binds(actors[p].mine, v)
  BY <1>1, <1>6, BindsIs DEF Is
<1> QED
  BY <1>3, <1>4, <1>5, <1>6

LEMMA DeeperIs ==
  ASSUME NEW open, NEW row, Runs(open, row), NEW f, AreLeaves(f)
  PROVE  AreLeaves(Deeper(f))
<1>1. PICK d : d = Deeper(f)
  OBVIOUS
<1>2. \A p, v \in Int : d[<<p, v>>] \in Seq(Leaves) /\ (IsValue(actors, v) => BoundOK(d[<<p, v>>]))
  BY <1>1, DeeperAt
<1>3. d = [at \in Int \X Int |-> d[at]]
  BY <1>1 DEF Deeper
<1>4. \A at \in Int \X Int : d[at] \in Seq(Leaves)
  <2>1. ASSUME NEW at \in Int \X Int
        PROVE  d[at] \in Seq(Leaves)
    <3>1. PICK p, v \in Int : at = <<p, v>>
      OBVIOUS
    <3> QED
      BY <1>2, <3>1
  <2> QED
    BY <2>1
<1>5. d \in [Int \X Int -> Seq(Leaves)]
  BY <1>3, <1>4
<1> QED
  BY <1>1, <1>2, <1>5 DEF AreLeaves

LEMMA LeavesToIs ==
  ASSUME NEW open, NEW row, Runs(open, row)
  PROVE  \A n \in Nat : AreLeaves(leavesTo[n])
<1>1. PICK base : base = [at \in Int \X Int |-> Differs]
  OBVIOUS
<1>2. PICK all : all = {f \in [Int \X Int -> Seq(Leaves)] : AreLeaves(f)}
  OBVIOUS
<1>3. PICK step : step = [f \in all |-> Deeper(f)]
  OBVIOUS
<1>4. PICK orbit : orbit = Orbit(step, base)
  OBVIOUS
<1>5. DOMAIN orbit = Nat /\ orbit[0] = base /\ \A k \in Nat : orbit[k + 1] = step[orbit[k]]
  BY <1>4, OrbitDef
<1>6. AreLeaves(base)
  <2>1. \A p, v \in Int : base[<<p, v>>] = Differs
    BY <1>1
  <2>2. base \in [Int \X Int -> Seq(Leaves)]
    BY <1>1, DiffersIs
  <2> QED
    BY <2>1, <2>2, DiffersIs DEF AreLeaves
<1>7. \A f : AreLeaves(f) => f \in all /\ step[f] = Deeper(f) /\ AreLeaves(step[f])
  <2>1. ASSUME NEW f, AreLeaves(f)
        PROVE  f \in all /\ step[f] = Deeper(f) /\ AreLeaves(step[f])
    <3>1. f \in all
      BY <1>2, <2>1 DEF AreLeaves
    <3>2. step[f] = Deeper(f)
      BY <1>3, <3>1
    <3> QED
      BY <2>1, <3>1, <3>2, DeeperIs
  <2> QED
    BY <2>1
<1>8. \A n \in Nat : AreLeaves(orbit[n])
  <2>1. PICK S : S = {n \in Nat : AreLeaves(orbit[n])}
    OBVIOUS
  <2>2. 0 \in S
    BY <1>5, <1>6, <2>1
  <2>3. ASSUME NEW n \in Nat, n \in S
        PROVE  n + 1 \in S
    BY <1>5, <1>7, <2>1, <2>3
  <2>4. \A n \in Nat : n \in S
    BY <2>2, <2>3, NatSetInduction
  <2> QED
    BY <2>1, <2>4
<1>9. \A n \in Nat : orbit[n] = IF n = 0 THEN base ELSE Deeper(orbit[n - 1])
  <2>1. ASSUME NEW n \in Nat
        PROVE  orbit[n] = IF n = 0 THEN base ELSE Deeper(orbit[n - 1])
    <3>1. CASE n = 0
      BY <1>5, <3>1
    <3>2. CASE n # 0
      <4>1. n - 1 \in Nat /\ (n - 1) + 1 = n
        BY <3>2
      <4>2. orbit[n] = step[orbit[n - 1]] /\ AreLeaves(orbit[n - 1])
        BY <1>5, <1>8, <4>1
      <4>3. orbit[n] = Deeper(orbit[n - 1])
        BY <1>7, <4>2
      <4> QED
        BY <3>2, <4>3
    <3> QED
      BY <3>1, <3>2
  <2> QED
    BY <2>1
<1>10. \E g : g = [depth \in Nat |-> IF depth = 0 THEN base ELSE Deeper(g[depth - 1])]
  <2>1. PICK g : g = [n \in Nat |-> orbit[n]]
    OBVIOUS
  <2>2. ASSUME NEW n \in Nat
        PROVE  g[n] = IF n = 0 THEN base ELSE Deeper(g[n - 1])
    <3>1. n # 0 => n - 1 \in Nat
      OBVIOUS
    <3> QED
      BY <1>9, <2>1, <3>1
  <2>3. g = [n \in Nat |-> g[n]]
    BY <2>1
  <2>4. g = [n \in Nat |-> IF n = 0 THEN base ELSE Deeper(g[n - 1])]
    BY <2>2, <2>3
  <2> QED
    BY <2>4
<1> DEFINE to == CHOOSE g : g = [depth \in Nat |-> IF depth = 0 THEN base ELSE Deeper(g[depth - 1])]
<1>11. to = [n \in Nat |-> IF n = 0 THEN base ELSE Deeper(to[n - 1])]
  BY <1>10
<1>12. leavesTo = to
  BY <1>1 DEF leavesTo
<1> HIDE DEF to
<1>13. \A n \in Nat : AreLeaves(to[n])
  <2>1. PICK S : S = {n \in Nat : AreLeaves(to[n])}
    OBVIOUS
  <2>2. 0 \in S
    BY <1>6, <1>11, <2>1
  <2>3. ASSUME NEW n \in Nat, n \in S
        PROVE  n + 1 \in S
    <3>1. n + 1 \in Nat /\ n + 1 # 0 /\ (n + 1) - 1 = n
      OBVIOUS
    <3>2. to[n + 1] = Deeper(to[n])
      BY <1>11, <3>1
    <3> QED
      BY <2>1, <2>3, <3>1, <3>2, DeeperIs
  <2>4. \A n \in Nat : n \in S
    BY <2>2, <2>3, NatSetInduction
  <2> QED
    BY <2>1, <2>4
<1> QED
  BY <1>12, <1>13

(* The leaves of a parameter tree are bound to values.                     *)
LEMMA LeavesAre ==
  ASSUME NEW open, NEW row, Runs(open, row), NEW ptree, IsValue(actors, ptree), NEW value, IsValue(actors, value)
  PROVE  leaves(ptree, value) \in Seq(Leaves) /\ BoundOK(leaves(ptree, value))
<1>1. ptree \in Int /\ value \in Int /\ Len(actors) \in Nat
  BY ValuesAreInts, LengthIs, Running
<1>2. AreLeaves(leavesTo[Len(actors)])
  BY <1>1, LeavesToIs
<1>3. <<ptree, value>> \in Int \X Int
  BY <1>1
<1> QED
  BY <1>1, <1>2, <1>3 DEF leaves, AreLeaves

LEMMA MostNat ==
  ASSUME NEW n \in Nat, NEW S, S \subseteq 1 .. n, NEW x \in S
  PROVE  \E m \in S : \A k \in S : k <= m
<1>1. PICK T : T = {n - k : k \in S}
  OBVIOUS
<1>2. T \subseteq Nat /\ n - x \in T
  BY <1>1
<1>3. PICK m \in T : \A k \in T : m <= k
  BY <1>2, LeastNat
<1>4. PICK y \in S : m = n - y
  BY <1>1
<1>5. \A k \in S : k <= y
  <2>1. ASSUME NEW k \in S
        PROVE  k <= y
    <3>1. n - k \in T
      BY <1>1
    <3>2. n - y <= n - k
      BY <1>3, <1>4, <3>1
    <3> QED
      BY <3>2
  <2> QED
    BY <2>1
<1> QED
  BY <1>5

MapOfValues(map) == \A name \in DOMAIN map : IsValue(actors, map[name])

(* Binding leaves binds names to values.                                   *)
LEMMA BindAllIs ==
  ASSUME NEW all, all \in Seq(Leaves), BoundOK(all), NEW map, MapOfValues(map), NEW rebind
  PROVE  MapOfValues(BindAll(all, map, rebind).map) /\ MapOfValues(BindAll(all, map, rebind).kept)
<1> DEFINE Twice(i) == \/ all[i].name \in DOMAIN map
                       \/ \E j \in 1 .. i - 1 : all[j].binds /\ all[j].name = all[i].name
           failing == {i \in DOMAIN all : ~all[i].binds \/ (~rebind /\ Twice(i))}
           bound == {i \in DOMAIN all : \A j \in failing : i < j}
           At(name) == {i \in bound : all[i].name = name}
           After(name) ==
             IF At(name) = {} THEN map[name]
             ELSE all[CHOOSE i \in At(name) : \A j \in At(name) : j <= i].val
<1>1. /\ BindAll(all, map, rebind).map = [name \in DOMAIN map \cup {all[i].name : i \in bound} |-> After(name)]
      /\ BindAll(all, map, rebind).kept = [name \in DOMAIN map |-> After(name)]
  BY DEF BindAll
<1>2. bound \subseteq 1 .. Len(all) /\ Len(all) \in Nat
  OBVIOUS
<1>3. \A i \in bound : all[i].binds
  <2>1. ASSUME NEW i \in bound, ~all[i].binds
        PROVE  FALSE
    <3>1. i \in failing
      BY <2>1
    <3>2. i < i
      BY <3>1
    <3> QED
      BY <1>2, <3>2
  <2> QED
    BY <2>1
<1>4. \A i \in bound : IsValue(actors, all[i].val)
  BY <1>3 DEF BoundOK
<1> HIDE DEF failing, bound
<1>5. ASSUME NEW name, At(name) # {}
      PROVE  IsValue(actors, After(name))
  <2>1. PICK x \in At(name) : TRUE
    BY <1>5
  <2>2. At(name) \subseteq 1 .. Len(all)
    BY <1>2
  <2>3. \E i \in At(name) : \A j \in At(name) : j <= i
    BY <1>2, <2>1, <2>2, MostNat
  <2>4. (CHOOSE i \in At(name) : \A j \in At(name) : j <= i) \in At(name)
    BY <2>3
  <2>5. (CHOOSE i \in At(name) : \A j \in At(name) : j <= i) \in bound
    BY <2>4
  <2> QED
    BY <1>4, <1>5, <2>5
<1>6. ASSUME NEW name, name \in DOMAIN map
      PROVE  IsValue(actors, After(name))
  BY <1>5, <1>6 DEF MapOfValues
<1>7. ASSUME NEW i \in bound
      PROVE  IsValue(actors, After(all[i].name))
  <2>1. i \in At(all[i].name)
    OBVIOUS
  <2> QED
    BY <1>5, <2>1
<1> HIDE DEF After
<1>8. \A name \in DOMAIN map \cup {all[i].name : i \in bound} : IsValue(actors, After(name))
  BY <1>6, <1>7
<1> QED
  BY <1>1, <1>6, <1>8 DEF MapOfValues

-----------------------------------------------------------------------------
(* Combiners that make objects.                                            *)

(* An object is new, and another one is asked for k.                       *)
LEMMA MakesAndAsks ==
  ASSUME NEW open, NEW row, NEW k, Due(open, row, k), NEW b, b \in ObjectBehs \ {"brand_type"}, NEW s, ObjectOK(actors, b, s),
         NEW x, IsValue(actors, x), NEW w, w.cust = k,
         \A more : Grows(more) /\ IsValue(more, x) /\ IsValue(more, New(1)) /\ (Cust(actors, k) => Cust(more, k))
           => RequestOK(more, x, w),
         React(<<Actor(b, s)>>, <<Message(x, w)>>)
  PROVE  Onward
<1>1. Runs(open, row)
  BY DEF Due
<1>2. PICK new, m : new = <<Actor(b, s)>> /\ m = Message(x, w)
  OBVIOUS
<1>3. IsSeq(new) /\ DOMAIN new = {1} /\ new[1] = Actor(b, s) /\ IsSeq(<< >>)
  BY <1>2, OneSent
<1>4. PICK more, row2 : more = actors \o new /\ row2 = Extended(row, actors, more)
  OBVIOUS
<1>5. Adds(row, new, more, row2)
  BY <1>1, <1>3, <1>4, Adding
<1>6. Grown(actors, SELF, more) /\ New(1) \in DOMAIN more /\ more[New(1)] = Actor(b, s) /\ IsSeq(more)
  BY <1>3, <1>5 DEF Adds
<1>7. new[1].beh = b /\ new[1].mine = s /\ more[New(1)].beh = b
  BY <1>3, <1>6 DEF Actor
<1>8. ObjectOK(more, b, s)
  BY <1>1, <1>6, ObjectStays
<1>9. Grows(more) /\ IsValue(more, x) /\ (Cust(actors, k) => Cust(more, k))
  BY <1>1, <1>6, BothKept DEF Grows
<1>10. IsValue(more, New(1))
  BY <1>6, <1>7 DEF IsValue, IsIn
<1>11. RequestOK(more, x, w)
  BY <1>9, <1>10
<1>12. Fits(more, row2, m, k)
  <2>1. row2[k] = k
    BY <1>4, <1>6, DueItself DEF Itself
  <2> QED
    BY <1>2, <1>6, <1>9, <1>11, <2>1, RequestFits
<1>13. Handle(more, <<m>>, << >>)
  BY <1>2, <1>4 DEF React
<1>14. \A i \in DOMAIN new : new[i].beh \in ObjectBehs /\ ObjectOK(more, new[i].beh, new[i].mine)
  BY <1>3, <1>7, <1>8
<1> QED
  BY <1>3, <1>4, <1>12, <1>13, <1>14, Tells

(* A closure is called.                                                    *)
LEMMA Calls ==
  ASSUME NEW open, NEW row, Runs(open, row), NEW k, k = WHAT.cust, Due(open, row, k), Cust(actors, k),
         IsValue(actors, MINE.env), IsValue(actors, MINE.body),
         NEW all, all \in Seq(Leaves), BoundOK(all), Call(all)
  PROVE  Onward
<1>1. PICK m : m = BindAll(all, Empty, FALSE)
  OBVIOUS
<1>2. CASE m.ok
  <2>1. PICK s, x, w : s = Env(MINE.env, m.map) /\ x = MINE.body /\ w = InOrder(k, New(1))
    OBVIOUS
  <2>2. React(<<Actor("env_type", s)>>, <<Message(x, w)>>)
    BY <1>1, <1>2, <2>1 DEF Call
  <2>3. MapOfValues(m.map)
    <3>1. MapOfValues(Empty)
      BY DEF MapOfValues, Empty
    <3> QED
      BY <1>1, <3>1, BindAllIs
  <2>4. ObjectOK(actors, "env_type", s)
    <3>1. s.parent = MINE.env /\ s.map = m.map
      BY <2>1 DEF Env
    <3> QED
      BY <2>3, <3>1 DEF ObjectOK, MapOfValues
  <2>5. w.cust = k
    BY <2>1 DEF InOrder, Foldl
  <2>6. ASSUME NEW more, Grows(more), IsValue(more, x), IsValue(more, New(1)), Cust(actors, k) => Cust(more, k)
        PROVE  RequestOK(more, x, w)
    <3>1. IsValue(more, a_inert)
      BY <2>6, ConstantsAre DEF Grows
    <3> QED
      BY <2>1, <2>6, <3>1, RequestsAre DEF Grows
  <2> QED
    BY <2>1, <2>2, <2>4, <2>5, <2>6, MakesAndAsks DEF ObjectBehs, Mutable
<1>3. CASE ~m.ok
  <2>1. Throw
    BY <1>1, <1>3 DEF Call
  <2> QED
    BY <2>1, Throws DEF Due
<1> QED
  BY <1>2, <1>3

LEMMA ClosureTypes ==
  ASSUME NEW open, NEW row, Invariant(open, row), vau_type \/ lambda_type
  PROVE  Onward
<1>1. PICK b \in {"vau_type", "lambda_type"} : Behaves(b) /\ (b = "vau_type" => vau_type) /\ (b = "lambda_type" => lambda_type)
  <2>1. vau_type => Behaves("vau_type")
    BY DEF vau_type, Operative
  <2>2. lambda_type => Behaves("lambda_type")
    BY DEF lambda_type, Operative
  <2> QED
    BY <2>1, <2>2
<1>2. b \in ObjectBehs \ {"brand_type", "cons_type"}
  BY DEF ObjectBehs, Immutable
<1>3. Runs(open, row) /\ actors[SELF].beh = b /\ ObjectOK(actors, b, MINE) /\ (oper_type => Onward)
  BY <1>1, <1>2, Combining
<1>4. IsValue(actors, MINE.env) /\ IsValue(actors, MINE.body) /\ IsValue(actors, MINE.ptree)
  BY <1>3 DEF ObjectOK
<1>5. CASE WHAT.op = "comb"
  <2>1. Due(open, row, WHAT.cust) /\ Cust(actors, WHAT.cust) /\ IsValue(actors, WHAT.opnds) /\ IsValue(actors, WHAT.env)
    BY <1>1, <1>2, <1>5, Combining
  <2>2. PICK all : Call(all) /\ all \in Seq(Leaves) /\ BoundOK(all)
    <3>1. CASE b = "vau_type"
      <4>1. PICK s, t : s = leaves(Hd(MINE.ptree), WHAT.opnds) /\ t = leaves(Tl(MINE.ptree), WHAT.env)
        OBVIOUS
      <4>2. Call(s \o t)
        BY <1>1, <1>5, <3>1, <4>1 DEF vau_type, Operative
      <4>3. IsPair(MINE.ptree)
        BY <1>3, <3>1 DEF ObjectOK, IsIn, IsPair, Is
      <4>4. IsValue(actors, Hd(MINE.ptree)) /\ IsValue(actors, Tl(MINE.ptree))
        BY <1>3, <4>3, HalvesAre
      <4>5. s \in Seq(Leaves) /\ BoundOK(s)
        BY <1>3, <2>1, <4>1, <4>4, LeavesAre
      <4>6. t \in Seq(Leaves) /\ BoundOK(t)
        BY <1>3, <2>1, <4>1, <4>4, LeavesAre
      <4>7. BoundOK(s \o t)
        BY <4>5, <4>6, BothBound
      <4>8. s \o t \in Seq(Leaves)
        BY <4>5, <4>6
      <4> QED
        BY <4>2, <4>7, <4>8
    <3>2. CASE b = "lambda_type"
      <4>1. Call(leaves(MINE.ptree, WHAT.opnds))
        BY <1>1, <1>5, <3>2 DEF lambda_type, Operative
      <4> QED
        BY <1>3, <1>4, <2>1, <4>1, LeavesAre
    <3> QED
      BY <3>1, <3>2
  <2> QED
    BY <1>3, <1>4, <2>1, <2>2, Calls
<1>6. CASE WHAT.op # "comb"
  <2>1. oper_type
    BY <1>1, <1>6 DEF vau_type, lambda_type, Operative
  <2> QED
    BY <1>3, <2>1
<1> QED
  BY <1>5, <1>6

LEMMA MakesClosures ==
  ASSUME NEW open, NEW row, Invariant(open, row), vau_oper \/ lambda_oper
  PROVE  Onward
<1>1. PICK b \in {"vau_oper", "lambda_oper"} : Behaves(b)
  BY DEF vau_oper, lambda_oper, Operative
<1>2. b \in ObjectBehs \ {"brand_type", "cons_type"}
  BY DEF ObjectBehs, Immutable
<1>3. Runs(open, row) /\ actors[SELF].beh \in ObjectBehs /\ (oper_type => Onward)
  BY <1>1, <1>2, Combining
<1>4. CASE WHAT.op = "comb"
  <2>1. PICK c \in {"vau_vars_beh", "lambda_vars_beh"} : Closure(c)
    BY <1>4 DEF vau_oper, lambda_oper, Operative
  <2> QED
    BY <1>3, <1>4, <2>1, Closes
<1>5. CASE WHAT.op # "comb"
  BY <1>3, <1>5 DEF vau_oper, lambda_oper, Operative
<1> QED
  BY <1>4, <1>5

LEMMA SequenceOper ==
  ASSUME NEW open, NEW row, Invariant(open, row), sequence_oper
  PROVE  Onward
<1>1. Behaves("sequence_oper") /\ "sequence_oper" \in ObjectBehs \ {"brand_type", "cons_type"}
  BY DEF sequence_oper, Operative, ObjectBehs, Immutable
<1>2. Runs(open, row) /\ IsSeq(actors) /\ (oper_type => Onward)
  BY <1>1, Combining
<1>3. CASE WHAT.op = "comb"
  <2>1. PICK k, w : k = WHAT.cust /\ w = InOrder(k, WHAT.env)
    OBVIOUS
  <2>2. Send(WHAT.opnds, w)
    BY <1>3, <2>1 DEF sequence_oper, Operative
  <2>3. Due(open, row, k) /\ Cust(actors, k) /\ IsValue(actors, WHAT.opnds) /\ IsValue(actors, WHAT.env)
    BY <1>1, <1>3, <2>1, Combining
  <2>4. RequestOK(actors, WHAT.opnds, w) /\ w.cust = k
    BY <1>2, <2>1, <2>3, RequestsAre, ConstantsAre DEF InOrder, Foldl
  <2> QED
    BY <2>2, <2>3, <2>4, Sends
<1>4. CASE WHAT.op # "comb"
  BY <1>2, <1>4 DEF sequence_oper, Operative
<1> QED
  BY <1>3, <1>4

LEMMA TypePredOper ==
  ASSUME NEW open, NEW row, Invariant(open, row), type_pred_oper
  PROVE  Onward
<1>1. Behaves("type_pred_oper") /\ "type_pred_oper" \in ObjectBehs \ {"brand_type", "cons_type"}
  BY DEF type_pred_oper, Operative, ObjectBehs, Immutable
<1>2. Runs(open, row) /\ IsSeq(actors) /\ (oper_type => Onward)
  BY <1>1, Combining
<1>3. CASE WHAT.op = "comb"
  <2>1. PICK k, req, w : /\ k = WHAT.cust
                         /\ req = [op |-> "type_eq", cust |-> NIL, type |-> MINE.type, brand |-> MINE.brand]
                         /\ w = Foldl(k, a_true, "boolean_and", req)
    OBVIOUS
  <2>2. Send(WHAT.opnds, w)
    BY <1>3, <2>1 DEF type_pred_oper, Operative
  <2>3. Due(open, row, k) /\ Cust(actors, k) /\ IsValue(actors, WHAT.opnds)
    BY <1>1, <1>3, <2>1, Combining
  <2>4. w.op = "foldl" /\ w.cust = k /\ w.zero = a_true /\ w.oplus = "boolean_and" /\ w.req = req
    BY <2>1 DEF Foldl
  <2>5. req = TypeEq(NIL, req.type, req.brand) /\ req.op = "type_eq"
    BY <2>1 DEF TypeEq
  <2>6. FoldlOf(actors, w, k)
    BY <1>2, <2>1, <2>4, <2>5, ConstantsAre DEF FoldlOf
  <2>7. ~IsIn(actors, {"brand_type"}, WHAT.opnds)
    BY <1>2, <2>3, NoBrand
  <2>8. RequestOK(actors, WHAT.opnds, w)
    BY <2>3, <2>4, <2>6, <2>7 DEF RequestOK, CustOK, Requests
  <2> QED
    BY <2>2, <2>3, <2>4, <2>8, Sends
<1>4. CASE WHAT.op # "comb"
  BY <1>2, <1>4 DEF type_pred_oper, Operative
<1> QED
  BY <1>3, <1>4

LEMMA TimedOper ==
  ASSUME NEW open, NEW row, Invariant(open, row), timed_oper
  PROVE  Onward
<1>1. Behaves("timed_oper") /\ "timed_oper" \in ObjectBehs \ {"brand_type", "cons_type"}
  BY DEF timed_oper, Operative, ObjectBehs, Immutable
<1>2. Runs(open, row) /\ IsSeq(actors) /\ (oper_type => Onward)
  BY <1>1, Combining
<1>3. CASE WHAT.op = "comb"
  <2>0. PICK now : React(<<Actor("timed_cust_beh", [cust |-> WHAT.cust, start |-> now])>>,
                         <<Message(WHAT.opnds, InOrder(New(1), WHAT.env))>>)
    BY <1>3 DEF timed_oper, Operative
  <2>1. PICK k, b, s, x, w : /\ k = WHAT.cust /\ b = "timed_cust_beh" /\ s = [cust |-> k, start |-> now]
                             /\ x = WHAT.opnds /\ w = InOrder(New(1), WHAT.env)
    OBVIOUS
  <2>2. Handle(actors \o <<Actor(b, s)>>, <<Message(x, w)>>, << >>)
    BY <2>0, <2>1 DEF React
  <2>3. Due(open, row, k) /\ Cust(actors, k) /\ IsValue(actors, x) /\ IsValue(actors, WHAT.env)
    BY <1>1, <1>3, <2>1, Combining
  <2>4. Asker(k, b, s)
    <3>1. s.cust = k
      BY <2>1
    <3>2. CustomerOK(actors, b, s)
      BY <2>1, <2>3, <3>1 DEF CustomerOK, WithCust, PlainArgsBehs, PairBehs, BrandBehs
    <3>3. b \in WithCust /\ b \in PlainCusts \ {"throw_beh"}
      BY <2>1 DEF WithCust, PlainCusts, ValueBehs
    <3> QED
      BY <3>1, <3>2, <3>3, DirectIs DEF Asker
  <2>5. AskedFor(x, w, b, s)
    <3>1. w.cust = New(1) /\ b \in ValueBehs \ {"tag_beh", "command_beh"}
      BY <2>1 DEF InOrder, Foldl, ValueBehs
    <3>2. ASSUME NEW more, Grows(more), IsValue(more, x), Cust(more, New(1))
          PROVE  RequestOK(more, x, w)
      <4>1. IsValue(more, a_inert)
        BY <1>2, <3>2, ConstantsAre DEF Grows
      <4> QED
        BY <2>1, <2>3, <3>2, <4>1, RequestsAre DEF Grows
    <3> QED
      BY <1>2, <2>3, <3>1, <3>2, AsksObject
  <2>6. IsSeq(<< >>) /\ b \in ValueBehs
    BY <2>1, OneSent DEF ValueBehs
  <2> QED
    BY <2>2, <2>3, <2>4, <2>5, <2>6, AsksFor
<1>4. CASE WHAT.op # "comb"
  BY <1>2, <1>4 DEF timed_oper, Operative
<1> QED
  BY <1>3, <1>4

-----------------------------------------------------------------------------
(* Applicatives, and customers of operands.                                *)

LEMMA ApplType ==
  ASSUME NEW open, NEW row, Invariant(open, row), appl_type
  PROVE  Onward
<1>1. Behaves("appl_type") /\ "appl_type" \in ObjectBehs \ {"brand_type", "cons_type"}
  BY DEF appl_type, ObjectBehs, Immutable
<1>2. /\ Runs(open, row) /\ IsSeq(actors) /\ actors[SELF].beh = "appl_type" /\ actors[SELF].beh \in ObjectBehs
      /\ ObjectOK(actors, "appl_type", MINE)
  BY <1>1, Combining
<1>0. IsValue(actors, MINE)
  BY <1>2 DEF ObjectOK
<1>3. CASE WHAT.op = "comb"
  <2>1. PICK k, b, s, x, w : /\ k = WHAT.cust /\ b = "appl_args_beh" /\ s = [cust |-> k, comb |-> MINE, env |-> WHAT.env]
                             /\ x = WHAT.opnds /\ w = Map(New(1), Eval(NIL, WHAT.env))
    OBVIOUS
  <2>2. Handle(actors \o <<Actor(b, s)>>, <<Message(x, w)>>, << >>)
    BY <1>3, <2>1 DEF appl_type, React
  <2>3. Due(open, row, k) /\ Cust(actors, k) /\ IsValue(actors, x) /\ IsValue(actors, WHAT.env)
    BY <1>1, <1>3, <2>1, Combining
  <2>4. Asker(k, b, s)
    <3>1. s.cust = k /\ s.comb = MINE /\ s.env = WHAT.env
      BY <2>1
    <3>2. CustomerOK(actors, b, s)
      BY <1>0, <2>1, <2>3, <3>1 DEF CustomerOK, WithCust, PlainArgsBehs, PairBehs, BrandBehs
    <3>3. b \in WithCust /\ b \in PlainCusts \ {"throw_beh"}
      BY <2>1 DEF WithCust, PlainCusts, ValueBehs
    <3> QED
      BY <3>1, <3>2, <3>3, DirectIs DEF Asker
  <2>5. AskedFor(x, w, b, s)
    <3>1. w.cust = New(1) /\ b \in ValueBehs \ {"tag_beh", "command_beh"}
      BY <2>1 DEF Map, ValueBehs
    <3>2. ASSUME NEW more, Grows(more), IsValue(more, x), Cust(more, New(1))
          PROVE  RequestOK(more, x, w)
      BY <2>1, <2>3, <3>2, RequestsAre DEF Grows
    <3> QED
      BY <1>2, <2>3, <3>1, <3>2, AsksObject
  <2>6. IsSeq(<< >>) /\ b \in ValueBehs
    BY <2>1, OneSent DEF ValueBehs
  <2> QED
    BY <2>2, <2>3, <2>4, <2>5, <2>6, AsksFor
<1>4. CASE WHAT.op = "unwrap"
  <2>1. Reply(MINE)
    BY <1>4 DEF appl_type
  <2> QED
    BY <1>0, <1>2, <1>4, <2>1, AnswersUnwrap
<1>5. CASE WHAT.op \notin {"comb", "unwrap"}
  <2>1. Typed("appl_type", "#applicative")
    BY <1>5 DEF appl_type
  <2> QED
    BY <1>1, <1>2, <2>1, TypedTypes
<1> QED
  BY <1>3, <1>4, <1>5

(* Customers of operands.                                                  *)
LEMMA Taken ==
  ASSUME NEW open, NEW row, Invariant(open, row), NEW b, b \in PlainArgsBehs \cup BrandBehs, Behaves(b)
  PROVE  /\ Runs(open, row) /\ IsSeq(actors)
         /\ Due(open, row, MINE.cust) /\ Cust(actors, MINE.cust) /\ CustomerOK(actors, b, MINE)
         /\ Throw => Onward
         /\ WHAT.op = "args" => \A i \in 1 .. Len(WHAT.args) : IsValue(actors, Arg(i))
<1>1. Runs(open, row) /\ actors[SELF].beh = b
  BY Behaving
<1>2. b \in WithCust /\ b \in ArgsBehs
  BY DEF WithCust, ArgsBehs
<1>3. Due(open, row, MINE.cust) /\ Cust(actors, MINE.cust) /\ CustomerOK(actors, b, MINE)
  BY <1>1, <1>2, DueCust
<1>4. Throw => Onward
  BY <1>1, <1>3, Throws DEF Due
<1>5. ArgsOK(actors, WHAT)
  BY <1>1, <1>2, Handles DEF SentOK
<1>6. ASSUME WHAT.op = "args"
      PROVE  \A i \in 1 .. Len(WHAT.args) : IsValue(actors, Arg(i))
  <2>1. IsSeq(WHAT.args) /\ \A i \in DOMAIN WHAT.args : IsValue(actors, WHAT.args[i])
    BY <1>5, <1>6 DEF ArgsOK
  <2> QED
    BY <2>1, LengthIs DEF Arg
<1> QED
  BY <1>1, <1>3, <1>4, <1>6, Running

LEMMA TakenArgs ==
  ASSUME NEW open, NEW row, Invariant(open, row), NEW b, b \in PlainArgsBehs \cup BrandBehs, Behaves(b), NEW n \in 1 .. 3, HasArgs(n)
  PROVE  \A i \in 1 .. n : IsValue(actors, Arg(i))
BY Taken DEF HasArgs

(* One object is made of the operands.                                     *)
LEMMA MakingArgs ==
  ASSUME NEW open, NEW row, Invariant(open, row),
         wrap_args_beh \/ cons_args_beh \/ time_args_beh
  PROVE  Onward
<1>1. CASE wrap_args_beh
  <2>1. Behaves("wrap_args_beh") /\ "wrap_args_beh" \in PlainArgsBehs
    BY <1>1 DEF wrap_args_beh, TakesArgs, PlainArgsBehs
  <2>2. Due(open, row, MINE.cust) /\ (Throw => Onward)
    BY <2>1, Taken
  <2>3. CASE HasArgs(1)
    <3>1. PICK b, s : b = "appl_type" /\ s = Arg(1)
      OBVIOUS
    <3>2. Answer(MINE.cust, b, s)
      BY <1>1, <2>3, <3>1 DEF wrap_args_beh, TakesArgs
    <3>3. IsValue(actors, s)
      BY <2>1, <2>3, <3>1, TakenArgs
    <3>4. Made1(MINE.cust, b, s)
      BY <3>1, <3>3 DEF Made1, ObjectOK, ObjectBehs, Immutable
    <3> QED
      BY <2>2, <3>2, <3>4, Makes
  <2> QED
    BY <1>1, <2>2, <2>3 DEF wrap_args_beh, TakesArgs
<1>2. CASE cons_args_beh
  <2>1. Behaves("cons_args_beh") /\ "cons_args_beh" \in PlainArgsBehs
    BY <1>2 DEF cons_args_beh, TakesArgs, PlainArgsBehs
  <2>2. Due(open, row, MINE.cust) /\ (Throw => Onward) /\ Cust(actors, MINE.cust)
    BY <2>1, Taken
  <2>3. CASE HasArgs(2)
    <3>1. PICK b, s : b = "cons_type" /\ s = Halves(Arg(1), Arg(2))
      OBVIOUS
    <3>2. Answer(MINE.cust, b, s)
      BY <1>2, <2>3, <3>1 DEF cons_args_beh, TakesArgs
    <3>3. IsValue(actors, Arg(1)) /\ IsValue(actors, Arg(2))
      BY <2>1, <2>3, TakenArgs
    <3>5. s.hd = Arg(1) /\ s.tl = Arg(2)
      BY <3>1 DEF Halves
    <3>4. Made1(MINE.cust, b, s)
      BY <2>2, <3>1, <3>3, <3>5 DEF Made1, ObjectOK, ObjectBehs, Mutable
    <3> QED
      BY <2>2, <3>2, <3>4, Makes
  <2> QED
    BY <1>2, <2>2, <2>3 DEF cons_args_beh, TakesArgs
<1>3. CASE time_args_beh
  <2>1. Behaves("time_args_beh") /\ "time_args_beh" \in PlainArgsBehs
    BY <1>3 DEF time_args_beh, TakesArgs, PlainArgsBehs
  <2>2. Due(open, row, MINE.cust) /\ (Throw => Onward)
    BY <2>1, Taken
  <2>3. CASE HasArgs(0)
    <3>1. PICK b, s : b = "time_type" /\ Answer(MINE.cust, b, s)
      BY <1>3, <2>3 DEF time_args_beh, TakesArgs
    <3>4. Made1(MINE.cust, b, s)
      BY <3>1 DEF Made1, ObjectOK, ObjectBehs, Immutable
    <3> QED
      BY <2>2, <3>1, <3>4, Makes
  <2> QED
    BY <1>3, <2>2, <2>3 DEF time_args_beh, TakesArgs
<1> QED
  BY <1>1, <1>2, <1>3

LEMMA MakeEnvArgs ==
  ASSUME NEW open, NEW row, Invariant(open, row), make_env_args_beh
  PROVE  Onward
<1>1. Behaves("make_env_args_beh") /\ "make_env_args_beh" \in PlainArgsBehs
  BY DEF make_env_args_beh, PlainArgsBehs
<1>2. Due(open, row, MINE.cust) /\ (Throw => Onward) /\ Runs(open, row)
  BY <1>1, Taken
<1>3. \A p : IsValue(actors, p) => Made1(MINE.cust, "env_type", Env(p, Empty))
  BY DEF Made1, ObjectOK, ObjectBehs, Mutable, Env, Empty
<1>4. IsValue(actors, NIL) /\ IsValue(actors, NotActor)
  BY DEF IsValue
<1>5. CASE WHAT.op = "FALSE"
  <2>1. Answer(MINE.cust, "env_type", Env(NotActor, Empty))
    BY <1>5 DEF make_env_args_beh, HasArgs
  <2> QED
    BY <1>2, <1>3, <1>4, <2>1, Makes
<1>6. CASE HasArgs(0)
  <2>1. Answer(MINE.cust, "env_type", Env(NIL, Empty))
    BY <1>6 DEF make_env_args_beh, HasArgs
  <2> QED
    BY <1>2, <1>3, <1>4, <2>1, Makes
<1>7. CASE HasArgs(1)
  <2>1. Answer(MINE.cust, "env_type", Env(Arg(1), Empty))
    BY <1>7 DEF make_env_args_beh, HasArgs
  <2>2. IsValue(actors, Arg(1))
    BY <1>1, <1>7, TakenArgs
  <2> QED
    BY <1>2, <1>3, <2>1, <2>2, Makes
<1>8. CASE WHAT.op # "FALSE" /\ ~HasArgs(0) /\ ~HasArgs(1)
  <2>1. Throw
    BY <1>8 DEF make_env_args_beh
  <2> QED
    BY <1>2, <2>1
<1> QED
  BY <1>5, <1>6, <1>7, <1>8

-----------------------------------------------------------------------------
(* Customers of operands that send requests.                               *)

(* One message to an object, or to a brand, for the customer.              *)
LEMMA SendingArgs ==
  ASSUME NEW open, NEW row, Invariant(open, row),
         \/ eval_args_beh \/ set_car_args_beh \/ set_cdr_args_beh
         \/ copy_es_immutable_args_beh \/ write_args_beh
  PROVE  Onward
<1>1. PICK b : /\ b \in PlainArgsBehs /\ Behaves(b)
               /\ (b = "eval_args_beh" /\ eval_args_beh) \/ (b = "set_car_args_beh" /\ set_car_args_beh)
                  \/ (b = "set_cdr_args_beh" /\ set_cdr_args_beh)
                  \/ (b = "copy_es_immutable_args_beh" /\ copy_es_immutable_args_beh)
                  \/ (b = "write_args_beh" /\ write_args_beh)
  BY DEF eval_args_beh, set_car_args_beh, set_cdr_args_beh, copy_es_immutable_args_beh, write_args_beh, TakesArgs, PlainArgsBehs
<1>2. Due(open, row, MINE.cust) /\ (Throw => Onward) /\ Cust(actors, MINE.cust) /\ IsSeq(actors)
  BY <1>1, Taken
<1>9. AnyCust(actors, MINE.cust)
  BY <1>2 DEF Cust
<1>3. CASE HasArgs(2) /\ b \in {"eval_args_beh", "set_car_args_beh", "set_cdr_args_beh"}
  <2>1. IsValue(actors, Arg(1)) /\ IsValue(actors, Arg(2))
    BY <1>1, <1>3, TakenArgs
  <2>2. PICK w : /\ Send(Arg(1), w)
                 /\ \/ w = Eval(MINE.cust, Arg(2))
                    \/ w = [op |-> "set_car", cust |-> MINE.cust, val |-> Arg(2)]
                    \/ w = [op |-> "set_cdr", cust |-> MINE.cust, val |-> Arg(2)]
    BY <1>1, <1>3 DEF eval_args_beh, set_car_args_beh, set_cdr_args_beh, TakesArgs
  <2>3. RequestOK(actors, Arg(1), w)
    BY <1>2, <2>1, <2>2, RequestsAre, OthersAre
  <2>4. w.cust = MINE.cust
    BY <2>2 DEF Eval
  <2> QED
    BY <1>2, <2>1, <2>2, <2>3, <2>4, Sends
<1>4. CASE HasArgs(1) /\ b \in {"copy_es_immutable_args_beh", "write_args_beh"}
  <2>1. IsValue(actors, Arg(1))
    BY <1>1, <1>4, TakenArgs
  <2>2. PICK w : /\ Send(Arg(1), w)
                 /\ \/ w = Request("copy_immutable", MINE.cust)
                    \/ w = Request("write", MINE.cust)
    BY <1>1, <1>4 DEF copy_es_immutable_args_beh, write_args_beh, TakesArgs
  <2>3. RequestOK(actors, Arg(1), w)
    BY <1>2, <1>9, <2>1, <2>2, CopyIs, OthersAre
  <2>4. w.cust = MINE.cust
    BY <2>2 DEF Request
  <2> QED
    BY <1>2, <2>1, <2>2, <2>3, <2>4, Sends
<1>5. CASE Throw
  BY <1>2, <1>5
<1> QED
  BY <1>1, <1>3, <1>4, <1>5
     DEF eval_args_beh, set_car_args_beh, set_cdr_args_beh, copy_es_immutable_args_beh, write_args_beh, TakesArgs

LEMMA NewlineArgs ==
  ASSUME NEW open, NEW row, Invariant(open, row), newline_args_beh
  PROVE  Onward
<1>1. Behaves("newline_args_beh") /\ "newline_args_beh" \in PlainArgsBehs
  BY DEF newline_args_beh, TakesArgs, PlainArgsBehs
<1>2. Due(open, row, MINE.cust) /\ (Throw => Onward)
  BY <1>1, Taken
<1>3. PICK text : Put(text, << >>, MINE.cust) \/ Throw
  BY DEF newline_args_beh, TakesArgs
<1> QED
  BY <1>2, <1>3, Puts

(* What an applicative wraps.                                              *)
LEMMA Unwrapped ==
  ASSUME NEW open, NEW row, Runs(open, row), NEW v
  PROVE  IsValue(actors, appl_unwrap(v))
<1>1. \A a \in DOMAIN actors : StateOK(actors, row, a, actors[a].beh, actors[a].mine)
  BY Running DEF StatesOK
<1>2. \A a \in DOMAIN actors : ObjectOK(actors, actors[a].beh, actors[a].mine)
  BY <1>1 DEF StateOK
<1>3. CASE Is("appl_type", v)
  BY <1>2, <1>3 DEF Is, appl_unwrap, ObjectOK
<1>4. CASE ~Is("appl_type", v)
  BY <1>4 DEF appl_unwrap, IsValue
<1> QED
  BY <1>3, <1>4

LEMMA UnwrapArgs ==
  ASSUME NEW open, NEW row, Invariant(open, row), unwrap_args_beh
  PROVE  Onward
<1>1. Behaves("unwrap_args_beh") /\ "unwrap_args_beh" \in PlainArgsBehs
  BY DEF unwrap_args_beh, TakesArgs, PlainArgsBehs
<1>2. Due(open, row, MINE.cust) /\ (Throw => Onward) /\ Cust(actors, MINE.cust) /\ Runs(open, row)
  BY <1>1, Taken
<1>3. PICK v : (IsValue(actors, v) /\ Send(MINE.cust, Value(v))) \/ Throw
  BY <1>2, Unwrapped DEF unwrap_args_beh, TakesArgs
<1> QED
  BY <1>2, <1>3, RepliesAre

(* A value is asked for.                                                   *)
LEMMA AskingArgs ==
  ASSUME NEW open, NEW row, Invariant(open, row), define_args_beh \/ if_args_beh
  PROVE  Onward
<1>1. PICK b : /\ b \in PlainArgsBehs /\ Behaves(b)
               /\ (b = "define_args_beh" /\ define_args_beh) \/ (b = "if_args_beh" /\ if_args_beh)
  BY DEF define_args_beh, if_args_beh, TakesArgs, PlainArgsBehs
<1>2. /\ Due(open, row, MINE.cust) /\ (Throw => Onward) /\ Cust(actors, MINE.cust) /\ IsSeq(actors)
      /\ CustomerOK(actors, b, MINE) /\ Runs(open, row)
  BY <1>1, Taken
<1>3. IsValue(actors, MINE.env)
  BY <1>1, <1>2 DEF CustomerOK
<1>4. PICK n, c, s, x :
        \/ Throw
        \/ /\ n \in {2, 3} /\ HasArgs(n)
           /\ \/ n = 2 /\ c = "define_match_beh" /\ x = Arg(2) /\ s = [cust |-> MINE.cust, ptree |-> Arg(1), env |-> MINE.env]
              \/ n = 3 /\ c = "if_test_beh" /\ x = Arg(1)
                       /\ s = [cust |-> MINE.cust, cnsq |-> Arg(2), altn |-> Arg(3), env |-> MINE.env]
           /\ React(<<Actor(c, s)>>, <<Message(x, Eval(New(1), MINE.env))>>)
  BY <1>1 DEF define_args_beh, if_args_beh, TakesArgs
<1>5. CASE ~Throw
  <2>1. \A i \in 1 .. n : IsValue(actors, Arg(i))
    BY <1>1, <1>4, <1>5, TakenArgs
  <2>2. IsValue(actors, x)
    BY <1>4, <1>5, <2>1
  <2>3. c \in ValueBehs \ {"tag_beh", "command_beh"} /\ c \in WithCust /\ c \in PlainCusts \ {"throw_beh"}
    BY <1>4, <1>5 DEF ValueBehs, WithCust, PlainCusts
  <2>4. s.cust = MINE.cust /\ s.env = MINE.env
    BY <1>4, <1>5
  <2>5. CustomerOK(actors, c, s)
    <3>1. CASE c = "define_match_beh"
      <4>1. IsValue(actors, s.ptree)
        BY <1>4, <1>5, <2>1, <3>1
      <4> QED
        BY <1>2, <1>3, <2>4, <3>1, <4>1 DEF CustomerOK, PlainArgsBehs, PairBehs, BrandBehs
    <3>2. CASE c = "if_test_beh"
      <4>1. IsValue(actors, s.cnsq) /\ IsValue(actors, s.altn)
        BY <1>4, <1>5, <2>1, <3>2
      <4> QED
        BY <1>2, <1>3, <2>4, <3>2, <4>1 DEF CustomerOK, PlainArgsBehs, PairBehs, BrandBehs
    <3> QED
      BY <1>4, <1>5, <3>1, <3>2
  <2>6. Direct(c, s) = {MINE.cust}
    BY <2>3, <2>4, DirectIs
  <2>7. Asker(MINE.cust, c, s)
    BY <2>3, <2>5, <2>6 DEF Asker
  <2>8. PICK w : w = Eval(New(1), MINE.env)
    OBVIOUS
  <2>9. w.cust = New(1)
    BY <2>8 DEF Eval
  <2>10. \A more : Grows(more) /\ IsValue(more, x) /\ Cust(more, New(1)) => RequestOK(more, x, w)
    BY <1>3, <2>8, RequestsAre DEF Grows
  <2>11. AskedFor(x, w, c, s)
    BY <1>2, <2>2, <2>3, <2>9, <2>10, AsksObject
  <2>12. Handle(actors \o <<Actor(c, s)>>, <<Message(x, w)>>, << >>)
    BY <1>4, <1>5, <2>8 DEF React
  <2> QED
    BY <1>2, <2>3, <2>7, <2>11, <2>12, AsksFor, OneSent
<1> QED
  BY <1>2, <1>5

LEMMA ApplyArgs ==
  ASSUME NEW open, NEW row, Invariant(open, row), apply_args_beh
  PROVE  Onward
<1>1. Behaves("apply_args_beh") /\ "apply_args_beh" \in PlainArgsBehs
  BY DEF apply_args_beh, PlainArgsBehs
<1>2. /\ Due(open, row, MINE.cust) /\ (Throw => Onward) /\ Cust(actors, MINE.cust) /\ Runs(open, row) /\ IsSeq(actors)
      /\ WHAT.op = "args" => \A i \in 1 .. Len(WHAT.args) : IsValue(actors, Arg(i))
  BY <1>1, Taken
<1>3. PICK comb : comb = appl_unwrap(Arg(1))
  OBVIOUS
<1>4. IsValue(actors, comb)
  BY <1>2, <1>3, Unwrapped
<1>5. IsValue(actors, NotActor) /\ IsValue(actors, NIL)
  BY DEF IsValue
<1>6. ASSUME NEW env, IsValue(actors, env), IsValue(actors, Arg(2)), Send(comb, Comb(MINE.cust, Arg(2), env))
      PROVE  Onward
  <2>1. PICK w : w = Comb(MINE.cust, Arg(2), env)
    OBVIOUS
  <2>2. RequestOK(actors, comb, w) /\ w.cust = MINE.cust
    BY <1>2, <1>4, <1>6, <2>1, RequestsAre DEF Comb
  <2> QED
    BY <1>2, <1>4, <1>6, <2>1, <2>2, Sends
<1>7. CASE WHAT.op = "args" /\ Len(WHAT.args) = 2
  <2>1. React(<<Actor("env_type", Env(NIL, Empty))>>, <<Message(comb, Comb(MINE.cust, Arg(2), New(1)))>>)
    BY <1>3, <1>7 DEF apply_args_beh
  <2>2. IsValue(actors, Arg(2))
    BY <1>2, <1>7
  <2>3. PICK w, s : w = Comb(MINE.cust, Arg(2), New(1)) /\ s = Env(NIL, Empty)
    OBVIOUS
  <2>4. ObjectOK(actors, "env_type", s)
    BY <1>5, <2>3 DEF ObjectOK, Env, Empty
  <2>5. w.cust = MINE.cust
    BY <2>3 DEF Comb
  <2>6. \A more : Grows(more) /\ IsValue(more, comb) /\ IsValue(more, New(1)) /\ (Cust(actors, MINE.cust) => Cust(more, MINE.cust))
           => RequestOK(more, comb, w)
    BY <1>2, <2>2, <2>3, RequestsAre DEF Grows
  <2>7. "env_type" \in ObjectBehs \ {"brand_type"}
    BY DEF ObjectBehs, Mutable
  <2> QED
    BY <1>2, <1>4, <2>1, <2>3, <2>4, <2>5, <2>6, <2>7, MakesAndAsks
<1>8. CASE WHAT.op = "args" /\ Len(WHAT.args) = 3
  <2>1. Send(comb, Comb(MINE.cust, Arg(2), Arg(3)))
    BY <1>3, <1>8 DEF apply_args_beh, Send
  <2>2. IsValue(actors, Arg(2)) /\ IsValue(actors, Arg(3))
    BY <1>2, <1>8
  <2> QED
    BY <1>6, <2>1, <2>2
<1>9. CASE WHAT.op = "args" /\ Len(WHAT.args) >= 2 /\ Len(WHAT.args) # 2 /\ Len(WHAT.args) # 3
  <2>1. Send(comb, Comb(MINE.cust, Arg(2), NotActor))
    BY <1>3, <1>9 DEF apply_args_beh, Send
  <2>2. ArgsOK(actors, WHAT)
    <3>1. Runs(open, row) /\ actors[SELF].beh = "apply_args_beh"
      BY <1>1, Behaving
    <3>2. actors[SELF].beh \in ArgsBehs
      BY <3>1 DEF ArgsBehs, PlainArgsBehs
    <3> QED
      BY <3>1, <3>2, Handles DEF SentOK
  <2>4. IsSeq(WHAT.args)
    BY <1>9, <2>2 DEF ArgsOK
  <2>5. Len(WHAT.args) \in Nat
    BY <2>4, LengthIs
  <2>3. IsValue(actors, Arg(2))
    BY <1>2, <1>9, <2>5
  <2> QED
    BY <1>5, <1>6, <2>1, <2>3
<1> QED
  BY <1>2, <1>7, <1>8, <1>9 DEF apply_args_beh

(* Encapsulations.                                                         *)
LEMMA BrandArgs ==
  ASSUME NEW open, NEW row, Invariant(open, row), seal_args_beh \/ unseal_args_beh
  PROVE  Onward
<1>1. PICK b : /\ b \in BrandBehs /\ Behaves(b)
               /\ (b = "seal_args_beh" /\ seal_args_beh) \/ (b = "unseal_args_beh" /\ unseal_args_beh)
  BY DEF seal_args_beh, unseal_args_beh, TakesArgs, BrandBehs
<1>2. /\ Due(open, row, MINE.cust) /\ (Throw => Onward) /\ Cust(actors, MINE.cust) /\ IsSeq(actors)
      /\ CustomerOK(actors, b, MINE)
  BY <1>1, Taken
<1>3. IsIn(actors, {"brand_type"}, MINE.brand)
  BY <1>1, <1>2 DEF CustomerOK
<1>4. CASE HasArgs(1) /\ b = "seal_args_beh"
  <2>1. PICK w : w = [op |-> "seal", cust |-> MINE.cust, val |-> Arg(1)] /\ Send(MINE.brand, w)
    BY <1>1, <1>4 DEF seal_args_beh, TakesArgs
  <2>2. IsValue(actors, Arg(1))
    BY <1>1, <1>4, TakenArgs
  <2>3. RequestOK(actors, MINE.brand, w)
    BY <1>2, <2>1, <2>2 DEF RequestOK, CustOK, Requests
  <2>4. w.cust = MINE.cust
    BY <2>1
  <2> QED
    BY <1>2, <1>3, <2>1, <2>3, <2>4, Sends
<1>5. CASE HasArgs(1) /\ b = "unseal_args_beh"
  <2>1. PICK w : w = [op |-> "unseal", cust |-> MINE.cust, brand |-> MINE.brand] /\ Send(Arg(1), w)
    BY <1>1, <1>5 DEF unseal_args_beh, TakesArgs
  <2>2. IsValue(actors, Arg(1))
    BY <1>1, <1>5, TakenArgs
  <2>3. RequestOK(actors, Arg(1), w)
    BY <1>2, <2>1, <2>2, OthersAre
  <2>4. w.cust = MINE.cust
    BY <2>1
  <2> QED
    BY <1>2, <2>1, <2>2, <2>3, <2>4, Sends
<1> QED
  BY <1>1, <1>2, <1>4, <1>5 DEF seal_args_beh, unseal_args_beh, TakesArgs

-----------------------------------------------------------------------------
(* Customers of parameters.                                                *)

(* Several objects are new, and one of them is answered.                   *)
Holds(more, new) ==
  /\ \A i \in DOMAIN new : New(i) \in DOMAIN more /\ more[New(i)] = new[i]
  /\ \A v : IsValue(actors, v) => IsValue(more, v)
  /\ \A v : IsFixed(actors, v) => IsFixed(more, v)

(* Objects are made and the customer answered with one of them.            *)
LEMMA MakesAll ==
  ASSUME NEW open, NEW row, NEW k, Due(open, row, k), Cust(actors, k),
         NEW new, IsSeq(new), \A i \in DOMAIN new : new[i].beh \in ObjectBehs,
         NEW n \in DOMAIN new, new[n].beh # "brand_type",
         \A more : Holds(more, new) => \A i \in DOMAIN new : ObjectOK(more, new[i].beh, new[i].mine),
         React(new, <<Message(k, Value(New(n)))>>)
  PROVE  Onward
<1>1. Runs(open, row)
  BY DEF Due
<1>2. PICK more, row2, m : more = actors \o new /\ row2 = Extended(row, actors, more) /\ m = Message(k, Value(New(n)))
  OBVIOUS
<1>3. Adds(row, new, more, row2)
  BY <1>1, <1>2, Adding
<1>4. Grown(actors, SELF, more) /\ \A i \in DOMAIN new : New(i) \in DOMAIN more /\ more[New(i)] = new[i]
  BY <1>3 DEF Adds
<1>5. Holds(more, new) /\ Cust(more, k) /\ AnyCust(more, k) /\ Sinks(more)
  BY <1>4, BothKept DEF Holds
<1>6. \A i \in DOMAIN new : new[i].beh \in ObjectBehs /\ ObjectOK(more, new[i].beh, new[i].mine)
  BY <1>5
<1>7. IsValue(more, New(n))
  BY <1>4 DEF IsValue, IsIn
<1>8. Suits(more, k, New(n))
  BY <1>5, <1>7, CustSuits
<1>9. Itself(row2, k)
  BY <1>2, <1>4, DueItself
<1>10. Fits(more, row2, m, k)
  BY <1>2, <1>5, <1>8, <1>9, ReplyFits
<1>11. Handle(more, <<m>>, << >>) /\ IsSeq(<< >>)
  BY <1>2, OneSent DEF React
<1> QED
  BY <1>2, <1>6, <1>10, <1>11, Tells

(* Customers of the pair of what a closure is made of.                     *)
LEMMA Opened ==
  ASSUME NEW open, NEW row, Invariant(open, row), NEW b, b \in PairBehs, Behaves(b)
  PROVE  /\ Runs(open, row) /\ IsSeq(actors) /\ actors[SELF].beh = b
         /\ Due(open, row, MINE.cust) /\ Cust(actors, MINE.cust) /\ CustomerOK(actors, b, MINE)
         /\ Throw => Onward
         /\ IsValue(actors, MINE.env)
         /\ WHAT.op = "pair" => /\ IsFixed(actors, WHAT.hd) /\ IsFixed(actors, WHAT.tl)
                                /\ IsValue(actors, WHAT.hd) /\ IsValue(actors, WHAT.tl)
<1>1. Runs(open, row) /\ actors[SELF].beh = b
  BY Behaving
<1>2. b \in WithCust
  BY DEF WithCust
<1>3. Due(open, row, MINE.cust) /\ Cust(actors, MINE.cust) /\ CustomerOK(actors, b, MINE)
  BY <1>1, <1>2, DueCust
<1>4. Throw => Onward
  BY <1>1, <1>3, Throws DEF Due
<1>5. FixedPair(actors, WHAT) \/ NoPair(WHAT)
  BY <1>1, Handles DEF SentOK
<1>6. IsValue(actors, MINE.env)
  BY <1>3 DEF CustomerOK
<1>7. IsSeq(actors)
  BY <1>1, Running
<1> QED
  BY <1>1, <1>3, <1>4, <1>5, <1>6, <1>7 DEF FixedPair, NoPair, IsFixed

LEMMA VauEvar ==
  ASSUME NEW open, NEW row, Invariant(open, row), vau_evar_beh
  PROVE  Onward
<1>1. Behaves("vau_evar_beh") /\ "vau_evar_beh" \in PairBehs
  BY DEF vau_evar_beh, PairBehs
<1>2. /\ Due(open, row, MINE.cust) /\ Cust(actors, MINE.cust) /\ CustomerOK(actors, "vau_evar_beh", MINE)
      /\ Throw => Onward
      /\ IsValue(actors, MINE.env)
      /\ WHAT.op = "pair" => /\ IsFixed(actors, WHAT.hd) /\ IsFixed(actors, WHAT.tl)
                             /\ IsValue(actors, WHAT.hd) /\ IsValue(actors, WHAT.tl)
  BY <1>1, Opened
<1>3. IsFixed(actors, MINE.vars)
  BY <1>2 DEF CustomerOK
<1>4. CASE WHAT.op = "pair"
  <2>1. PICK s, t, new : /\ s = Halves(MINE.vars, WHAT.hd) /\ t = [ptree |-> New(1), body |-> WHAT.tl, env |-> MINE.env]
                         /\ new = <<Actor("pair_type", s), Actor("vau_type", t)>>
    OBVIOUS
  <2>2. React(new, <<Message(MINE.cust, Value(New(2)))>>)
    BY <1>4, <2>1 DEF vau_evar_beh
  <2>3. IsSeq(new) /\ DOMAIN new = {1, 2} /\ new[1] = Actor("pair_type", s) /\ new[2] = Actor("vau_type", t)
    BY <2>1, OneSent
  <2>4. new[1].beh = "pair_type" /\ new[1].mine = s /\ new[2].beh = "vau_type" /\ new[2].mine = t
    BY <2>3 DEF Actor
  <2>5. \A i \in DOMAIN new : new[i].beh \in ObjectBehs
    BY <2>3, <2>4 DEF ObjectBehs, Immutable
  <2>6. s.hd = MINE.vars /\ s.tl = WHAT.hd /\ t.ptree = New(1) /\ t.body = WHAT.tl /\ t.env = MINE.env
    BY <2>1 DEF Halves
  <2>7. ASSUME NEW more, Holds(more, new)
        PROVE  ObjectOK(more, "pair_type", s) /\ ObjectOK(more, "vau_type", t)
    <3>1. IsFixed(more, s.hd) /\ IsFixed(more, s.tl) /\ IsValue(more, t.body) /\ IsValue(more, t.env)
      BY <1>2, <1>3, <1>4, <2>6, <2>7 DEF Holds
    <3>2. New(1) \in DOMAIN more /\ more[New(1)] = new[1]
      BY <2>3, <2>7 DEF Holds
    <3>3. IsIn(more, {"pair_type"}, t.ptree)
      BY <2>4, <2>6, <3>2 DEF IsIn
    <3>4. IsValue(more, t.ptree)
      BY <3>3 DEF IsValue, IsIn, ObjectBehs, Immutable
    <3> QED
      BY <3>1, <3>3, <3>4 DEF ObjectOK
  <2>8. \A more : Holds(more, new) => \A i \in DOMAIN new : ObjectOK(more, new[i].beh, new[i].mine)
    BY <2>3, <2>4, <2>7
  <2>9. 2 \in DOMAIN new /\ new[2].beh # "brand_type"
    BY <2>3, <2>4
  <2> QED
    BY <1>2, <2>2, <2>3, <2>5, <2>8, <2>9, MakesAll
<1> QED
  BY <1>2, <1>4 DEF vau_evar_beh

LEMMA LambdaVars ==
  ASSUME NEW open, NEW row, Invariant(open, row), lambda_vars_beh
  PROVE  Onward
<1>1. Behaves("lambda_vars_beh") /\ "lambda_vars_beh" \in PairBehs
  BY DEF lambda_vars_beh, PairBehs
<1>2. /\ Due(open, row, MINE.cust) /\ Cust(actors, MINE.cust)
      /\ Throw => Onward
      /\ IsValue(actors, MINE.env)
      /\ WHAT.op = "pair" => /\ IsValue(actors, WHAT.hd) /\ IsValue(actors, WHAT.tl)
  BY <1>1, Opened
<1>4. CASE WHAT.op = "pair"
  <2>1. PICK t, new : /\ t = [ptree |-> WHAT.hd, body |-> WHAT.tl, env |-> MINE.env]
                      /\ new = <<Actor("lambda_type", t), Actor("appl_type", New(1))>>
    OBVIOUS
  <2>2. React(new, <<Message(MINE.cust, Value(New(2)))>>)
    BY <1>4, <2>1 DEF lambda_vars_beh
  <2>3. IsSeq(new) /\ DOMAIN new = {1, 2} /\ new[1] = Actor("lambda_type", t) /\ new[2] = Actor("appl_type", New(1))
    BY <2>1, OneSent
  <2>4. new[1].beh = "lambda_type" /\ new[1].mine = t /\ new[2].beh = "appl_type" /\ new[2].mine = New(1)
    BY <2>3 DEF Actor
  <2>5. \A i \in DOMAIN new : new[i].beh \in ObjectBehs
    BY <2>3, <2>4 DEF ObjectBehs, Immutable
  <2>6. t.ptree = WHAT.hd /\ t.body = WHAT.tl /\ t.env = MINE.env
    BY <2>1
  <2>7. ASSUME NEW more, Holds(more, new)
        PROVE  ObjectOK(more, "lambda_type", t) /\ ObjectOK(more, "appl_type", New(1))
    <3>1. IsValue(more, t.ptree) /\ IsValue(more, t.body) /\ IsValue(more, t.env)
      BY <1>2, <1>4, <2>6, <2>7 DEF Holds
    <3>2. New(1) \in DOMAIN more /\ more[New(1)] = new[1]
      BY <2>3, <2>7 DEF Holds
    <3>3. IsValue(more, New(1))
      BY <2>4, <3>2 DEF IsValue, IsIn, ObjectBehs, Immutable
    <3> QED
      BY <3>1, <3>3 DEF ObjectOK
  <2>8. \A more : Holds(more, new) => \A i \in DOMAIN new : ObjectOK(more, new[i].beh, new[i].mine)
    BY <2>3, <2>4, <2>7
  <2>9. 2 \in DOMAIN new /\ new[2].beh # "brand_type"
    BY <2>3, <2>4
  <2> QED
    BY <1>2, <2>2, <2>3, <2>5, <2>8, <2>9, MakesAll
<1> QED
  BY <1>2, <1>4 DEF lambda_vars_beh

LEMMA TimedCust ==
  ASSUME NEW open, NEW row, Invariant(open, row), timed_cust_beh
  PROVE  Onward
<1>1. Behaves("timed_cust_beh") /\ "timed_cust_beh" \in ValueBehs \cap WithCust
  BY DEF timed_cust_beh, ValueBehs, WithCust
<1>2. Due(open, row, MINE.cust)
  BY <1>1, ValueSends
<1>3. PICK b, s : b = "number_type" /\ Answer(MINE.cust, b, s)
  BY DEF timed_cust_beh
<1>4. Made1(MINE.cust, b, s)
  BY <1>3 DEF Made1, ObjectOK, ObjectBehs, Immutable
<1> QED
  BY <1>2, <1>3, <1>4, Makes

(* A definition.                                                           *)
LEMMA DefineMatch ==
  ASSUME NEW open, NEW row, Invariant(open, row), define_match_beh
  PROVE  Onward
<1>1. Behaves("define_match_beh") /\ "define_match_beh" \in ValueBehs \cap WithCust /\ "define_match_beh" \notin Unplain
  BY DEF define_match_beh, ValueBehs, WithCust, Unplain, JoinBehs
<1>2. /\ Due(open, row, MINE.cust) /\ Cust(actors, MINE.cust) /\ CustomerOK(actors, "define_match_beh", MINE)
      /\ Runs(open, row) /\ actors[SELF].beh = "define_match_beh"
      /\ IsValue(actors, WHAT.val)
  BY <1>1, ValueSends
<1>3. IsValue(actors, MINE.ptree)
  BY <1>2 DEF CustomerOK
<1>4. Throw => Onward
  BY <1>1, <1>2, Throws
<1>5. CASE Is("env_type", MINE.env)
  <2>1. PICK env, e, all, m : /\ e = MINE.env /\ env = actors[e].mine
                              /\ all = leaves(MINE.ptree, WHAT.val) /\ m = BindAll(all, env.map, TRUE)
    OBVIOUS
  <2>2. e \in DOMAIN actors /\ actors[e].beh = "env_type" /\ IsIn(actors, Mutable, e)
    BY <1>5, <2>1 DEF Is, IsIn, Mutable
  <2>3. StateOK(actors, row, e, actors[e].beh, actors[e].mine)
    BY <1>2, <2>2, Running DEF StatesOK
  <2>4. ObjectOK(actors, "env_type", env)
    BY <2>1, <2>2, <2>3 DEF StateOK
  <2>5. IsValue(actors, env.parent) /\ MapOfValues(env.map)
    BY <2>4 DEF ObjectOK, MapOfValues
  <2>6. all \in Seq(Leaves) /\ BoundOK(all)
    BY <1>2, <1>3, <2>1, LeavesAre
  <2>7. MapOfValues(m.map) /\ MapOfValues(m.kept)
    BY <2>1, <2>5, <2>6, BindAllIs
  <2>8. \A map : MapOfValues(map) => ObjectOK(actors, "env_type", Env(env.parent, map))
    BY <2>5 DEF ObjectOK, MapOfValues, Env
  <2>9. \A map : MapOfValues(map) => Same(Changed(e, "env_type", Env(env.parent, map)))
    BY <1>2, <2>2, <2>8, SameChanged
  <2>10. CASE m.ok
    <3>1. PICK s, more, r : /\ s = Env(env.parent, m.map) /\ more = Changed(e, "env_type", s)
                            /\ r = Message(MINE.cust, Value(a_inert))
      OBVIOUS
    <3>2. Handle(more, <<r>>, << >>)
      BY <1>5, <2>1, <2>10, <3>1 DEF define_match_beh, match_ptree
    <3>3. Same(more)
      BY <2>7, <2>9, <3>1
    <3>4. PICK row2 : row2 = Extended(row, actors, more)
      OBVIOUS
    <3>5. Grown(actors, SELF, more) /\ IsFixed(actors, a_inert)
      BY <1>2, <3>3, ConstantsAre DEF Same
    <3>6. Itself(row2, MINE.cust) /\ Sinks(more) /\ AnyCust(more, MINE.cust) /\ IsFixed(more, a_inert)
      BY <1>2, <3>4, <3>5, DueItself, BothKept
    <3>7. Suits(more, MINE.cust, a_inert)
      BY <3>6, CustSuits
    <3>8. Fits(more, row2, r, MINE.cust)
      BY <3>1, <3>6, <3>7, ReplyFits
    <3> QED
      BY <1>2, <3>2, <3>3, <3>4, <3>8, Changes, OneSent
  <2>11. CASE ~m.ok
    <3>1. PICK s, base, more : /\ s = Env(env.parent, m.kept) /\ base = Changed(e, "env_type", s)
                               /\ more = base \o <<Actor("throw_beh", NIL)>>
      OBVIOUS
    <3>2. Handle(more, <<Message(New(1), Value(NIL))>>, << >>)
      BY <1>5, <2>1, <2>11, <3>1 DEF define_match_beh, match_ptree
    <3>3. Same(base)
      BY <2>7, <2>9, <3>1
    <3> QED
      BY <1>1, <1>2, <3>1, <3>2, <3>3, Fails
  <2> QED
    BY <2>10, <2>11
<1> QED
  BY <1>4, <1>5 DEF define_match_beh

-----------------------------------------------------------------------------
(* Encapsulations.                                                         *)

(* Encapsulations.                                                         *)
LEMMA SealedType ==
  ASSUME NEW open, NEW row, Invariant(open, row), sealed_type
  PROVE  Onward
<1>1. Behaves("sealed_type") /\ "sealed_type" \in ObjectBehs \ {"brand_type", "cons_type"}
  BY DEF sealed_type, ObjectBehs, Immutable
<1>2. Runs(open, row) /\ actors[SELF].beh = "sealed_type" /\ actors[SELF].beh \in ObjectBehs /\ ObjectOK(actors, "sealed_type", MINE)
  BY <1>1, Combining
<1>3. IsValue(actors, MINE.val)
  BY <1>2 DEF ObjectOK
<1>4. CASE WHAT.op = "type_eq"
  <2>1. PICK b : Reply(Boolean(b))
    BY <1>4 DEF sealed_type
  <2> QED
    BY <1>2, <1>4, <2>1, ObjectReplies, ConstantsAre
<1>5. CASE WHAT.op = "unseal" /\ WHAT.brand = MINE.brand
  <2>1. Reply(MINE.val)
    BY <1>5 DEF sealed_type
  <2> QED
    BY <1>2, <1>3, <1>5, <2>1, ObjectReplies
<1>6. CASE WHAT.op # "type_eq" /\ ~(WHAT.op = "unseal" /\ WHAT.brand = MINE.brand)
  <2>1. Typed("sealed_type", "#encapsulation")
    BY <1>6 DEF sealed_type
  <2> QED
    BY <1>1, <1>2, <2>1, TypedTypes
<1> QED
  BY <1>4, <1>5, <1>6

LEMMA BrandType ==
  ASSUME NEW open, NEW row, Invariant(open, row), brand_type
  PROVE  Onward
<1>0. Behaves("brand_type") /\ "brand_type" \in ObjectBehs
  BY DEF brand_type, ObjectBehs, Immutable
<1>1. Runs(open, row) /\ actors[SELF].beh = "brand_type"
  BY <1>0, Behaving
<1>2. RequestOK(actors, SELF, WHAT) /\ SELF \in DOMAIN actors
  BY <1>0, <1>1, DueObject, Running
<1>3. WHAT.op = "seal"
  BY <1>1, <1>2 DEF RequestOK, IsIn
<1>4. IsValue(actors, WHAT.val)
  BY <1>2, <1>3 DEF RequestOK
<1>5. Due(open, row, WHAT.cust)
  BY <1>0, <1>1, <1>3, DueObject
<1>6. PICK b, s : b = "sealed_type" /\ s = [brand |-> SELF, val |-> WHAT.val]
  OBVIOUS
<1>7. Made1(WHAT.cust, b, s)
  BY <1>4, <1>6 DEF Made1, ObjectOK, ObjectBehs, Immutable
<1> QED
  BY <1>5, <1>6, <1>7, Makes DEF brand_type

LEMMA BrandArgsMake ==
  ASSUME NEW open, NEW row, Invariant(open, row), brand_args_beh
  PROVE  Onward
<1>1. Behaves("brand_args_beh") /\ "brand_args_beh" \in PlainArgsBehs
  BY DEF brand_args_beh, TakesArgs, PlainArgsBehs
<1>2. Due(open, row, MINE.cust) /\ (Throw => Onward) /\ Cust(actors, MINE.cust) /\ Runs(open, row)
  BY <1>1, Taken
<1>3. CASE HasArgs(0)
  <2>1. PICK s2, s4, s6, s8, s9, s10 :
          /\ s2 = [brand |-> New(1), args_beh |-> "seal_args_beh"]
          /\ s4 = [type |-> "brand", brand |-> New(1)]
          /\ s6 = [brand |-> New(1), args_beh |-> "unseal_args_beh"]
          /\ s8 = Halves(New(7), a_nil) /\ s9 = Halves(New(5), New(8)) /\ s10 = Halves(New(3), New(9))
    OBVIOUS
  <2>2. PICK new : new = <<Actor("brand_type", NIL), Actor("brand_oper", s2), Actor("appl_type", New(2)),
                           Actor("type_pred_oper", s4), Actor("appl_type", New(4)), Actor("brand_oper", s6),
                           Actor("appl_type", New(6)), Actor("cons_type", s8), Actor("cons_type", s9),
                           Actor("cons_type", s10)>>
    OBVIOUS
  <2>3. React(new, <<Message(MINE.cust, Value(New(10)))>>)
    BY <1>3, <2>1, <2>2 DEF brand_args_beh, TakesArgs
  <2>4. IsSeq(new)
    BY <2>2, Ten
  <2>5. DOMAIN new = 1 .. 10
    BY <2>2
  <2>6. /\ new[1].beh = "brand_type" /\ new[2].beh = "brand_oper" /\ new[3].beh = "appl_type"
        /\ new[4].beh = "type_pred_oper" /\ new[5].beh = "appl_type" /\ new[6].beh = "brand_oper"
        /\ new[7].beh = "appl_type" /\ new[8].beh = "cons_type" /\ new[9].beh = "cons_type" /\ new[10].beh = "cons_type"
    BY <2>2 DEF Actor
  <2>7. /\ new[2].mine = s2 /\ new[3].mine = New(2) /\ new[5].mine = New(4) /\ new[6].mine = s6
        /\ new[7].mine = New(6) /\ new[8].mine = s8 /\ new[9].mine = s9 /\ new[10].mine = s10
    BY <2>2 DEF Actor
  <2>8. \A i \in DOMAIN new : i \in {1, 2, 3, 4, 5, 6, 7, 8, 9, 10}
    BY <2>5
  <2>9. \A i \in DOMAIN new : new[i].beh \in ObjectBehs
    BY <2>6, <2>8 DEF ObjectBehs, Immutable, Mutable
  <2>10. /\ s2.brand = New(1) /\ s2.args_beh \in BrandBehs /\ s6.brand = New(1) /\ s6.args_beh \in BrandBehs
         /\ s8.hd = New(7) /\ s8.tl = a_nil /\ s9.hd = New(5) /\ s9.tl = New(8) /\ s10.hd = New(3) /\ s10.tl = New(9)
    BY <2>1 DEF Halves, BrandBehs
  <2>11. IsValue(actors, a_nil)
    BY <1>2, ConstantsAre
  <2>12. ASSUME NEW more, Holds(more, new), NEW i \in DOMAIN new
         PROVE  ObjectOK(more, new[i].beh, new[i].mine)
    <3>1. \A j \in 1 .. 10 : New(j) \in DOMAIN more /\ more[New(j)] = new[j]
      BY <2>5, <2>12 DEF Holds
    <3>2. IsIn(more, {"brand_type"}, New(1))
      BY <2>6, <3>1 DEF IsIn
    <3>3. \A j \in 2 .. 10 : new[j].beh \in ObjectBehs \ {"brand_type"}
      BY <2>5, <2>6, <2>9
    <3>4. \A j \in 2 .. 10 : IsValue(more, New(j))
      BY <3>1, <3>3 DEF IsValue, IsIn
    <3>5. IsValue(more, a_nil)
      BY <2>11, <2>12 DEF Holds
    <3>6. CASE i = 1
      BY <2>6, <3>6 DEF ObjectOK
    <3>7. CASE i \in {2, 6}
      BY <2>6, <2>7, <2>10, <3>2, <3>7 DEF ObjectOK
    <3>8. CASE i \in {3, 5, 7}
      BY <2>6, <2>7, <3>4, <3>8 DEF ObjectOK
    <3>9. CASE i = 4
      BY <2>6, <3>9 DEF ObjectOK
    <3>10. CASE i \in {8, 9, 10}
      BY <2>6, <2>7, <2>10, <3>4, <3>5, <3>10 DEF ObjectOK
    <3> QED
      BY <2>8, <3>6, <3>7, <3>8, <3>9, <3>10
  <2>13. 10 \in DOMAIN new /\ new[10].beh # "brand_type"
    BY <2>5, <2>6
  <2>14. \A more : Holds(more, new) => \A i \in DOMAIN new : ObjectOK(more, new[i].beh, new[i].mine)
    BY <2>12
  <2> QED
    BY <1>2, <2>3, <2>4, <2>9, <2>13, <2>14, MakesAll
<1> QED
  BY <1>2, <1>3 DEF brand_args_beh, TakesArgs

(* A request for the pair that was copied.                                 *)
LEMMA Command ==
  ASSUME NEW open, NEW row, Invariant(open, row), command_beh
  PROVE  Onward
<1>1. Behaves("command_beh") /\ "command_beh" \in ValueBehs \ {"tag_beh"}
  BY DEF command_beh, ValueBehs
<1>2. /\ Runs(open, row) /\ actors[SELF].beh = "command_beh" /\ IsSeq(actors)
      /\ IsFixed(actors, WHAT.val) /\ CustomerOK(actors, "command_beh", MINE)
  BY <1>1, Gets
<1>3. PICK w, x, k : w = MINE /\ x = WHAT.val /\ k = MINE.cust
  OBVIOUS
<1>4. w = Request("as_pair", k) /\ IsIn(actors, PairBehs, k)
  BY <1>2, <1>3 DEF CustomerOK
<1>5. w.op = "as_pair" /\ w.cust = k
  BY <1>4 DEF Request
<1>6. IsValue(actors, x) /\ ~IsIn(actors, {"cons_type"}, x)
  BY <1>2, <1>3 DEF IsFixed
<1>7. RequestOK(actors, x, w)
  <2>1. ~IsIn(actors, {"brand_type"}, x)
    BY <1>2, <1>6, NoBrand
  <2>2. w.op \in Requests
    BY <1>5 DEF Requests
  <2>3. IsIn(actors, PairBehs \cup HeadBehs, w.cust)
    BY <1>4, <1>5 DEF IsIn
  <2>4. CustOK(actors, x, w)
    BY <1>5, <1>6, <2>3 DEF CustOK
  <2> QED
    BY <1>5, <2>1, <2>2, <2>4 DEF RequestOK
<1>8. k \in DOMAIN actors /\ actors[k].beh \in PairBehs /\ k # SELF /\ k # a_sink
  <2>1. actors[a_sink].beh = "sink_beh"
    BY <1>2, Running DEF Settled
  <2> QED
    BY <1>2, <1>4, <2>1 DEF IsIn, PairBehs
<1>9. Dues(row) = {k}
  <2>1. "command_beh" \in Waiting /\ "command_beh" \notin Unplain
    BY DEF Waiting, PlainCusts, ValueBehs, Unplain, JoinBehs
  <2>2. Held(actors, row, queue[1]) = {SELF}
    BY <1>2, <2>1, NoneServed
  <2>3. Direct("command_beh", MINE) = {k}
    BY <1>3 DEF Direct
  <2>4. PICK b, s : b = actors[SELF].beh /\ s = actors[SELF].mine /\ b = "command_beh" /\ s = MINE
    BY <1>2 DEF MINE
  <2>5. Direct(b, s) = {k} /\ Rest(actors, b, s) = {}
    BY <2>3, <2>4 DEF Rest
  <2>6. Keeps(actors, SELF) = {k}
    BY <1>8, <2>4, <2>5 DEF Keeps
  <2> QED
    BY <1>2, <1>8, <2>2, <2>6, Handles
<1>10. PICK m, new, more, row2 :
         m = Message(x, w) /\ new = << >> /\ more = actors \o new /\ row2 = Extended(row, actors, more)
  OBVIOUS
<1>11. IsSeq(new) /\ DOMAIN new = {}
  BY <1>10, OneSent
<1>12. more = actors
  BY <1>2, <1>10, Nothing
<1>13. Handle(more, <<m>>, << >>)
  BY <1>3, <1>10 DEF command_beh, Send, React
<1>14. row2[k] = k
  <2>1. row[k] = k
    BY <1>2, <1>8, RowOfSame DEF PairBehs, HeadBehs
  <2> QED
    BY <1>2, <1>8, <1>10, <1>12, <2>1, RowStays
<1>15. Fits(actors, row2, m, row2[w.cust])
  BY <1>2, <1>6, <1>7, <1>10, RequestFits
<1>16. MessageOK(more, row2, m) /\ Held(more, row2, m) = {k}
  BY <1>5, <1>8, <1>12, <1>14, <1>15 DEF Fits
<1>17. \A j \in {k} : more[j].beh \in MapBehs => RowOK(more, row2, m, j)
  BY <1>8, <1>12 DEF PairBehs, MapBehs
<1>18. actors[SELF].beh \notin Unplain
  BY <1>2 DEF Unplain, JoinBehs
<1>19. PICK R, tokens : R = {k} /\ tokens = << >>
  OBVIOUS
<1>20. \A i \in DOMAIN new : new[i].beh \in ObjectBehs /\ ObjectOK(more, new[i].beh, new[i].mine)
  BY <1>11
<1>21. Dues(row) = R /\ Held(more, row2, m) = R /\ \A j \in R : more[j].beh \in MapBehs => RowOK(more, row2, m, j)
  BY <1>9, <1>16, <1>17, <1>19
<1>22. Handle(more, <<m>>, tokens) /\ IsSeq(tokens)
  BY <1>13, <1>19, OneSent
<1>23. more = actors \o new /\ row2 = Extended(row, actors, more)
  BY <1>10
<1> QED
  BY <1>2, <1>11, <1>16, <1>18, <1>20, <1>21, <1>22, <1>23, Passes

-----------------------------------------------------------------------------
(* The sink, failures and reports.                                         *)

(* Steps that do not end with an answer to each message.                   *)
Specially(open, row, more, row2, sent, tokens, F, open2, hands, rights) ==
  /\ Runs(open, row)
  /\ Grown(actors, SELF, more)
  /\ DOMAIN row2 = DOMAIN more /\ \A a \in DOMAIN actors : row2[a] = row[a]
  /\ IsSeq(sent) /\ IsSeq(tokens)
  /\ Finishes(queue[1], F) /\ (actors[SELF].beh = "tag_beh" => F = {})
  /\ open2 = Later(actors, open, more, F)
  /\ hands = Hands(actors, SELF, open2)
  /\ rights = Rights(actors, row, queue[1], more, F)
  /\ StatesDone(actors, more, row2)
  /\ \A i \in DOMAIN sent : MessageOK(more, row2, sent[i])
  /\ Handed(more, row2, sent, hands, rights)
  /\ OnceMore(actors, SELF, more, row2, sent, hands)
  /\ PassedOn(more, row2, sent, hands, rights)
  /\ more[SELF].beh = "abort_beh" => SELF \in F
  /\ more[SELF].beh = "report_beh" => SELF \notin F
  /\ \A a \in DOMAIN more : a \notin DOMAIN actors => more[a].beh # "throw_beh"
  /\ actors[SELF].beh = "throw_beh" => Has(tokens, "FAIL!")
  /\ JoinsDone(actors, SELF, more, hands, open2)
  /\ RowsDone(actors, more, row2, sent, hands)

(* These are steps, too.                                                   *)
LEMMA SpecialStep ==
  ASSUME NEW open, NEW row, NEW more, NEW row2, NEW sent, NEW tokens, NEW F, NEW open2, NEW hands, NEW rights,
         Specially(open, row, more, row2, sent, tokens, F, open2, hands, rights), Handle(more, sent, tokens)
  PROVE  Onward
<1>0. /\ Runs(open, row)
      /\ Grown(actors, SELF, more)
      /\ DOMAIN row2 = DOMAIN more /\ \A a \in DOMAIN actors : row2[a] = row[a]
      /\ IsSeq(sent) /\ IsSeq(tokens)
      /\ Finishes(queue[1], F) /\ (actors[SELF].beh = "tag_beh" => F = {})
      /\ open2 = Later(actors, open, more, F)
      /\ hands = Hands(actors, SELF, open2)
      /\ rights = Rights(actors, row, queue[1], more, F)
      /\ StatesDone(actors, more, row2)
      /\ \A i \in DOMAIN sent : MessageOK(more, row2, sent[i])
      /\ Handed(more, row2, sent, hands, rights)
      /\ OnceMore(actors, SELF, more, row2, sent, hands)
      /\ PassedOn(more, row2, sent, hands, rights)
      /\ more[SELF].beh = "abort_beh" => SELF \in F
      /\ more[SELF].beh = "report_beh" => SELF \notin F
      /\ \A a \in DOMAIN more : a \notin DOMAIN actors => more[a].beh # "throw_beh"
      /\ actors[SELF].beh = "throw_beh" => Has(tokens, "FAIL!")
      /\ JoinsDone(actors, SELF, more, hands, open2)
      /\ RowsDone(actors, more, row2, sent, hands)
  BY DEF Specially
<1>1. /\ Orderly(actors, queue, turns, out, aborted, open, row)
      /\ 1 \in DOMAIN queue /\ SELF = queue[1].to /\ SELF \in DOMAIN actors
  BY <1>0, Running
<1>2. DOMAIN actors \subseteq DOMAIN more /\ IsSeq(more)
  BY <1>0 DEF Grown
<1>5. Acts(actors, queue, turns, out, aborted, open, row, more, row2, F)
  BY <1>0, <1>1 DEF Acts
<1>9. /\ actors' = more /\ queue' = Tail(queue) \o sent
      /\ Counted(actors, SELF, more, turns, turns')
      /\ ~aborted' => ~aborted /\ \A i \in DOMAIN sent : sent[i].to \in DOMAIN more
      /\ IsSeq(out') /\ (Has(out, "FAIL!") \/ Has(tokens, "FAIL!") => Has(out', "FAIL!"))
  BY <1>0, <1>2, Handling
<1>12. ToldDone(actors, SELF, more, sent, out, out', F)
  BY <1>0, <1>9 DEF ToldDone
<1>14. Completes(actors, queue, turns, out, aborted, open, row, more, row2, F, SELF, sent, queue', turns', out', aborted',
                 open2, rights, hands)
  BY <1>0, <1>1, <1>5, <1>9, <1>12 DEF Completes
<1>15. Orderly(more, queue', turns', out', aborted', open2, row2)
  BY <1>0, <1>14, Step
<1> QED
  BY <1>0, <1>9, <1>15 DEF Onward

(* An actor changes, and new ones are made.                                *)
Remade(row, b, s, new, more, row2) ==
  /\ Grown(actors, SELF, more) /\ IsSeq(more) /\ DOMAIN actors \subseteq DOMAIN more
  /\ more[SELF].beh = b /\ more[SELF].mine = s
  /\ \A a \in DOMAIN actors : a # SELF => more[a] = actors[a]
  /\ DOMAIN row2 = DOMAIN more /\ \A a \in DOMAIN actors : row2[a] = row[a]
  /\ \A i \in DOMAIN new :
       New(i) \in DOMAIN more /\ New(i) \notin DOMAIN actors /\ more[New(i)] = new[i] /\ row2[New(i)] = New(i)
  /\ \A a \in DOMAIN more : a \notin DOMAIN actors => \E i \in DOMAIN new : a = New(i)

LEMMA Remaking ==
  ASSUME NEW open, NEW row, Runs(open, row), NEW b, NEW s, Turned(actors[SELF], Actor(b, s)),
         NEW new, IsSeq(new), NEW more, more = Changed(SELF, b, s) \o new, NEW row2, row2 = Extended(row, actors, more)
  PROVE  Remade(row, b, s, new, more, row2)
<1>1. IsSeq(actors) /\ SELF \in DOMAIN actors
  BY Running
<1>2. PICK base, me, v : base = [actors EXCEPT ![me] = v] /\ base = Changed(SELF, b, s) /\ me = SELF /\ v = Actor(b, s)
  BY DEF Changed
<1>3. /\ DOMAIN actors = 1 .. Len(actors) /\ Len(actors) \in Nat
      /\ DOMAIN new = 1 .. Len(new) /\ Len(new) \in Nat
  BY <1>1, LengthIs
<1>4. IsSeq(base) /\ Len(base) = Len(actors) /\ DOMAIN base = DOMAIN actors
  <2>1. PICK S : actors \in Seq(S)
    BY <1>1 DEF IsSeq
  <2>2. base \in Seq(S \cup {v}) /\ Len(base) = Len(actors)
    BY <1>1, <1>2, <2>1
  <2>3. IsSeq(base)
    BY <2>2 DEF IsSeq
  <2> QED
    BY <1>3, <2>2, <2>3, LengthIs
<1>5. base[SELF] = Actor(b, s) /\ \A a \in DOMAIN actors : a # SELF => base[a] = actors[a]
  BY <1>1, <1>2
<1>20. more = base \o new
  BY <1>2
<1>21. IsSeq(more) /\ DOMAIN more = 1 .. Len(base) + Len(new)
  BY <1>20, <1>4, ConcatenatedAt
<1>6. IsSeq(more) /\ DOMAIN more = 1 .. Len(actors) + Len(new)
  BY <1>4, <1>21
<1>7. \A i \in 1 .. Len(actors) : more[i] = base[i]
  BY <1>20, <1>4, ConcatenatedAt
<1>8. \A i \in Len(actors) + 1 .. Len(actors) + Len(new) : more[i] = new[i - Len(actors)]
  BY <1>20, <1>4, ConcatenatedAt
<1>9. DOMAIN actors \subseteq DOMAIN more
  BY <1>3, <1>6
<1>10. \A a \in DOMAIN actors : more[a] = base[a]
  BY <1>3, <1>7
<1>11. \A a \in DOMAIN more : row2[a] = IF a \in DOMAIN actors THEN row[a] ELSE a
  BY DEF Extended
<1>12. DOMAIN row2 = DOMAIN more
  BY DEF Extended
<1>13. ASSUME NEW i \in DOMAIN new
       PROVE  New(i) \in DOMAIN more /\ New(i) \notin DOMAIN actors /\ more[New(i)] = new[i]
  <2>1. New(i) \in Len(actors) + 1 .. Len(actors) + Len(new) /\ New(i) - Len(actors) = i
    BY <1>3 DEF New
  <2>2. more[New(i)] = new[i]
    BY <1>8, <2>1
  <2> QED
    BY <1>3, <1>6, <2>1, <2>2
<1>14. ASSUME NEW a \in DOMAIN more, a \notin DOMAIN actors
       PROVE  \E i \in DOMAIN new : a = New(i)
  <2>1. a - Len(actors) \in DOMAIN new /\ a = New(a - Len(actors))
    BY <1>3, <1>6, <1>14 DEF New
  <2> QED
    BY <2>1
<1>15. more[SELF] = Actor(b, s) /\ \A a \in DOMAIN actors : a # SELF => more[a] = actors[a]
  BY <1>1, <1>5, <1>10
<1>16. Grown(actors, SELF, more)
  BY <1>1, <1>6, <1>9, <1>15 DEF Grown
<1>17. more[SELF].beh = b /\ more[SELF].mine = s
  BY <1>15 DEF Actor
<1>18. \A a \in DOMAIN actors : row2[a] = row[a]
  BY <1>9, <1>11
<1>19. \A i \in DOMAIN new : row2[New(i)] = New(i)
  BY <1>11, <1>13
<1> QED
  BY <1>6, <1>9, <1>12, <1>13, <1>14, <1>15, <1>16, <1>17, <1>18, <1>19 DEF Remade

-----------------------------------------------------------------------------
LEMMA SinkBeh ==
  ASSUME NEW open, NEW row, Invariant(open, row), sink_beh
  PROVE  Onward
<1>1. Behaves("sink_beh")
  BY DEF sink_beh
<1>2. Runs(open, row) /\ actors[SELF].beh = "sink_beh" /\ IsSeq(actors) /\ SELF \in DOMAIN actors
  BY <1>1, Behaving, Running
<1>3. WHAT.op = "value"
  BY <1>2, Handles DEF SentOK
<1>4. Held(actors, row, queue[1]) = {}
  BY <1>2, <1>3, Handles DEF Held, Answers, Serves, Requests
<1>5. Keeps(actors, SELF) = {}
  BY <1>2 DEF Keeps, Direct, Rest, WithCust, PlainArgsBehs, BrandBehs, PairBehs, JoinBehs
<1>6. Dues(row) = {}
  BY <1>2, <1>4, <1>5, Handles
<1>7. Handle(actors, << >>, << >>)
  BY <1>2, Nothing DEF sink_beh, Ignore, React
<1> QED
  BY <1>2, <1>6, <1>7, Ignores, OneSent DEF Unplain, JoinBehs

LEMMA ThrowBeh ==
  ASSUME NEW open, NEW row, Invariant(open, row), throw_beh
  PROVE  Onward
<1>1. Behaves("throw_beh")
  BY DEF throw_beh
<1>2. Runs(open, row) /\ actors[SELF].beh = "throw_beh" /\ IsSeq(actors) /\ SELF \in DOMAIN actors /\ DOMAIN row = DOMAIN actors
  BY <1>1, Behaving, Running, RowOfSame
<1>3. Held(actors, row, queue[1]) = {SELF}
  BY <1>2, NoneServed DEF Waiting, PlainCusts, ValueBehs
<1>4. Keeps(actors, SELF) = {}
  BY <1>2 DEF Keeps, Direct, Rest, WithCust, PlainArgsBehs, BrandBehs, PairBehs, JoinBehs
<1>5. PICK sent, tokens, F, open2 : sent = << >> /\ tokens = <<"FAIL!">> /\ F = {SELF} /\ open2 = Later(actors, open, actors, F)
  OBVIOUS
<1>6. Handle(actors, sent, tokens)
  BY <1>5 DEF throw_beh
<1>7. DOMAIN sent = {} /\ IsSeq(sent) /\ IsSeq(tokens) /\ Has(tokens, "FAIL!")
  BY <1>5, OneSent DEF Has
<1>8. Grown(actors, SELF, actors)
  BY <1>2, SameSelf DEF Same
<1>9. Hands(actors, SELF, open2) = {}
  BY <1>2, <1>5, Running DEF Hands, Later, Newly
<1>10. Rights(actors, row, queue[1], actors, F) = {}
  <2>3. queue[1].to = SELF
    BY <1>2, Handles
  <2>1. InHand(actors, row, queue[1]) = {SELF}
    BY <1>3, <1>4, <2>3 DEF InHand
  <2>2. Newly(actors, actors) = {}
    BY DEF Newly
  <2> QED
    BY <1>5, <2>1, <2>2 DEF Rights
<1>11. Finishes(queue[1], F)
  <2>1. queue[1].what.op # "tagged"
    BY <1>2, Handles DEF SentOK, ValueOK, ValueBehs
  <2>2. queue[1].to = SELF
    BY <1>2, Handles
  <2> QED
    BY <1>5, <2>1, <2>2 DEF Finishes
<1>12. StatesDone(actors, actors, row)
  BY DEF StatesDone
<1>13. Handed(actors, row, sent, {}, {}) /\ OnceMore(actors, SELF, actors, row, sent, {}) /\ PassedOn(actors, row, sent, {}, {})
  BY <1>2, <1>7 DEF Handed, OnceMore, PassedOn, OneShot
<1>14. JoinsDone(actors, SELF, actors, {}, open2)
  <2>1. ASSUME NEW t \in open2, actors[t].beh = "tag_beh", actors[t].mine = SELF
        PROVE  FALSE
    <3>1. t \in DOMAIN actors
      BY <1>2, <1>5, <2>1, Running DEF Later, Newly
    <3> QED
      BY <1>2, <2>1, <3>1, Running DEF Tagging, IsIn, JoinBehs
  <2>2. \A t \in open2 : t \in DOMAIN actors
    BY <1>2, <1>5, Running DEF Later, Newly
  <2> QED
    BY <2>1, <2>2 DEF JoinsDone
<1>15. RowsDone(actors, actors, row, sent, {})
  BY <1>7 DEF RowsDone
<1>16. \A i \in DOMAIN sent : MessageOK(actors, row, sent[i])
  BY <1>7
<1>17. PICK none : none = {}
  OBVIOUS
<1>18. Specially(open, row, actors, row, sent, tokens, F, open2, none, none)
  BY <1>2, <1>5, <1>7, <1>8, <1>9, <1>10, <1>11, <1>12, <1>13, <1>14, <1>15, <1>16, <1>17 DEF Specially
<1> QED
  BY <1>6, <1>18, SpecialStep

(* Steps of actors that are neither forks nor joins.                       *)
Carries(open, row, more, row2, sent, tokens, F, hands, rights) ==
  /\ Runs(open, row)
  /\ actors[SELF].beh \notin JoinBehs \cup {"tag_beh", "fork_beh", "throw_beh"}
  /\ Grown(actors, SELF, more)
  /\ DOMAIN row2 = DOMAIN more /\ \A a \in DOMAIN actors : row2[a] = row[a]
  /\ IsSeq(sent) /\ IsSeq(tokens)
  /\ F \subseteq {SELF}
  /\ hands = Newly(actors, more) \cup (({SELF} \ F) \cap open)
  /\ rights = (InHand(actors, row, queue[1]) \ F) \cup Newly(actors, more)
  /\ StatesDone(actors, more, row2)
  /\ \A i \in DOMAIN sent : MessageOK(more, row2, sent[i])
  /\ Handed(more, row2, sent, hands, rights)
  /\ OnceMore(actors, SELF, more, row2, sent, hands)
  /\ PassedOn(more, row2, sent, hands, rights)
  /\ more[SELF].beh \notin JoinBehs \cup {"report_beh"}
  /\ more[SELF].beh = "abort_beh" => SELF \in F
  /\ \A a \in DOMAIN more :
       a \notin DOMAIN actors => more[a].beh \notin {"throw_beh", "tag_beh", "map_pair_beh"} \cup JoinBehs
  /\ \A i \in DOMAIN sent : \A k \in Held(more, row2, sent[i]) :
       more[k].beh \in MapBehs => RowOK(more, row2, sent[i], k)
  /\ \A a \in hands : \A k \in Keeps(more, a) :
       more[k].beh \in MapBehs => more[k].beh = "map_tail_beh" /\ Busy(more, row2, k) = {}

(* These are steps, too.                                                   *)
LEMMA CarriesStep ==
  ASSUME NEW open, NEW row, NEW more, NEW row2, NEW sent, NEW tokens, NEW F, NEW hands, NEW rights,
         Carries(open, row, more, row2, sent, tokens, F, hands, rights), Handle(more, sent, tokens)
  PROVE  Onward
<1>0. /\ Runs(open, row)
      /\ actors[SELF].beh \notin JoinBehs \cup {"tag_beh", "fork_beh", "throw_beh"}
      /\ Grown(actors, SELF, more)
      /\ DOMAIN row2 = DOMAIN more /\ \A a \in DOMAIN actors : row2[a] = row[a]
      /\ IsSeq(sent) /\ IsSeq(tokens)
      /\ F \subseteq {SELF}
      /\ hands = Newly(actors, more) \cup (({SELF} \ F) \cap open)
      /\ rights = (InHand(actors, row, queue[1]) \ F) \cup Newly(actors, more)
      /\ StatesDone(actors, more, row2)
      /\ \A i \in DOMAIN sent : MessageOK(more, row2, sent[i])
      /\ Handed(more, row2, sent, hands, rights)
      /\ OnceMore(actors, SELF, more, row2, sent, hands)
      /\ PassedOn(more, row2, sent, hands, rights)
      /\ more[SELF].beh \notin JoinBehs \cup {"report_beh"}
      /\ more[SELF].beh = "abort_beh" => SELF \in F
      /\ \A a \in DOMAIN more :
           a \notin DOMAIN actors => more[a].beh \notin {"throw_beh", "tag_beh", "map_pair_beh"} \cup JoinBehs
      /\ \A i \in DOMAIN sent : \A k \in Held(more, row2, sent[i]) :
           more[k].beh \in MapBehs => RowOK(more, row2, sent[i], k)
      /\ \A a \in hands : \A k \in Keeps(more, a) :
           more[k].beh \in MapBehs => more[k].beh = "map_tail_beh" /\ Busy(more, row2, k) = {}
  BY DEF Carries
<1>1. /\ Orderly(actors, queue, turns, out, aborted, open, row)
      /\ 1 \in DOMAIN queue /\ SELF = queue[1].to /\ SELF \in DOMAIN actors
      /\ open \subseteq DOMAIN actors /\ Tagging(actors)
  BY <1>0, Running
<1>2. DOMAIN actors \subseteq DOMAIN more
  BY <1>0 DEF Grown
<1>3. Finishes(queue[1], F)
  <2>1. queue[1].what.op # "tagged"
    BY <1>0, <1>1, Taking
  <2> QED
    BY <1>0, <1>1, <2>1 DEF Finishes
<1>4. PICK open2 : open2 = Later(actors, open, more, F)
  OBVIOUS
<1>5. \A a \in Newly(actors, more) : a \in DOMAIN more /\ a \notin DOMAIN actors
  BY DEF Newly
<1>6. open2 = (open \ F) \cup Newly(actors, more)
  BY <1>4 DEF Later
<1>7. Hands(actors, SELF, open2) = hands
  BY <1>0, <1>1, <1>5, <1>6 DEF Hands
<1>8. Rights(actors, row, queue[1], more, F) = rights
  BY <1>0 DEF Rights
<1>9. JoinsDone(actors, SELF, more, hands, open2)
  <2>1. ASSUME NEW t \in open2, more[t].beh = "tag_beh", t \notin DOMAIN actors \/ more[t].mine = SELF
        PROVE  FALSE
    <3>1. t \in DOMAIN actors /\ more[t].mine = SELF
      BY <1>0, <1>1, <1>5, <1>6, <2>1
    <3>2. t # SELF
      <4>1. Turned(actors[SELF], more[SELF])
        BY <1>0 DEF Grown
      <4> QED
        BY <1>0, <2>1, <4>1 DEF Turned, Turning, Mutable, JoinBehs, MapBehs, HeadBehs
    <3>3. actors[t] = more[t]
      BY <1>0, <2>1, <3>1, <3>2 DEF Grown, Mutable
    <3>4. IsIn(actors, JoinBehs, SELF)
      BY <1>1, <2>1, <3>1, <3>3 DEF Tagging
    <3> QED
      BY <1>0, <3>4 DEF IsIn
  <2>2. ASSUME NEW j \in hands, NEW t, Awaits(more[j], t)
        PROVE  FALSE
    <3>1. more[j].beh \notin JoinBehs
      BY <1>0, <1>5
    <3> QED
      BY <2>2, <3>1 DEF Awaits, JoinBehs
  <2> QED
    BY <2>1, <2>2 DEF JoinsDone
<1>10. RowsDone(actors, more, row2, sent, hands)
  BY <1>0 DEF RowsDone
<1>11. /\ more[SELF].beh = "report_beh" => SELF \notin F
       /\ \A a \in DOMAIN more : a \notin DOMAIN actors => more[a].beh # "throw_beh"
       /\ actors[SELF].beh = "throw_beh" => Has(tokens, "FAIL!")
       /\ actors[SELF].beh = "tag_beh" => F = {}
  BY <1>0
<1>12. Specially(open, row, more, row2, sent, tokens, F, open2, hands, rights)
  BY <1>0, <1>3, <1>4, <1>7, <1>8, <1>9, <1>10, <1>11 DEF Specially
<1> QED
  BY <1>12, SpecialStep

(* What a customer's answer is reported by.                                *)
LEMMA ReportBeh ==
  ASSUME NEW open, NEW row, Invariant(open, row), report_beh
  PROVE  Onward
<1>1. Behaves("report_beh") /\ "report_beh" \in ValueBehs \ {"tag_beh"}
  BY DEF report_beh, ValueBehs
<1>2. Runs(open, row) /\ actors[SELF].beh = "report_beh" /\ IsSeq(actors) /\ IsValue(actors, WHAT.val)
      /\ CustomerOK(actors, "report_beh", MINE)
  BY <1>1, Gets
<1>3. MINE = a_sink
  BY <1>2 DEF CustomerOK
<1>4. SELF \in DOMAIN actors /\ a_sink \in DOMAIN actors /\ actors[a_sink].beh = "sink_beh" /\ Tagging(actors)
  BY <1>2, Running DEF Settled
<1>5. Held(actors, row, queue[1]) = {SELF}
  BY <1>2, NoneServed DEF Waiting, PlainCusts, ValueBehs
<1>6. Keeps(actors, SELF) = {}
  BY <1>2 DEF Keeps, Direct, Rest, WithCust, PlainArgsBehs, BrandBehs, PairBehs, JoinBehs
<1>7. PICK b, s, new, more, row2 :
        /\ b = "newline_beh" /\ s = [cust |-> a_sink, val |-> WHAT.val]
        /\ new = <<Actor(b, s)>> /\ more = Changed(SELF, "abort_beh", NIL) \o new /\ row2 = Extended(row, actors, more)
  OBVIOUS
<1>8. PICK m, sent, tokens : m = Message(WHAT.val, Request("write", New(1))) /\ sent = <<m>> /\ tokens = << >>
  OBVIOUS
<1>9. Handle(more, sent, tokens)
  BY <1>3, <1>7, <1>8 DEF report_beh
<1>10. IsSeq(new) /\ DOMAIN new = {1} /\ new[1].beh = b /\ new[1].mine = s
       /\ IsSeq(sent) /\ DOMAIN sent = {1} /\ sent[1] = m /\ IsSeq(tokens)
  BY <1>7, <1>8, OneSent DEF Actor
<1>11. Turned(actors[SELF], Actor("abort_beh", NIL))
  BY <1>2 DEF Turned, Turning, Mutable, JoinBehs, MapBehs, HeadBehs, Actor
<1>12. Remade(row, "abort_beh", NIL, new, more, row2)
  BY <1>2, <1>7, <1>10, <1>11, Remaking
<1>13. /\ Grown(actors, SELF, more) /\ IsSeq(more) /\ DOMAIN actors \subseteq DOMAIN more
       /\ more[SELF].beh = "abort_beh" /\ more[SELF].mine = NIL
       /\ \A a \in DOMAIN actors : a # SELF => more[a] = actors[a]
       /\ DOMAIN row2 = DOMAIN more /\ \A a \in DOMAIN actors : row2[a] = row[a]
       /\ New(1) \in DOMAIN more /\ New(1) \notin DOMAIN actors /\ more[New(1)].beh = b /\ more[New(1)].mine = s /\ row2[New(1)] = New(1)
       /\ \A a \in DOMAIN more : a \notin DOMAIN actors => a = New(1)
  BY <1>10, <1>12 DEF Remade
<1>14. Newly(actors, more) = {New(1)}
  BY <1>7, <1>13 DEF Newly, OpenBehs, ValueBehs
<1>15. IsValue(more, WHAT.val) /\ AnyCust(more, a_sink) /\ more[a_sink] = actors[a_sink]
  BY <1>2, <1>4, <1>13, ValuesStay DEF AnyCust
<1>16. Cust(more, a_sink)
  BY <1>4, <1>15 DEF Cust, WaitsForCopy, IsIn
<1>17. CustomerOK(more, b, s)
  <2>1. s.cust = a_sink /\ s.val = WHAT.val
    BY <1>7
  <2> QED
    BY <1>7, <1>15, <1>16, <2>1 DEF CustomerOK, PlainArgsBehs, PairBehs, BrandBehs
<1>18. StateOK(more, row2, New(1), b, s) /\ b \in Kinds
  BY <1>7, <1>13, <1>17, CustomerState DEF PlainCusts, ValueBehs
<1>19. Keeps(more, New(1)) = {}
  <2>1. s.cust = a_sink
    BY <1>7
  <2>2. Direct(b, s) = {a_sink}
    BY <1>7, <2>1, DirectIs DEF WithCust
  <2> QED
    BY <1>7, <1>13, <2>2 DEF Keeps, Rest
<1>20. StatesDone(actors, more, row2)
  <2>1. StateOK(more, row2, SELF, "abort_beh", NIL) /\ "abort_beh" \in Kinds
    <3>1. row2[SELF] = SELF
      BY <1>2, <1>4, <1>13, RowOfSame DEF HeadBehs
    <3> QED
      BY <3>1 DEF StateOK, ObjectOK, CustomerOK, ForkJoinOK, MapOK, Kinds, HeadBehs, WithCust, PlainArgsBehs, PairBehs, BrandBehs,
                  JoinBehs
  <2>2. Keeps(more, SELF) = {}
    BY <1>13 DEF Keeps, Direct, Rest, WithCust, PlainArgsBehs, BrandBehs, PairBehs, JoinBehs
  <2> QED
    BY <1>13, <1>18, <1>19, <2>1, <2>2 DEF StatesDone
<1>21. Fits(more, row2, m, New(1))
  <2>1. Cust(more, New(1))
    BY <1>7, <1>13, NewCust DEF ValueBehs
  <2>2. RequestOK(more, WHAT.val, Request("write", New(1)))
    BY <1>13, <1>15, <2>1, OthersAre
  <2>3. Request("write", New(1)).cust = New(1)
    BY DEF Request
  <2> QED
    BY <1>8, <1>13, <1>15, <2>2, <2>3, RequestFits
<1>22. New(1) # a_sink
  BY <1>4, <1>13
<1>23. MessageOK(more, row2, m) /\ Held(more, row2, m) = {New(1)}
  BY <1>21, <1>22 DEF Fits
<1>24. PICK F, hands, rights : F = {SELF} /\ hands = {New(1)} /\ rights = {New(1)}
  OBVIOUS
<1>25. InHand(actors, row, queue[1]) = {SELF}
  <2>1. queue[1].to = SELF
    BY <1>2, Handles
  <2> QED
    BY <1>5, <1>6, <2>1 DEF InHand
<1>26. hands = Newly(actors, more) \cup (({SELF} \ F) \cap open)
  BY <1>14, <1>24
<1>27. rights = (InHand(actors, row, queue[1]) \ F) \cup Newly(actors, more)
  BY <1>14, <1>24, <1>25
<1>28. Handed(more, row2, sent, hands, rights)
  BY <1>10, <1>19, <1>23, <1>24 DEF Handed
<1>29. PassedOn(more, row2, sent, hands, rights)
  BY <1>10, <1>23, <1>24 DEF PassedOn
<1>30. OnceMore(actors, SELF, more, row2, sent, hands)
  BY <1>2, <1>4, <1>10, <1>13, <1>19, <1>23, <1>24 DEF OnceMore, OneShot
<1>31. /\ \A i \in DOMAIN sent : MessageOK(more, row2, sent[i])
       /\ \A i \in DOMAIN sent : \A k \in Held(more, row2, sent[i]) :
            more[k].beh \in MapBehs => RowOK(more, row2, sent[i], k)
       /\ \A a \in hands : \A k \in Keeps(more, a) :
            more[k].beh \in MapBehs => more[k].beh = "map_tail_beh" /\ Busy(more, row2, k) = {}
  BY <1>7, <1>10, <1>13, <1>19, <1>23, <1>24 DEF MapBehs
<1>32. /\ actors[SELF].beh \notin JoinBehs \cup {"tag_beh", "fork_beh", "throw_beh"}
       /\ more[SELF].beh \notin JoinBehs \cup {"report_beh"}
       /\ \A a \in DOMAIN more :
            a \notin DOMAIN actors => more[a].beh \notin {"throw_beh", "tag_beh", "map_pair_beh"} \cup JoinBehs
  BY <1>2, <1>7, <1>13 DEF JoinBehs
<1>33. Carries(open, row, more, row2, sent, tokens, F, hands, rights)
  BY <1>2, <1>10, <1>13, <1>20, <1>24, <1>26, <1>27, <1>28, <1>29, <1>30, <1>31, <1>32 DEF Carries
<1> QED
  BY <1>9, <1>33, CarriesStep

-----------------------------------------------------------------------------
(* Operands evaluated at once.                                             *)

(* Operands evaluated at once.                                             *)
LEMMA ConcurrentOper ==
  ASSUME NEW open, NEW row, Invariant(open, row), concurrent_oper
  PROVE  Onward
<1>0. Behaves("concurrent_oper") /\ "concurrent_oper" \in ObjectBehs \ {"brand_type", "cons_type"}
  BY DEF concurrent_oper, Listing, Operative, ObjectBehs, Immutable
<1>1. Runs(open, row) /\ IsSeq(actors) /\ (oper_type => Onward)
  BY <1>0, Combining
<1>2. CASE WHAT.op = "comb"
  <2>1. PICK k, b, env, w : k = WHAT.cust /\ b = "concurrent_args_beh" /\ env = WHAT.env /\ w = as_tuple(WHAT.opnds)
    OBVIOUS
  <2>2. Due(open, row, k) /\ Cust(actors, k) /\ IsValue(actors, WHAT.opnds) /\ IsValue(actors, env)
    BY <1>0, <1>2, <2>1, Combining
  <2>3. HasEnd(WHAT.opnds) /\ React(<<Actor(b, env)>>, <<Message(New(1), w), Message(k, Value(a_inert))>>)
    BY <1>2, <2>1 DEF concurrent_oper, Listing, Operative
  <2>4. ArgsOK(actors, w)
    BY <1>1, <2>1, <2>2, <2>3, TupleIs
  <2>5. PICK new, more, row2, m, r, sent, tokens :
          /\ new = <<Actor(b, env)>> /\ more = actors \o new /\ row2 = Extended(row, actors, more)
          /\ m = Message(New(1), w) /\ r = Message(k, Value(a_inert)) /\ sent = <<m, r>> /\ tokens = << >>
    OBVIOUS
  <2>6. Handle(more, sent, tokens)
    BY <2>3, <2>5 DEF React
  <2>7. IsSeq(new) /\ DOMAIN new = {1} /\ new[1].beh = b /\ new[1].mine = env
        /\ IsSeq(sent) /\ DOMAIN sent = {1, 2} /\ sent[1] = m /\ sent[2] = r /\ IsSeq(tokens)
    BY <2>5, OneSent DEF Actor
  <2>8. Adds(row, new, more, row2)
    BY <1>1, <2>5, <2>7, Adding
  <2>9. /\ Grown(actors, SELF, more) /\ more[SELF].beh = actors[SELF].beh
        /\ \A a \in DOMAIN actors : more[a] = actors[a]
        /\ New(1) \in DOMAIN more /\ New(1) \notin DOMAIN actors /\ more[New(1)].beh = b /\ more[New(1)].mine = env
        /\ row2[New(1)] = New(1)
        /\ \A a \in DOMAIN more : a \notin DOMAIN actors => a = New(1)
    BY <2>7, <2>8 DEF Adds
  <2>10. Newly(actors, more) = {New(1)}
    BY <2>1, <2>9 DEF Newly, OpenBehs, ArgsBehs
  <2>11. Cust(more, k) /\ AnyCust(more, k) /\ Sinks(more) /\ IsFixed(more, a_inert) /\ IsValue(more, env)
         /\ (\A v : IsValue(actors, v) => IsValue(more, v))
    BY <1>1, <2>2, <2>9, BothKept, ConstantsAre
  <2>12. CustomerOK(more, b, env)
    BY <2>1, <2>11 DEF CustomerOK, WithCust, PlainArgsBehs, PairBehs, BrandBehs
  <2>13. StateOK(more, row2, New(1), b, env) /\ b \in Kinds
    BY <2>1, <2>9, <2>12, CustomerState DEF PlainCusts, ArgsBehs
  <2>14. Keeps(more, New(1)) = {}
    BY <2>1, <2>9 DEF Keeps, Direct, Rest, WithCust, PlainArgsBehs, BrandBehs, PairBehs, JoinBehs
  <2>15. StatesDone(actors, more, row2)
    BY <2>9, <2>13, <2>14 DEF StatesDone
  <2>16. New(1) # a_sink /\ k \in DOMAIN actors
    <3>1. Settled(actors) /\ AnyCust(actors, k)
      BY <1>1, <2>2, Running DEF Due
    <3> QED
      BY <2>9, <3>1 DEF Settled, AnyCust, IsIn
  <2>17. MessageOK(more, row2, m) /\ Held(more, row2, m) = {New(1)}
    <3>1. w.op \notin Requests \cup {"heads", "tagged"}
      BY <2>4 DEF ArgsOK, Requests
    <3>2. ArgsOK(more, w)
      BY <2>4, <2>11 DEF ArgsOK
    <3>3. m.to = New(1) /\ m.what = w
      BY <2>5 DEF Message
    <3>4. b \notin ObjectBehs \cup {"sink_beh", "fork_beh", "pair_copy_beh", "pair_map_beh"} \cup ValueBehs \cup PairBehs
           \cup JoinBehs \cup {"map_unwrap_beh", "map_comb_beh", "map_next_beh", "map_tail_beh"} \cup HeadBehs
      BY <2>1 DEF ObjectBehs, Immutable, Mutable, PairBehs, JoinBehs, HeadBehs, ValueBehs
    <3>5. SentOK(more, row2, New(1), w)
      BY <2>9, <3>2, <3>4 DEF SentOK, HeadBehs
    <3> QED
      BY <2>9, <2>16, <3>1, <3>3, <3>4, <3>5 DEF MessageOK, Held, Answers, Serves
  <2>18. MessageOK(more, row2, r) /\ Held(more, row2, r) = {k} \ {a_sink}
    <3>1. Suits(more, k, a_inert) /\ Itself(row2, k)
      BY <2>2, <2>5, <2>9, <2>11, CustSuits, DueItself
    <3>2. Fits(more, row2, r, k)
      BY <2>5, <2>11, <3>1, ReplyFits
    <3> QED
      BY <3>2 DEF Fits
  <2>19. PICK fresh, rights : fresh = {New(1)} /\ rights = ({k} \ {a_sink}) \cup fresh
    OBVIOUS
  <2>20. Handed(more, row2, sent, fresh, rights)
    <3>1. Held(more, row2, m) \cap Held(more, row2, r) = {}
      BY <2>9, <2>16, <2>17, <2>18
    <3>2. \A i \in DOMAIN sent : Held(more, row2, sent[i]) \subseteq rights
      BY <2>7, <2>17, <2>18, <2>19
    <3>3. \A i, j \in DOMAIN sent : i # j => Held(more, row2, sent[i]) \cap Held(more, row2, sent[j]) = {}
      BY <2>7, <3>1
    <3> QED
      BY <2>14, <2>19, <3>2, <3>3 DEF Handed
  <2>21. PassedOn(more, row2, sent, fresh, rights)
    BY <2>7, <2>17, <2>18, <2>19 DEF PassedOn
  <2>22. RowsDone(actors, more, row2, sent, fresh)
    <3>1. more[k].beh \notin MapBehs
      BY <2>11, CustNoMap DEF Sinks
    <3>2. more[New(1)].beh \notin MapBehs \cup {"map_pair_beh"}
      BY <2>1, <2>9 DEF MapBehs
    <3>3. \A x \in DOMAIN more : x \notin DOMAIN actors => more[x].beh # "map_pair_beh"
      BY <2>9, <3>2
    <3>4. \A i \in DOMAIN sent : \A x \in Held(more, row2, sent[i]) : more[x].beh \notin MapBehs
      BY <2>7, <2>17, <2>18, <3>1, <3>2
    <3> QED
      BY <2>14, <2>19, <3>3, <3>4 DEF RowsDone
  <2>23. /\ actors[SELF].beh \notin Unplain /\ Dues(row) = {k} \ {a_sink}
         /\ \A a \in DOMAIN more : a \notin DOMAIN actors => more[a].beh \notin {"tag_beh", "map_pair_beh", "throw_beh"} \cup JoinBehs
         /\ \A i \in DOMAIN sent : MessageOK(more, row2, sent[i])
    BY <2>1, <2>2, <2>7, <2>9, <2>17, <2>18 DEF Due, JoinBehs
  <2>24. fresh = Newly(actors, more) /\ rights = Dues(row) \cup fresh
    BY <2>10, <2>19, <2>23
  <2>25. Plainly(open, row, more, row2, sent, tokens, fresh, rights)
    BY <1>1, <2>5, <2>7, <2>9, <2>15, <2>20, <2>21, <2>22, <2>23, <2>24 DEF Plainly
  <2> QED
    BY <2>6, <2>25, PlainStep
<1>3. CASE WHAT.op # "comb"
  BY <1>1, <1>3 DEF concurrent_oper, Listing, Operative
<1> QED
  BY <1>2, <1>3

(* The actor that hands out the operands sends itself the rest.            *)
LEMMA ConcurrentArgs ==
  ASSUME NEW open, NEW row, Invariant(open, row), concurrent_args_beh
  PROVE  Onward
<1>1. Behaves("concurrent_args_beh")
  BY DEF concurrent_args_beh
<1>2. Runs(open, row) /\ actors[SELF].beh = "concurrent_args_beh" /\ IsSeq(actors) /\ SELF \in DOMAIN actors
  BY <1>1, Behaving, Running
<1>3. StateOK(actors, row, SELF, "concurrent_args_beh", MINE) /\ SentOK(actors, row, SELF, WHAT)
  BY <1>2, Handles
<1>4. IsValue(actors, MINE)
  BY <1>3 DEF StateOK, CustomerOK
<1>5. ArgsOK(actors, WHAT)
  BY <1>2, <1>3 DEF SentOK, ArgsBehs
<1>6. Held(actors, row, queue[1]) = {SELF}
  BY <1>2, NoneServed DEF Waiting, PlainCusts, ArgsBehs
<1>7. Keeps(actors, SELF) = {}
  BY <1>2 DEF Keeps, Direct, Rest, WithCust, PlainArgsBehs, BrandBehs, PairBehs, JoinBehs
<1>8. InHand(actors, row, queue[1]) = {SELF}
  <2>1. queue[1].to = SELF
    BY <1>2, Handles
  <2> QED
    BY <1>6, <1>7, <2>1 DEF InHand
<1>9. CASE WHAT.op = "args" /\ WHAT.args # << >>
  <2>1. PICK x, w, t, rest, m, r, sent, tokens :
          /\ x = Arg(1) /\ w = Eval(a_sink, MINE) /\ rest = Tail(WHAT.args) /\ t = ProperTuple(rest)
          /\ m = Message(x, w) /\ r = Message(SELF, t) /\ sent = <<m, r>> /\ tokens = << >>
    OBVIOUS
  <2>2. Handle(actors, sent, tokens)
    BY <1>2, <1>9, <2>1, Nothing DEF concurrent_args_beh, React
  <2>3. IsSeq(sent) /\ DOMAIN sent = {1, 2} /\ sent[1] = m /\ sent[2] = r /\ IsSeq(tokens)
    BY <2>1, OneSent
  <2>4. IsSeq(WHAT.args) /\ \A i \in DOMAIN WHAT.args : IsValue(actors, WHAT.args[i])
    BY <1>5, <1>9 DEF ArgsOK
  <2>5. PICK args, T : args = WHAT.args /\ args \in Seq(T)
    BY <2>4 DEF IsSeq
  <2>6. /\ args # << >> /\ rest \in Seq(T) /\ Len(rest) = Len(args) - 1
        /\ \A i \in 1 .. Len(rest) : rest[i] = args[i + 1]
        /\ Len(args) \in Nat \ {0} /\ DOMAIN args = 1 .. Len(args)
    BY <1>9, <2>1, <2>5
  <2>7. IsValue(actors, x)
    BY <2>1, <2>4, <2>5, <2>6 DEF Arg
  <2>8. \A i \in DOMAIN rest : IsValue(actors, rest[i])
    <3>1. DOMAIN rest = 1 .. Len(rest)
      BY <2>6
    <3>2. \A i \in DOMAIN rest : i + 1 \in DOMAIN args /\ rest[i] = args[i + 1]
      BY <2>6, <3>1
    <3> QED
      BY <2>4, <2>5, <3>2
  <2>9. t.op = "args" /\ t.args = rest
    BY <2>1 DEF ProperTuple
  <2>10. IsSeq(rest)
    BY <2>6 DEF IsSeq
  <2>11. ArgsOK(actors, t)
    BY <2>8, <2>9, <2>10 DEF ArgsOK
  <2>12. DOMAIN row = DOMAIN actors /\ row[SELF] = SELF /\ row[a_sink] = a_sink
         /\ a_sink \in DOMAIN actors /\ actors[a_sink].beh = "sink_beh" /\ open \subseteq DOMAIN actors
    <3>1. Settled(actors) /\ open \subseteq DOMAIN actors
      BY <1>2, Running
    <3>2. a_sink \in DOMAIN actors /\ actors[a_sink].beh = "sink_beh"
      BY <3>1 DEF Settled
    <3> QED
      BY <1>2, <3>1, <3>2, RowOfSame DEF HeadBehs
  <2>13. Cust(actors, a_sink)
    BY <2>12 DEF Cust, AnyCust, WaitsForCopy, IsIn
  <2>14. RequestOK(actors, x, w) /\ w.cust = a_sink
    BY <1>2, <1>4, <2>1, <2>7, <2>13, RequestsAre DEF Eval
  <2>15. Fits(actors, row, m, a_sink)
    BY <1>2, <2>1, <2>7, <2>12, <2>14, RequestFits
  <2>16. MessageOK(actors, row, m) /\ Held(actors, row, m) = {}
    BY <2>15 DEF Fits
  <2>17. MessageOK(actors, row, r) /\ Held(actors, row, r) = {SELF}
    <3>1. t.op \notin Requests \cup {"heads", "tagged"}
      BY <2>9 DEF Requests
    <3>3. r.to = SELF /\ r.what = t
      BY <2>1 DEF Message
    <3>4. actors[SELF].beh \notin ObjectBehs \cup {"sink_beh", "fork_beh", "pair_copy_beh", "pair_map_beh"} \cup ValueBehs \cup PairBehs
           \cup JoinBehs \cup {"map_unwrap_beh", "map_comb_beh", "map_next_beh", "map_tail_beh"} \cup HeadBehs
      BY <1>2 DEF ObjectBehs, Immutable, Mutable, PairBehs, JoinBehs, HeadBehs, ValueBehs
    <3>5. SentOK(actors, row, SELF, t)
      BY <2>11, <3>4 DEF SentOK, HeadBehs
    <3> QED
      BY <1>2, <2>12, <3>1, <3>3, <3>4, <3>5 DEF MessageOK, Held, Answers, Serves
  <2>18. PICK F, hands, rights : F = {} /\ hands = {SELF} \cap open /\ rights = {SELF}
    OBVIOUS
  <2>19. Newly(actors, actors) = {}
    BY DEF Newly
  <2>20. /\ hands = Newly(actors, actors) \cup (({SELF} \ F) \cap open)
         /\ rights = (InHand(actors, row, queue[1]) \ F) \cup Newly(actors, actors)
    BY <1>8, <2>18, <2>19
  <2>21. \A a \in hands : a = SELF
    BY <2>18
  <2>22. Handed(actors, row, sent, hands, rights)
    <3>1. \A i \in DOMAIN sent : Held(actors, row, sent[i]) \subseteq rights
      BY <2>3, <2>16, <2>17, <2>18
    <3>2. \A i, j \in DOMAIN sent : i # j => Held(actors, row, sent[i]) \cap Held(actors, row, sent[j]) = {}
      BY <2>3, <2>16, <2>17
    <3> QED
      BY <1>7, <2>21, <3>1, <3>2 DEF Handed
  <2>23. PassedOn(actors, row, sent, hands, rights)
    BY <2>3, <2>17, <2>18 DEF PassedOn
  <2>24. OnceMore(actors, SELF, actors, row, sent, hands)
    BY <1>2 DEF OnceMore, OneShot
  <2>25. /\ \A i \in DOMAIN sent : MessageOK(actors, row, sent[i])
         /\ \A i \in DOMAIN sent : \A k \in Held(actors, row, sent[i]) :
              actors[k].beh \in MapBehs => RowOK(actors, row, sent[i], k)
         /\ \A a \in hands : \A k \in Keeps(actors, a) :
              actors[k].beh \in MapBehs => actors[k].beh = "map_tail_beh" /\ Busy(actors, row, k) = {}
    BY <1>2, <1>7, <2>3, <2>16, <2>17, <2>21 DEF MapBehs
  <2>26. Grown(actors, SELF, actors) /\ StatesDone(actors, actors, row)
    BY <1>2, SameSelf DEF Same, StatesDone
  <2>27. Carries(open, row, actors, row, sent, tokens, F, hands, rights)
    BY <1>2, <2>3, <2>12, <2>18, <2>20, <2>22, <2>23, <2>24, <2>25, <2>26 DEF Carries, JoinBehs
  <2> QED
    BY <2>2, <2>27, CarriesStep
<1>10. CASE ~(WHAT.op = "args" /\ WHAT.args # << >>)
  <2>1. Handle(actors, << >>, << >>)
    BY <1>2, <1>10, Nothing DEF concurrent_args_beh, Ignore, React
  <2>2. Dues(row) = {}
    BY <1>8 DEF Dues
  <2>3. actors[SELF].beh \notin Unplain
    BY <1>2 DEF Unplain, JoinBehs
  <2> QED
    BY <1>2, <2>1, <2>2, <2>3, Ignores, OneSent
<1> QED
  BY <1>9, <1>10

-----------------------------------------------------------------------------
(* The actors of (map ...).                                                *)

(* New actors share the right of the one that made them.                   *)
Shared(row, all, more) == [a \in DOMAIN more |-> IF a \in DOMAIN all THEN row[a] ELSE row[SELF]]

Renewed(row, b, s, new, more, row2) ==
  /\ Grown(actors, SELF, more) /\ IsSeq(more) /\ DOMAIN actors \subseteq DOMAIN more
  /\ more[SELF].beh = b /\ more[SELF].mine = s
  /\ \A a \in DOMAIN actors : a # SELF => more[a] = actors[a]
  /\ DOMAIN row2 = DOMAIN more /\ \A a \in DOMAIN actors : row2[a] = row[a]
  /\ \A i \in DOMAIN new : New(i) \in DOMAIN more /\ New(i) \notin DOMAIN actors /\ more[New(i)] = new[i]
  /\ \A a \in DOMAIN more : a \notin DOMAIN actors => \E i \in DOMAIN new : a = New(i)

Placed(row, new, more, row2) ==
  /\ row2 = Extended(row, actors, more) => \A i \in DOMAIN new : row2[New(i)] = New(i)
  /\ row2 = Shared(row, actors, more) => \A i \in DOMAIN new : row2[New(i)] = row[SELF]

LEMMA Renewing ==
  ASSUME NEW open, NEW row, Runs(open, row), NEW b, NEW s, Turned(actors[SELF], Actor(b, s)),
         NEW new, IsSeq(new), NEW more, more = Changed(SELF, b, s) \o new,
         NEW row2, row2 = Extended(row, actors, more) \/ row2 = Shared(row, actors, more)
  PROVE  Renewed(row, b, s, new, more, row2) /\ Placed(row, new, more, row2)
<1>1. PICK row1 : row1 = Extended(row, actors, more)
  OBVIOUS
<1>2. Remade(row, b, s, new, more, row1)
  BY <1>1, Remaking
<1>3. DOMAIN row2 = DOMAIN more
  BY DEF Extended, Shared
<1>4. \A a \in DOMAIN more : a \in DOMAIN actors => row2[a] = row[a]
  BY DEF Extended, Shared
<1>5. row2 = Extended(row, actors, more) => row2 = row1
  BY <1>1
<1>6. row2 = Shared(row, actors, more) => \A a \in DOMAIN more : a \notin DOMAIN actors => row2[a] = row[SELF]
  BY DEF Shared
<1> QED
  BY <1>2, <1>3, <1>4, <1>5, <1>6 DEF Remade, Renewed, Placed

(* An actor turns into another, which one message tells of.                *)
TurnBehs == {"vau_vars_beh"} \cup MapBehs \cup HeadBehs

Turns(open, row, b, s, new, more, row2, m, H, K) ==
  /\ Runs(open, row) /\ actors[SELF].beh \in TurnBehs
  /\ Renewed(row, b, s, new, more, row2)
  /\ b \in {"vau_evar_beh"} \cup MapBehs \cup HeadBehs
  /\ StateOK(more, row2, SELF, b, s)
  /\ \A i \in DOMAIN new : /\ new[i].beh \in ObjectBehs \cup {"map_head_beh", "map_next_beh"}
                           /\ StateOK(more, row2, New(i), new[i].beh, new[i].mine)
  /\ MessageOK(more, row2, m) /\ Held(more, row2, m) = H
  /\ Keeps(more, SELF) = K /\ (\A k \in K : k < SELF \/ b \in MapBehs)
  /\ \A k \in K : more[k].beh \notin MapBehs
  /\ IF SELF \in open THEN InHand(actors, row, queue[1]) = H \cup K /\ H \cap K = {}
     ELSE InHand(actors, row, queue[1]) = H
  /\ \A k \in H : more[k].beh \in MapBehs => RowOK(more, row2, m, k)

(* The one that acts becomes another one of its kind and makes others.     *)
LEMMA TurnsStep ==
  ASSUME NEW open, NEW row, NEW b, NEW s, NEW new, NEW more, NEW row2, NEW m, NEW H, NEW K,
         Turns(open, row, b, s, new, more, row2, m, H, K), Handle(more, <<m>>, << >>)
  PROVE  Onward
<1>0. /\ Runs(open, row) /\ actors[SELF].beh \in TurnBehs
      /\ Renewed(row, b, s, new, more, row2)
      /\ b \in {"vau_evar_beh"} \cup MapBehs \cup HeadBehs
      /\ StateOK(more, row2, SELF, b, s)
      /\ \A i \in DOMAIN new : /\ new[i].beh \in ObjectBehs \cup {"map_head_beh", "map_next_beh"}
                               /\ StateOK(more, row2, New(i), new[i].beh, new[i].mine)
      /\ MessageOK(more, row2, m) /\ Held(more, row2, m) = H
      /\ Keeps(more, SELF) = K /\ (\A k \in K : k < SELF \/ b \in MapBehs)
      /\ \A k \in K : more[k].beh \notin MapBehs
      /\ IF SELF \in open THEN InHand(actors, row, queue[1]) = H \cup K /\ H \cap K = {}
         ELSE InHand(actors, row, queue[1]) = H
      /\ \A k \in H : more[k].beh \in MapBehs => RowOK(more, row2, m, k)
  BY DEF Turns
<1>1. /\ Grown(actors, SELF, more) /\ IsSeq(more) /\ DOMAIN actors \subseteq DOMAIN more
      /\ more[SELF].beh = b /\ more[SELF].mine = s
      /\ \A a \in DOMAIN actors : a # SELF => more[a] = actors[a]
      /\ DOMAIN row2 = DOMAIN more /\ \A a \in DOMAIN actors : row2[a] = row[a]
      /\ \A i \in DOMAIN new : New(i) \in DOMAIN more /\ New(i) \notin DOMAIN actors /\ more[New(i)] = new[i]
      /\ \A a \in DOMAIN more : a \notin DOMAIN actors => \E i \in DOMAIN new : a = New(i)
  BY <1>0 DEF Renewed
<1>2. PICK sent, tokens : sent = <<m>> /\ tokens = << >>
  OBVIOUS
<1>3. IsSeq(sent) /\ DOMAIN sent = {1} /\ sent[1] = m /\ IsSeq(tokens) /\ Handle(more, sent, tokens)
  BY <1>2, OneSent
<1>4. ASSUME NEW a \in DOMAIN more, a \notin DOMAIN actors
      PROVE  /\ more[a].beh \in ObjectBehs \cup {"map_head_beh", "map_next_beh"}
             /\ StateOK(more, row2, a, more[a].beh, more[a].mine)
  BY <1>0, <1>1, <1>4
<1>5. /\ ObjectBehs \cap (OpenBehs \cup {"throw_beh", "tag_beh", "map_pair_beh"} \cup JoinBehs) = {}
      /\ {"map_head_beh", "map_next_beh"} \cap (OpenBehs \cup {"throw_beh", "tag_beh", "map_pair_beh"} \cup JoinBehs) = {}
  BY DEF OpenBehs, ObjectBehs, Immutable, Mutable, PlainArgsBehs, BrandBehs, PairBehs, JoinBehs, MapBehs, ValueBehs, ArgsBehs, BothBehs
<1>6. Newly(actors, more) = {}
  BY <1>4, <1>5 DEF Newly
<1>7. \A a \in DOMAIN more : a \notin DOMAIN actors => Keeps(more, a) = {}
  <2>1. ObjectBehs \cap (WithCust \cup JoinBehs \cup {"fork_beh", "command_beh", "dotted_close_beh", "pair_copy_beh", "pair_map_beh", "pair_foldl_beh"}) = {}
    BY DEF WithCust, ObjectBehs, Immutable, Mutable, PlainArgsBehs, BrandBehs, PairBehs, JoinBehs
  <2>2. {"map_head_beh", "map_next_beh"} \cap (WithCust \cup JoinBehs \cup {"fork_beh", "command_beh", "dotted_close_beh", "pair_copy_beh", "pair_map_beh", "pair_foldl_beh"}) = {}
    BY DEF WithCust, PlainArgsBehs, BrandBehs, PairBehs, JoinBehs
  <2>3. ASSUME NEW a \in DOMAIN more, a \notin DOMAIN actors
        PROVE  Keeps(more, a) = {}
    <3>1. PICK c, t : c = more[a].beh /\ t = more[a].mine
      OBVIOUS
    <3>2. c \notin WithCust \cup JoinBehs \cup {"fork_beh", "command_beh", "dotted_close_beh", "pair_copy_beh", "pair_map_beh", "pair_foldl_beh"}
      BY <1>4, <2>1, <2>2, <2>3, <3>1
    <3>3. Direct(c, t) = {} /\ Rest(more, c, t) = {}
      BY <3>2 DEF Direct, Rest
    <3> QED
      BY <3>1, <3>3 DEF Keeps
  <2> QED
    BY <2>3
<1>8. b \in Kinds /\ \A c \in ObjectBehs \cup {"map_head_beh", "map_next_beh"} : c \in Kinds
  BY <1>0 DEF Kinds, HeadBehs, OpenBehs, PairBehs
<1>9. StatesDone(actors, more, row2)
  BY <1>0, <1>1, <1>4, <1>7, <1>8 DEF StatesDone
<1>10. PICK F, hands, rights : F = {} /\ hands = {SELF} \cap open /\ rights = InHand(actors, row, queue[1])
  OBVIOUS
<1>11. /\ hands = Newly(actors, more) \cup (({SELF} \ F) \cap open)
       /\ rights = (InHand(actors, row, queue[1]) \ F) \cup Newly(actors, more)
  BY <1>6, <1>10
<1>12. Handed(more, row2, sent, hands, rights) /\ PassedOn(more, row2, sent, hands, rights)
  <2>1. CASE SELF \in open
    <3>1. hands = {SELF} /\ rights = H \cup K /\ H \cap K = {} /\ Keeps(more, SELF) = K /\ Held(more, row2, sent[1]) = H
      BY <1>0, <1>3, <1>10, <2>1
    <3>2. \A i \in DOMAIN sent : Held(more, row2, sent[i]) = H
      BY <1>3, <3>1
    <3>3. \A a \in hands : Keeps(more, a) = K
      BY <3>1
    <3>4. Handed(more, row2, sent, hands, rights)
      BY <1>3, <3>1, <3>2, <3>3 DEF Handed
    <3>5. PassedOn(more, row2, sent, hands, rights)
      BY <1>3, <3>1, <3>2, <3>3 DEF PassedOn
    <3> QED
      BY <3>4, <3>5
  <2>2. CASE SELF \notin open
    <3>1. hands = {} /\ rights = H
      BY <1>0, <1>10, <2>2
    <3>2. \A i \in DOMAIN sent : Held(more, row2, sent[i]) = H
      BY <1>0, <1>3
    <3> QED
      BY <1>3, <3>1, <3>2 DEF Handed, PassedOn
  <2> QED
    BY <2>1, <2>2
<1>13. OnceMore(actors, SELF, more, row2, sent, hands)
  BY <1>0, <1>1 DEF OnceMore, OneShot, MapBehs, HeadBehs
<1>14. /\ \A i \in DOMAIN sent : MessageOK(more, row2, sent[i])
       /\ \A i \in DOMAIN sent : \A k \in Held(more, row2, sent[i]) :
            more[k].beh \in MapBehs => RowOK(more, row2, sent[i], k)
  BY <1>0, <1>3
<1>15. \A a \in hands : \A k \in Keeps(more, a) :
         more[k].beh \in MapBehs => more[k].beh = "map_tail_beh" /\ Busy(more, row2, k) = {}
  BY <1>0, <1>10
<1>16. /\ actors[SELF].beh \notin JoinBehs \cup {"tag_beh", "fork_beh", "throw_beh"}
       /\ more[SELF].beh \notin JoinBehs \cup {"report_beh", "abort_beh"}
  BY <1>0, <1>1 DEF TurnBehs, JoinBehs, MapBehs, HeadBehs
<1>17. \A a \in DOMAIN more :
            a \notin DOMAIN actors => more[a].beh \notin {"throw_beh", "tag_beh", "map_pair_beh"} \cup JoinBehs
  BY <1>4, <1>5
<1>18. Carries(open, row, more, row2, sent, tokens, F, hands, rights)
  BY <1>0, <1>1, <1>3, <1>9, <1>10, <1>11, <1>12, <1>13, <1>14, <1>15, <1>16, <1>17 DEF Carries
<1> QED
  BY <1>3, <1>18, CarriesStep

(* Customers that go on to wait for something else.                        *)
LEMMA GoingOn ==
  ASSUME NEW open, NEW row, Runs(open, row),
         actors[SELF].beh \in {"vau_vars_beh", "map_args_beh", "map_unwrap_beh", "map_comb_beh"}
  PROVE  /\ SELF \in DOMAIN actors /\ IsSeq(actors) /\ row[SELF] = SELF /\ SELF \in open
         /\ Due(open, row, MINE.cust) /\ Cust(actors, MINE.cust) /\ CustomerOK(actors, actors[SELF].beh, MINE)
         /\ MINE.cust # SELF
         /\ Keeps(actors, SELF) = {MINE.cust} \ {a_sink}
         /\ InHand(actors, row, queue[1]) = {SELF} \cup ({MINE.cust} \ {a_sink})
         /\ Busy(actors, row, SELF) = {} \/ (actors[SELF].beh = "map_comb_beh" /\ WHAT.op = "value" /\ WHAT.val = a_nil)
<1>1. SELF \in DOMAIN actors /\ IsSeq(actors) /\ Orderly(actors, queue, turns, out, aborted, open, row) /\ 1 \in DOMAIN queue
      /\ actors[a_sink].beh = "sink_beh"
  BY Running DEF Settled
<1>2. row[SELF] = SELF
  BY <1>1, RowOfSame DEF HeadBehs
<1>3. Due(open, row, MINE.cust) /\ Cust(actors, MINE.cust) /\ CustomerOK(actors, actors[SELF].beh, MINE)
  BY DueCust DEF WithCust, PairBehs
<1>4. MINE.cust # SELF
  BY <1>1, <1>3 DEF Cust, AnyCust, IsIn, ValueBehs
<1>5. PICK b, s : b = actors[SELF].beh /\ s = MINE
  OBVIOUS
<1>6. Direct(b, s) = {s.cust}
  BY <1>5, DirectIs DEF WithCust, PairBehs
<1>7. Rest(actors, b, s) = {}
  BY <1>5 DEF Rest
<1>8. Keeps(actors, SELF) = {MINE.cust} \ {a_sink}
  BY <1>5, <1>6, <1>7 DEF Keeps, MINE
<1>9. Held(actors, row, queue[1]) = {SELF}
  BY NoneServed DEF Waiting, PlainCusts, PairBehs, ArgsBehs
<1>10. queue[1].to = SELF /\ queue[1].what = WHAT
  BY Handles
<1>11. InHand(actors, row, queue[1]) = {SELF} \cup ({MINE.cust} \ {a_sink})
  BY <1>8, <1>9, <1>10 DEF InHand
<1>12. SELF \in open
  BY <1>1, <1>10, <1>11, Taking
<1>13. CASE actors[SELF].beh = "vau_vars_beh"
  <2>1. ASSUME NEW x \in DOMAIN actors, actors[x].beh = "map_pair_beh", row[x] = SELF
        PROVE  FALSE
    <3>1. MapOK(actors, row, x, actors[x].beh, actors[x].mine)
      BY <2>1, Running DEF StatesOK, StateOK
    <3> QED
      BY <1>13, <2>1, <3>1 DEF MapOK, HeadBehs, MapBehs, IsIn
  <2>2. Busy(actors, row, SELF) = {}
    BY <2>1 DEF Busy
  <2> QED
    BY <1>1, <1>2, <1>3, <1>4, <1>8, <1>11, <1>12, <2>2
<1>14. CASE actors[SELF].beh # "vau_vars_beh"
  <2>1. actors[SELF].beh \in MapBehs
    BY <1>14 DEF MapBehs
  <2>2. RowOK(actors, row, queue[1], SELF)
    BY <1>1, <1>9, <2>1 DEF Orderly, Rows
  <2>3. SentOK(actors, row, SELF, WHAT)
    BY Handles
  <2>4. WHAT.op \in {"value", "args", "FALSE"}
    BY <1>14, <2>3 DEF SentOK, ArgsBehs, ArgsOK
  <2>5. Busy(actors, row, SELF) = {} \/ (actors[SELF].beh = "map_comb_beh" /\ WHAT.op = "value" /\ WHAT.val = a_nil)
    <3>1. \A x \in Busy(actors, row, SELF) : actors[x].beh = "map_pair_beh"
      BY DEF Busy
    <3> QED
      BY <1>10, <1>14, <2>2, <2>4, <3>1 DEF RowOK
  <2> QED
    BY <1>1, <1>2, <1>3, <1>4, <1>8, <1>11, <1>12, <2>5
<1> QED
  BY <1>13, <1>14

(* They are still to be answered.                                          *)
LEMMA GoesOn ==
  ASSUME NEW open, NEW row, Runs(open, row),
         actors[SELF].beh \in {"vau_vars_beh", "map_args_beh", "map_unwrap_beh", "map_comb_beh"},
         NEW b, b \in {"vau_evar_beh", "map_unwrap_beh", "map_comb_beh"}, NEW s, s.cust = MINE.cust,
         NEW new, NEW more, NEW row2, Renewed(row, b, s, new, more, row2), StateOK(more, row2, SELF, b, s),
         \A i \in DOMAIN new : /\ new[i].beh \in ObjectBehs \cup {"map_head_beh", "map_next_beh"}
                               /\ StateOK(more, row2, New(i), new[i].beh, new[i].mine),
         NEW m, MessageOK(more, row2, m), Held(more, row2, m) = {SELF},
         b \in MapBehs => RowOK(more, row2, m, SELF),
         Handle(more, <<m>>, << >>)
  PROVE  Onward
<1>1. /\ SELF \in DOMAIN actors /\ SELF \in open
      /\ Due(open, row, MINE.cust) /\ MINE.cust # SELF
      /\ Keeps(actors, SELF) = {MINE.cust} \ {a_sink}
      /\ InHand(actors, row, queue[1]) = {SELF} \cup ({MINE.cust} \ {a_sink})
  BY GoingOn
<1>2. more[SELF].beh = b /\ more[SELF].mine = s /\ Grown(actors, SELF, more)
  BY DEF Renewed
<1>3. Direct(b, s) = {s.cust}
  BY DirectIs DEF WithCust, PairBehs
<1>4. Rest(more, b, s) = {}
  BY DEF Rest
<1>5. PICK H, K : H = {SELF} /\ K = {MINE.cust} \ {a_sink}
  OBVIOUS
<1>6. Keeps(more, SELF) = K
  BY <1>2, <1>3, <1>4, <1>5 DEF Keeps
<1>7. \A k \in K : more[k].beh \notin MapBehs
  <2>1. AnyCust(more, MINE.cust) /\ Sinks(more)
    BY <1>1, <1>2, BothKept
  <2> QED
    BY <1>5, <2>1, CustNoMap DEF Sinks
<1>8. \A k \in K : k < SELF \/ b \in MapBehs
  <2>1. CASE b = "vau_evar_beh"
    <3>1. actors[SELF].beh = "vau_vars_beh"
      <4>1. Turned(actors[SELF], more[SELF])
        BY <1>2 DEF Grown
      <4> QED
        BY <1>2, <2>1, <4>1 DEF Turned, Turning, Mutable, JoinBehs, MapBehs, HeadBehs
    <3> QED
      BY <1>1, <1>5, <3>1, Handles DEF MapBehs
  <2> QED
    BY <2>1 DEF MapBehs
<1>9. InHand(actors, row, queue[1]) = H \cup K /\ H \cap K = {}
  BY <1>1, <1>5
<1>10. \A k \in H : more[k].beh \in MapBehs => RowOK(more, row2, m, k)
  BY <1>2, <1>5
<1>11. actors[SELF].beh \in TurnBehs /\ b \in {"vau_evar_beh"} \cup MapBehs \cup HeadBehs
  BY DEF TurnBehs, MapBehs
<1>12. Turns(open, row, b, s, new, more, row2, m, H, K)
  BY <1>1, <1>5, <1>6, <1>7, <1>8, <1>9, <1>10, <1>11 DEF Turns
<1> QED
  BY <1>12, TurnsStep

(* Without new actors.                                                     *)
LEMMA Becoming ==
  ASSUME NEW open, NEW row, Runs(open, row), NEW b, NEW s, Turned(actors[SELF], Actor(b, s)),
         NEW sent, Become(b, s, sent)
  PROVE  \E new, more, row2 :
           /\ new = << >> /\ Renewed(row, b, s, new, more, row2) /\ Handle(more, sent, << >>)
           /\ DOMAIN more = DOMAIN actors
<1>1. PICK new, more, row2 : new = << >> /\ more = Changed(SELF, b, s) \o new /\ row2 = Extended(row, actors, more)
  OBVIOUS
<1>2. IsSeq(new) /\ DOMAIN new = {}
  BY <1>1, OneSent
<1>3. Renewed(row, b, s, new, more, row2)
  BY <1>1, <1>2, Renewing
<1>4. IsSeq(Changed(SELF, b, s))
  <2>1. PICK base, me, v : base = [actors EXCEPT ![me] = v] /\ base = Changed(SELF, b, s) /\ me = SELF /\ v = Actor(b, s)
    BY DEF Changed
  <2>2. PICK S : actors \in Seq(S)
    BY Running DEF IsSeq
  <2>3. base \in Seq(S \cup {v})
    BY <2>1, <2>2, Running
  <2> QED
    BY <2>1, <2>3 DEF IsSeq
<1>5. more = Changed(SELF, b, s)
  BY <1>1, <1>4, Nothing
<1>6. Handle(more, sent, << >>)
  BY <1>5 DEF Become
<1>7. DOMAIN more = DOMAIN actors
  BY <1>2, <1>3 DEF Renewed
<1> QED
  BY <1>1, <1>3, <1>6, <1>7

LEMMA VauVars ==
  ASSUME NEW open, NEW row, Invariant(open, row), vau_vars_beh
  PROVE  Onward
<1>1. /\ Runs(open, row) /\ IsSeq(actors) /\ actors[SELF].beh = "vau_vars_beh"
      /\ Due(open, row, MINE.cust) /\ Cust(actors, MINE.cust)
      /\ Throw => Onward
      /\ IsValue(actors, MINE.env)
      /\ WHAT.op = "pair" => /\ IsFixed(actors, WHAT.hd) /\ IsFixed(actors, WHAT.tl) /\ IsValue(actors, WHAT.tl)
  BY Opened DEF vau_vars_beh, PairBehs
<1>2. CASE WHAT.op = "pair"
  <2>1. PICK b, s, x, w, m : /\ b = "vau_evar_beh" /\ s = [cust |-> MINE.cust, vars |-> WHAT.hd, env |-> MINE.env]
                             /\ x = WHAT.tl /\ w = Request("as_pair", SELF) /\ m = Message(x, w)
    OBVIOUS
  <2>2. Become(b, s, <<m>>)
    BY <1>2, <2>1 DEF vau_vars_beh
  <2>3. Turned(actors[SELF], Actor(b, s))
    BY <1>1, <2>1 DEF Turned, Turning, Mutable, JoinBehs, MapBehs, HeadBehs, Actor
  <2>4. PICK new, more, row2 :
           /\ new = << >> /\ Renewed(row, b, s, new, more, row2) /\ Handle(more, <<m>>, << >>)
           /\ DOMAIN more = DOMAIN actors
    BY <1>1, <2>2, <2>3, Becoming
  <2>5. /\ Grown(actors, SELF, more) /\ more[SELF].beh = b /\ IsSeq(more)
        /\ \A a \in DOMAIN actors : row2[a] = row[a]
    BY <2>4 DEF Renewed
  <2>6. /\ \A v : IsValue(actors, v) => IsValue(more, v)
        /\ \A v : IsFixed(actors, v) => IsFixed(more, v)
        /\ Cust(more, MINE.cust)
    BY <1>1, <2>5, BothKept
  <2>7. SELF \in DOMAIN actors /\ row2[SELF] = SELF
    BY <1>1, <2>5, GoingOn
  <2>8. StateOK(more, row2, SELF, b, s)
    <3>1. s.cust = MINE.cust /\ s.env = MINE.env /\ s.vars = WHAT.hd
      BY <2>1
    <3>2. CustomerOK(more, b, s)
      BY <1>1, <1>2, <2>1, <2>6, <3>1 DEF CustomerOK, WithCust, PlainArgsBehs, BrandBehs, PairBehs
    <3> QED
      BY <2>1, <2>7, <3>2, CustomerState DEF PlainCusts, PairBehs
  <2>9. Fits(more, row2, m, row2[w.cust]) /\ w.cust = SELF
    <3>1. IsIn(more, PairBehs, SELF) /\ ~IsIn(more, {"cons_type"}, x)
      BY <1>1, <1>2, <2>1, <2>5, <2>6, <2>7 DEF IsIn, PairBehs, IsFixed, Renewed, Grown
    <3>2. w.op = "as_pair" /\ w.cust = SELF
      BY <2>1 DEF Request
    <3>3. IsValue(more, x)
      BY <1>1, <1>2, <2>1, <2>6
    <3>4. RequestOK(more, x, w)
      BY <2>5, <3>1, <3>2, <3>3, NoBrand DEF RequestOK, CustOK, IsIn, Requests
    <3> QED
      BY <2>1, <2>5, <3>2, <3>3, <3>4, RequestFits
  <2>10. MessageOK(more, row2, m) /\ Held(more, row2, m) = {SELF}
    <3>1. SELF # a_sink
      BY <1>1, Running DEF Settled
    <3> QED
      BY <2>7, <2>9, <3>1 DEF Fits
  <2>11. s.cust = MINE.cust /\ DOMAIN new = {}
    BY <2>1, <2>4, OneSent
  <2> QED
    BY <1>1, <2>1, <2>4, <2>8, <2>10, <2>11, GoesOn DEF MapBehs
<1>3. CASE WHAT.op # "pair"
  BY <1>1, <1>3 DEF vau_vars_beh
<1> QED
  BY <1>2, <1>3

(* The actor of (map ...) asks for a row.                                  *)
LEMMA AsksHeads ==
  ASSUME NEW open, NEW row, Runs(open, row), row[SELF] = SELF, Busy(actors, row, SELF) = {},
         NEW h, IsIn(actors, HeadBehs, h), row[h] = SELF, actors[SELF].beh \notin HeadBehs,
         NEW s, NEW more, NEW row2, Renewed(row, "map_comb_beh", s, << >>, more, row2),
         NEW m, m = Message(h, Value(SELF))
  PROVE  /\ MessageOK(more, row2, m) /\ Held(more, row2, m) = {SELF} /\ RowOK(more, row2, m, SELF)
         /\ IsIn(more, HeadBehs, h) /\ row2[h] = SELF /\ row2[SELF] = SELF
<1>1. /\ more[SELF].beh = "map_comb_beh" /\ DOMAIN actors \subseteq DOMAIN more
      /\ \A a \in DOMAIN actors : a # SELF => more[a] = actors[a]
      /\ \A a \in DOMAIN actors : row2[a] = row[a]
      /\ \A a \in DOMAIN more : a \in DOMAIN actors
  <2>1. DOMAIN << >> = {}
    BY OneSent
  <2> QED
    BY <2>1 DEF Renewed
<1>2. SELF \in DOMAIN actors /\ h \in DOMAIN actors /\ h # SELF
  BY Running DEF IsIn
<1>3. actors[h].beh = "map_head_beh"
  BY <1>2 DEF Busy, IsIn, HeadBehs
<1>4. more[h].beh = "map_head_beh" /\ row2[h] = SELF /\ row2[SELF] = SELF
  BY <1>1, <1>2, <1>3
<1>5. m.to = h /\ m.what.op = "value" /\ m.what.val = SELF
  BY DEF Message, Value
<1>6. IsIn(more, RowBehs, SELF)
  BY <1>1, <1>2 DEF IsIn, RowBehs, MapBehs
<1>7. more[h].beh \notin ObjectBehs \cup {"sink_beh", "fork_beh", "pair_copy_beh", "pair_map_beh"} \cup ValueBehs \cup PairBehs
           \cup JoinBehs \cup {"map_unwrap_beh", "map_comb_beh", "map_next_beh", "map_tail_beh", "map_pair_beh"} \cup ArgsBehs
  BY <1>4 DEF ObjectBehs, Immutable, Mutable, PairBehs, JoinBehs, ValueBehs, ArgsBehs, PlainArgsBehs, BrandBehs
<1>8. SentOK(more, row2, h, m.what)
  BY <1>4, <1>5, <1>6, <1>7 DEF SentOK
<1>9. h \in DOMAIN more
  BY <1>1, <1>2
<1>10. MessageOK(more, row2, m)
  BY <1>5, <1>8, <1>9 DEF MessageOK
<1>11. Held(more, row2, m) = {SELF}
  BY <1>4, <1>5, <1>7, <1>9 DEF Held, Answers, Serves, Requests
<1>12. Busy(more, row2, SELF) = {}
  <2>1. ASSUME NEW x \in DOMAIN more, more[x].beh = "map_pair_beh", row2[x] = SELF
        PROVE  FALSE
    <3>1. x \in DOMAIN actors /\ x # SELF
      BY <1>1, <2>1
    <3>2. actors[x].beh = "map_pair_beh" /\ row[x] = SELF
      BY <1>1, <2>1, <3>1
    <3> QED
      BY <3>1, <3>2 DEF Busy
  <2> QED
    BY <2>1 DEF Busy
<1>13. RowOK(more, row2, m, SELF)
  BY <1>1, <1>5, <1>12 DEF RowOK
<1> QED
  BY <1>4, <1>9, <1>10, <1>11, <1>13 DEF IsIn, HeadBehs

(* It is in order.                                                         *)
LEMMA CombState ==
  ASSUME NEW all, NEW row, NEW a, row[a] = a, NEW s, IsValue(all, s.comb), IsValue(all, s.env), Cust(all, s.cust),
         IsIn(all, HeadBehs, s.heads), row[s.heads] = a
  PROVE  StateOK(all, row, a, "map_comb_beh", s)
<1>1. CustomerOK(all, "map_comb_beh", s)
  BY DEF CustomerOK, WithCust, PlainArgsBehs, BrandBehs, PairBehs
<1>2. MapOK(all, row, a, "map_comb_beh", s)
  BY DEF MapOK, HeadBehs
<1>3. ObjectOK(all, "map_comb_beh", s)
  BY DEF ObjectOK
<1>4. ForkJoinOK(all, a, "map_comb_beh", s)
  BY DEF ForkJoinOK, JoinBehs
<1> QED
  BY <1>1, <1>2, <1>3, <1>4 DEF StateOK

LEMMA MapUnwrap ==
  ASSUME NEW open, NEW row, Invariant(open, row), map_unwrap_beh
  PROVE  Onward
<1>1. Runs(open, row) /\ actors[SELF].beh = "map_unwrap_beh"
  BY Behaving DEF map_unwrap_beh
<1>2. /\ SELF \in DOMAIN actors /\ IsSeq(actors) /\ row[SELF] = SELF
      /\ Due(open, row, MINE.cust) /\ Cust(actors, MINE.cust) /\ CustomerOK(actors, actors[SELF].beh, MINE)
      /\ Busy(actors, row, SELF) = {}
  BY <1>1, GoingOn
<1>3. StateOK(actors, row, SELF, "map_unwrap_beh", MINE) /\ SentOK(actors, row, SELF, WHAT)
  BY <1>1, Handles
<1>4. IsIn(actors, HeadBehs, MINE.heads) /\ row[MINE.heads] = SELF
  BY <1>3 DEF StateOK, MapOK
<1>5. IsValue(actors, MINE.env)
  BY <1>1, <1>2 DEF CustomerOK
<1>6. IsValue(actors, WHAT.val)
  BY <1>1, <1>3 DEF SentOK
<1>7. PICK b, s, h, m : /\ b = "map_comb_beh"
                        /\ s = [comb |-> WHAT.val, heads |-> MINE.heads, cust |-> MINE.cust, env |-> MINE.env]
                        /\ h = MINE.heads /\ m = Message(h, Value(SELF))
  OBVIOUS
<1>8. Become(b, s, <<m>>)
  BY <1>7 DEF map_unwrap_beh
<1>9. Turned(actors[SELF], Actor(b, s))
  BY <1>1, <1>7 DEF Turned, Turning, Mutable, JoinBehs, MapBehs, HeadBehs, Actor
<1>10. PICK new, more, row2 : new = << >> /\ Renewed(row, b, s, new, more, row2) /\ Handle(more, <<m>>, << >>)
  BY <1>1, <1>8, <1>9, Becoming
<1>11. actors[SELF].beh \notin HeadBehs
  BY <1>1 DEF HeadBehs
<1>12. /\ MessageOK(more, row2, m) /\ Held(more, row2, m) = {SELF} /\ RowOK(more, row2, m, SELF)
       /\ IsIn(more, HeadBehs, h) /\ row2[h] = SELF /\ row2[SELF] = SELF
  BY <1>1, <1>2, <1>4, <1>7, <1>10, <1>11, AsksHeads
<1>13. /\ Cust(more, MINE.cust) /\ \A v : IsValue(actors, v) => IsValue(more, v)
  BY <1>2, <1>10, BothKept DEF Renewed
<1>14. s.cust = MINE.cust /\ s.comb = WHAT.val /\ s.env = MINE.env /\ s.heads = h
  BY <1>7
<1>15. StateOK(more, row2, SELF, b, s)
  BY <1>5, <1>6, <1>7, <1>12, <1>13, <1>14, CombState
<1>16. DOMAIN new = {}
  BY <1>10, OneSent
<1> QED
  BY <1>1, <1>7, <1>10, <1>12, <1>14, <1>15, <1>16, GoesOn

(* The customer for the rest of the map comes with the request.            *)
LEMMA MapTail ==
  ASSUME NEW open, NEW row, Invariant(open, row), map_tail_beh
  PROVE  Onward
<1>1. Runs(open, row) /\ actors[SELF].beh = "map_tail_beh"
  BY Behaving DEF map_tail_beh
<1>2. /\ SELF \in DOMAIN actors /\ IsSeq(actors) /\ DOMAIN row = DOMAIN actors /\ row[SELF] = SELF
      /\ Orderly(actors, queue, turns, out, aborted, open, row) /\ 1 \in DOMAIN queue
      /\ actors[a_sink].beh = "sink_beh" /\ a_sink \in DOMAIN actors /\ Settled(actors) /\ Tagging(actors)
  BY <1>1, Running, RowOfSame DEF Settled, HeadBehs
<1>3. StateOK(actors, row, SELF, "map_tail_beh", MINE) /\ SentOK(actors, row, SELF, WHAT) /\ queue[1].what = WHAT /\ queue[1].to = SELF
  BY <1>1, Handles
<1>4. PICK k : k = WHAT.cust
  OBVIOUS
<1>5. /\ WHAT.op = "heads" /\ Cust(actors, k) /\ IsIn(actors, HeadBehs, WHAT.heads) /\ row[WHAT.heads] = SELF
  <2>1. WHAT = Heads(WHAT.cust, WHAT.heads) /\ Cust(actors, k) /\ IsIn(actors, HeadBehs, WHAT.heads) /\ row[WHAT.heads] = SELF
    BY <1>1, <1>3, <1>4 DEF SentOK
  <2> QED
    BY <2>1 DEF Heads
<1>6. k # SELF /\ row[k] = k
  <2>1. k \in DOMAIN actors /\ actors[k].beh \in ValueBehs \cup {"sink_beh"}
    BY <1>2, <1>5 DEF Cust, AnyCust, IsIn
  <2> QED
    BY <1>1, <1>2, <2>1, RowOfSame DEF ValueBehs, HeadBehs
<1>7. Held(actors, row, queue[1]) = {SELF} \cup ({k} \ {a_sink})
  <2>1. Answers(actors, row, queue[1]) = {SELF}
    BY <1>1, <1>2, <1>3, <1>5 DEF Answers, ObjectBehs, Immutable, Mutable
  <2>2. Serves(row, queue[1]) = {k} \ {a_sink}
    BY <1>3, <1>4, <1>5, <1>6 DEF Serves
  <2> QED
    BY <2>1, <2>2 DEF Held
<1>8. Keeps(actors, SELF) = {}
  BY <1>1 DEF Keeps, Direct, Rest, WithCust, PlainArgsBehs, BrandBehs, PairBehs, JoinBehs
<1>9. PICK H, K : H = {SELF} /\ K = {k} \ {a_sink}
  OBVIOUS
<1>10. InHand(actors, row, queue[1]) = H \cup K /\ H \cap K = {}
  BY <1>3, <1>6, <1>7, <1>8, <1>9 DEF InHand
<1>11. SELF \in open
  BY <1>2, <1>3, <1>9, <1>10, Taking
<1>12. RowOK(actors, row, queue[1], SELF)
  BY <1>1, <1>2, <1>7 DEF Orderly, Rows, MapBehs
<1>13. Busy(actors, row, SELF) = {}
  <2>1. \A x \in Busy(actors, row, SELF) : actors[x].beh = "map_pair_beh"
    BY DEF Busy
  <2> QED
    BY <1>1, <1>3, <1>5, <1>12, <2>1 DEF RowOK
<1>14. PICK b, s, h, m : /\ b = "map_comb_beh"
                        /\ s = [comb |-> MINE.comb, heads |-> WHAT.heads, cust |-> WHAT.cust, env |-> MINE.env]
                        /\ h = WHAT.heads /\ m = Message(h, Value(SELF))
  OBVIOUS
<1>15. Become(b, s, <<m>>)
  BY <1>14 DEF map_tail_beh
<1>16. Turned(actors[SELF], Actor(b, s))
  BY <1>1, <1>14 DEF Turned, Turning, Mutable, JoinBehs, MapBehs, HeadBehs, Actor
<1>17. PICK new, more, row2 : new = << >> /\ Renewed(row, b, s, new, more, row2) /\ Handle(more, <<m>>, << >>)
  BY <1>1, <1>15, <1>16, Becoming
<1>18. actors[SELF].beh \notin HeadBehs
  BY <1>1 DEF HeadBehs
<1>19. /\ MessageOK(more, row2, m) /\ Held(more, row2, m) = {SELF} /\ RowOK(more, row2, m, SELF)
       /\ IsIn(more, HeadBehs, h) /\ row2[h] = SELF /\ row2[SELF] = SELF
  BY <1>1, <1>2, <1>5, <1>13, <1>14, <1>17, <1>18, AsksHeads
<1>20. Grown(actors, SELF, more) /\ more[SELF].beh = b /\ more[SELF].mine = s
  BY <1>17 DEF Renewed
<1>21. Cust(more, k) /\ (\A v : IsValue(actors, v) => IsValue(more, v)) /\ more[a_sink].beh = "sink_beh"
  <2>1. Cust(more, k)
    BY <1>1, <1>5, <1>20, Still
  <2>2. a_sink # SELF /\ more[a_sink] = actors[a_sink]
    BY <1>1, <1>2, <1>17 DEF Renewed
  <2> QED
    BY <1>1, <1>2, <1>20, <2>1, <2>2, Still
<1>22. s.cust = k /\ s.comb = MINE.comb /\ s.env = MINE.env /\ s.heads = h
  BY <1>4, <1>14
<1>23. IsValue(actors, MINE.comb) /\ IsValue(actors, MINE.env)
  BY <1>3 DEF StateOK, MapOK, CustomerOK
<1>24. StateOK(more, row2, SELF, b, s)
  BY <1>14, <1>19, <1>21, <1>22, <1>23, CombState
<1>25. DOMAIN new = {}
  BY <1>17, OneSent
<1>26. Keeps(more, SELF) = K
  <2>1. Direct(b, s) = {k} /\ Rest(more, b, s) = {}
    BY <1>14, <1>22, DirectIs DEF WithCust, Rest
  <2> QED
    BY <1>9, <1>20, <2>1 DEF Keeps
<1>27. \A x \in K : more[x].beh \notin MapBehs
  BY <1>9, <1>21, CustNoMap DEF Cust
<1>28. /\ actors[SELF].beh \in TurnBehs /\ b \in {"vau_evar_beh"} \cup MapBehs \cup HeadBehs /\ b \in MapBehs
  BY <1>1, <1>14 DEF TurnBehs, MapBehs
<1>29. \A x \in H : more[x].beh \in MapBehs => RowOK(more, row2, m, x)
  BY <1>9, <1>19
<1>30. Turns(open, row, b, s, new, more, row2, m, H, K)
  BY <1>1, <1>9, <1>10, <1>11, <1>17, <1>19, <1>24, <1>25, <1>26, <1>27, <1>28, <1>29 DEF Turns
<1> QED
  BY <1>17, <1>30, TurnsStep

LEMMA HeadState ==
  ASSUME NEW all, NEW row, NEW a, IsIn(all, MapBehs, row[a]), NEW s, IsValue(all, s.list),
         s.next # NIL => IsIn(all, HeadBehs, s.next) /\ row[s.next] = row[a]
  PROVE  StateOK(all, row, a, "map_head_beh", s)
<1>1. CustomerOK(all, "map_head_beh", s)
  BY DEF CustomerOK, WithCust, PlainArgsBehs, BrandBehs, PairBehs
<1>2. MapOK(all, row, a, "map_head_beh", s)
  BY DEF MapOK, HeadBehs
<1>3. ObjectOK(all, "map_head_beh", s)
  BY DEF ObjectOK
<1>4. ForkJoinOK(all, a, "map_head_beh", s)
  BY DEF ForkJoinOK, JoinBehs
<1> QED
  BY <1>1, <1>2, <1>3, <1>4 DEF StateOK

(* The heads of a new map.                                                 *)
AreHeads(n, new) ==
  /\ IsSeq(new) /\ DOMAIN new = 1 .. n
  /\ \A i \in 1 .. n : /\ new[i].beh = "map_head_beh" /\ new[i].mine.list = Arg(i + 1)
                       /\ new[i].mine.next = IF i = n THEN NIL ELSE New(i + 1)

LEMMA NewHeads == ASSUME NEW n, n \in Nat \ {0}, NEW new, new = mk_heads(n) PROVE AreHeads(n, new)
<1>1. PICK T : T = {new[i] : i \in 1 .. n}
  OBVIOUS
<1>2. new = [i \in 1 .. n |-> new[i]]
  BY DEF mk_heads
<1>3. \A i \in 1 .. n : new[i] \in T
  BY <1>1
<1>4. new \in [1 .. n -> T]
  BY <1>2, <1>3
<1>5. new \in Seq(T)
  BY <1>4
<1>6. IsSeq(new) /\ DOMAIN new = 1 .. n
  BY <1>2, <1>5 DEF IsSeq
<1>7. \A i \in 1 .. n : new[i] = Actor("map_head_beh", [list |-> Arg(i + 1), next |-> IF i = n THEN NIL ELSE New(i + 1)])
  BY DEF mk_heads
<1> QED
  BY <1>6, <1>7 DEF AreHeads, Actor

SharedBy(row, b, s, new, more, row2) ==
  Renewed(row, b, s, new, more, row2) /\ \A i \in DOMAIN new : row2[New(i)] = row[SELF]

LEMMA Sharing ==
  ASSUME NEW open, NEW row, Runs(open, row), NEW b, NEW s, Turned(actors[SELF], Actor(b, s)),
         NEW new, IsSeq(new), NEW more, more = Changed(SELF, b, s) \o new, NEW row2, row2 = Shared(row, actors, more)
  PROVE  SharedBy(row, b, s, new, more, row2)
<1>1. Renewed(row, b, s, new, more, row2) /\ Placed(row, new, more, row2)
  BY Renewing
<1> QED
  BY <1>1 DEF SharedBy, Placed

(* (map ...) begins.                                                       *)
LEMMA MapArgs ==
  ASSUME NEW open, NEW row, Invariant(open, row), map_args_beh
  PROVE  Onward
<1>1. Runs(open, row) /\ actors[SELF].beh = "map_args_beh"
  BY Behaving DEF map_args_beh
<1>2. /\ SELF \in DOMAIN actors /\ IsSeq(actors) /\ row[SELF] = SELF
      /\ Due(open, row, MINE.cust) /\ Cust(actors, MINE.cust) /\ CustomerOK(actors, actors[SELF].beh, MINE)
      /\ Busy(actors, row, SELF) = {}
  BY <1>1, GoingOn
<1>3. SentOK(actors, row, SELF, WHAT)
  BY <1>1, Handles
<1>4. ArgsOK(actors, WHAT)
  BY <1>1, <1>3 DEF SentOK, ArgsBehs
<1>5. CASE WHAT.op = "args" /\ Len(WHAT.args) \in Nat \ {0, 1}
  <2>1. PICK n : n = Len(WHAT.args) - 1
    OBVIOUS
  <2>2. IsSeq(WHAT.args) /\ \A i \in DOMAIN WHAT.args : IsValue(actors, WHAT.args[i])
    BY <1>4, <1>5 DEF ArgsOK
  <2>3. DOMAIN WHAT.args = 1 .. Len(WHAT.args)
    BY <2>2, LengthIs
  <2>4. n \in Nat \ {0} /\ \A i \in 1 .. n + 1 : IsValue(actors, Arg(i))
    BY <1>5, <2>1, <2>2, <2>3 DEF Arg
  <2>5. PICK b, s, new, more, row2, x, w, m :
          /\ b = "map_unwrap_beh" /\ s = [heads |-> New(1), cust |-> MINE.cust, env |-> MINE.env]
          /\ new = mk_heads(n) /\ more = Changed(SELF, b, s) \o new /\ row2 = Shared(row, actors, more)
          /\ x = Arg(1) /\ w = Request("unwrap", SELF) /\ m = Message(x, w)
    OBVIOUS
  <2>6. Handle(more, <<m>>, << >>)
    BY <1>5, <2>1, <2>5 DEF map_args_beh
  <2>7. /\ IsSeq(new) /\ DOMAIN new = 1 .. n
        /\ \A i \in 1 .. n : /\ new[i].beh = "map_head_beh" /\ new[i].mine.list = Arg(i + 1)
                             /\ new[i].mine.next = IF i = n THEN NIL ELSE New(i + 1)
    <3>1. new = mk_heads(n)
      BY <2>5
    <3>2. AreHeads(n, new)
      BY <2>4, <3>1, NewHeads
    <3> QED
      BY <3>2 DEF AreHeads
  <2>8. Turned(actors[SELF], Actor(b, s))
    BY <1>1, <2>5 DEF Turned, Turning, Mutable, JoinBehs, MapBehs, HeadBehs, Actor
  <2>9. Renewed(row, b, s, new, more, row2) /\ \A i \in DOMAIN new : row2[New(i)] = SELF
    <3>1. SharedBy(row, b, s, new, more, row2)
      <4>1. IsSeq(new) /\ more = Changed(SELF, b, s) \o new /\ row2 = Shared(row, actors, more)
        BY <2>5, <2>7
      <4> QED
        BY <1>1, <2>8, <4>1, Sharing
    <3> QED
      BY <1>2, <3>1 DEF SharedBy
  <2>10. /\ Grown(actors, SELF, more) /\ more[SELF].beh = b /\ DOMAIN actors \subseteq DOMAIN more /\ IsSeq(more)
         /\ \A a \in DOMAIN actors : a # SELF => more[a] = actors[a]
         /\ \A a \in DOMAIN actors : row2[a] = row[a]
         /\ \A i \in DOMAIN new : New(i) \in DOMAIN more /\ New(i) \notin DOMAIN actors /\ more[New(i)] = new[i]
         /\ \A a \in DOMAIN more : a \notin DOMAIN actors => \E i \in DOMAIN new : a = New(i)
    BY <2>9 DEF Renewed
  <2>11. /\ Cust(more, MINE.cust) /\ \A v : IsValue(actors, v) => IsValue(more, v)
    BY <1>2, <2>10, BothKept
  <2>12. row2[SELF] = SELF /\ SELF \in DOMAIN more
    BY <1>2, <2>10
  <2>13. \A i \in 1 .. n : IsIn(more, HeadBehs, New(i)) /\ row2[New(i)] = SELF
    BY <2>7, <2>9, <2>10 DEF IsIn, HeadBehs
  <2>14. \A i \in DOMAIN new : /\ new[i].beh \in ObjectBehs \cup {"map_head_beh", "map_next_beh"}
                               /\ StateOK(more, row2, New(i), new[i].beh, new[i].mine)
    <3>1. ASSUME NEW i \in 1 .. n
          PROVE  StateOK(more, row2, New(i), "map_head_beh", new[i].mine)
      <4>1. IsIn(more, MapBehs, row2[New(i)])
        BY <2>5, <2>10, <2>12, <2>13 DEF IsIn, MapBehs
      <4>2. i + 1 \in 1 .. n + 1 /\ (i # n => i + 1 \in 1 .. n)
        BY <2>4
      <4>3. IsValue(more, new[i].mine.list)
        BY <2>4, <2>7, <2>11, <4>2
      <4>4. new[i].mine.next # NIL => IsIn(more, HeadBehs, new[i].mine.next) /\ row2[new[i].mine.next] = row2[New(i)]
        BY <2>7, <2>13, <4>2
      <4> QED
        BY <4>1, <4>3, <4>4, HeadState
    <3> QED
      BY <2>7, <3>1
  <2>15. StateOK(more, row2, SELF, b, s)
    <3>1. s.cust = MINE.cust /\ s.env = MINE.env /\ s.heads = New(1)
      BY <2>5
    <3>2. 1 \in 1 .. n
      BY <2>4
    <3>3. IsValue(actors, MINE.env)
      BY <1>1, <1>2 DEF CustomerOK
    <3>4. CustomerOK(more, b, s)
      BY <2>5, <2>11, <3>1, <3>3 DEF CustomerOK, WithCust, PlainArgsBehs, BrandBehs, PairBehs
    <3>5. MapOK(more, row2, SELF, b, s)
      BY <2>5, <2>12, <2>13, <3>1, <3>2 DEF MapOK, HeadBehs
    <3>6. ObjectOK(more, b, s)
      BY <2>5 DEF ObjectOK
    <3>7. ForkJoinOK(more, SELF, b, s)
      BY <2>5 DEF ForkJoinOK, JoinBehs
    <3> QED
      BY <3>4, <3>5, <3>6, <3>7 DEF StateOK
  <2>16. MessageOK(more, row2, m) /\ Held(more, row2, m) = {SELF}
    <3>1. 1 \in 1 .. n + 1
      BY <2>4
    <3>2. IsValue(more, x)
      BY <2>4, <2>5, <2>11, <3>1
    <3>3. w.op = "unwrap" /\ w.cust = SELF
      BY <2>5 DEF Request
    <3>4. IsIn(more, MapBehs, SELF)
      BY <2>5, <2>10, <2>12 DEF IsIn, MapBehs
    <3>5. RequestOK(more, x, w)
      BY <2>10, <3>2, <3>3, <3>4, NoBrand DEF RequestOK, CustOK, Requests
    <3>6. Fits(more, row2, m, SELF)
      BY <2>5, <2>10, <2>12, <3>2, <3>3, <3>5, RequestFits
    <3>7. SELF # a_sink
      BY <1>1, Running DEF Settled
    <3> QED
      BY <3>6, <3>7 DEF Fits
  <2>17. RowOK(more, row2, m, SELF)
    <3>1. m.what.op = "unwrap"
      BY <2>5 DEF Message, Request
    <3>2. Busy(more, row2, SELF) = {}
      <4>1. ASSUME NEW y \in DOMAIN more, more[y].beh = "map_pair_beh", row2[y] = SELF
            PROVE  FALSE
        <5>1. y \in DOMAIN actors /\ y # SELF
          BY <2>5, <2>7, <2>10, <4>1
        <5>2. actors[y].beh = "map_pair_beh" /\ row[y] = SELF
          BY <2>10, <4>1, <5>1
        <5> QED
          BY <1>2, <5>1, <5>2 DEF Busy
      <4> QED
        BY <4>1 DEF Busy
    <3> QED
      BY <2>5, <2>10, <3>1, <3>2 DEF RowOK
  <2>18. s.cust = MINE.cust
    BY <2>5
  <2> QED
    BY <1>1, <2>5, <2>6, <2>9, <2>14, <2>15, <2>16, <2>17, <2>18, GoesOn
<1>6. CASE ~(WHAT.op = "args" /\ Len(WHAT.args) \in Nat \ {0, 1})
  <2>1. Throw
    BY <1>6 DEF map_args_beh
  <2> QED
    BY <1>1, <1>2, <2>1, Throws DEF Due
<1> QED
  BY <1>5, <1>6

(* What the heads of a map, and the rows they make, find.                  *)
Rowers == HeadBehs \cup {"map_next_beh"}

LEMMA Rowing ==
  ASSUME NEW open, NEW row, Runs(open, row), actors[SELF].beh \in Rowers, NEW k, k = row[SELF]
  PROVE  /\ SELF \in DOMAIN actors /\ IsSeq(actors) /\ SELF \notin open /\ SELF # k
         /\ k \in DOMAIN actors /\ actors[k].beh = "map_comb_beh" /\ row[k] = k
         /\ InHand(actors, row, queue[1]) = {k} /\ Dues(row) = {k}
         /\ actors[SELF].beh = "map_head_beh" => Busy(actors, row, k) = {}
         /\ actors[SELF].beh = "map_pair_beh" => Busy(actors, row, k) \subseteq {SELF}
         /\ actors[SELF].beh = "map_next_beh" /\ WHAT.val # a_nil => Busy(actors, row, k) = {}
<1>1. /\ SELF \in DOMAIN actors /\ IsSeq(actors) /\ Orderly(actors, queue, turns, out, aborted, open, row) /\ 1 \in DOMAIN queue
      /\ DOMAIN row = DOMAIN actors
  BY Running, RowOfSame
<1>2. StateOK(actors, row, SELF, actors[SELF].beh, MINE) /\ SentOK(actors, row, SELF, WHAT) /\ queue[1].what = WHAT /\ queue[1].to = SELF
  BY Handles
<1>3. k \in DOMAIN actors /\ actors[k].beh \in MapBehs
  BY <1>2 DEF StateOK, MapOK, Rowers, IsIn
<1>4. SELF # k /\ row[k] = k
  BY <1>3, RowOfSame DEF Rowers, HeadBehs, MapBehs
<1>5. SELF \notin open
  <2>1. actors[SELF].beh \notin OpenBehs
    BY DEF Rowers, HeadBehs, OpenBehs, ValueBehs, ArgsBehs, PlainArgsBehs, BrandBehs, PairBehs, BothBehs, JoinBehs, MapBehs
  <2> QED
    BY <1>1, <2>1 DEF Orderly, Told
<1>6. WHAT.op \in {"value", "pair"} /\ (actors[SELF].beh \in {"map_head_beh", "map_next_beh"} => WHAT.op = "value")
  BY <1>2 DEF SentOK, Rowers, HeadBehs, PairOK, NoPair
<1>7. Held(actors, row, queue[1]) = {k}
  <2>1. Answers(actors, row, queue[1]) = {k}
    BY <1>1, <1>2, <1>6 DEF Answers, Rowers, HeadBehs, ObjectBehs, Immutable, Mutable
  <2>2. Serves(row, queue[1]) = {}
    BY <1>2, <1>6 DEF Serves, Requests
  <2> QED
    BY <2>1, <2>2 DEF Held
<1>8. Keeps(actors, SELF) = {}
  BY DEF Rowers, HeadBehs, Keeps, Direct, Rest, WithCust, PlainArgsBehs, BrandBehs, PairBehs, JoinBehs
<1>9. InHand(actors, row, queue[1]) = {k}
  BY <1>2, <1>7, <1>8 DEF InHand
<1>10. Dues(row) = {k}
  BY <1>4, <1>9 DEF Dues
<1>11. RowOK(actors, row, queue[1], k)
  BY <1>1, <1>3, <1>7 DEF Orderly, Rows
<1>12. actors[k].beh = "map_comb_beh"
  BY <1>2, <1>4, <1>6, <1>11 DEF RowOK
<1>13. \A x \in Busy(actors, row, k) :
         actors[x].beh = "map_pair_beh" /\ (x = SELF \/ (WHAT.val = a_nil /\ actors[SELF].beh = "map_next_beh"))
  <2>1. \A x \in Busy(actors, row, k) : actors[x].beh = "map_pair_beh"
    BY DEF Busy
  <2> QED
    BY <1>2, <1>6, <1>11, <2>1 DEF RowOK, Rowers, HeadBehs
<1> QED
  BY <1>1, <1>3, <1>4, <1>5, <1>9, <1>10, <1>12, <1>13

(* The one that asked for a row is sent it, or the row of the lists before.*)
LEMMA TellsRow ==
  ASSUME NEW open, NEW row, Runs(open, row), actors[SELF].beh \in Rowers, NEW k, k = row[SELF],
         NEW c, IsIn(actors, RowBehs, c), row[c] = k,
         NEW more, Grown(actors, SELF, more), NEW row2, \A a \in DOMAIN actors : row2[a] = row[a],
         NEW v, IsValue(more, v), NEW m, m = Message(c, Value(v)),
         v = a_nil \/ Busy(more, row2, k) = {}
  PROVE  /\ MessageOK(more, row2, m) /\ Held(more, row2, m) = {k}
         /\ more[k].beh = "map_comb_beh" /\ RowOK(more, row2, m, k)
<1>1. /\ SELF \in DOMAIN actors /\ SELF # k
      /\ k \in DOMAIN actors /\ actors[k].beh = "map_comb_beh" /\ row[k] = k
  BY Rowing
<1>2. c \in DOMAIN actors /\ DOMAIN actors \subseteq DOMAIN more
  BY DEF IsIn, Grown
<1>3. c = k \/ actors[c].beh = "map_next_beh"
  BY RowOfSame DEF IsIn, RowBehs, MapBehs, HeadBehs
<1>4. more[k] = actors[k]
  BY <1>1 DEF Grown, Mutable
<1>5. more[c] = actors[c]
  <2>1. CASE c # k
    <3>1. Turned(actors[c], more[c])
      BY <1>2, AllTurned
    <3> QED
      BY <1>3, <2>1, <3>1 DEF Turned, Turning, Mutable, JoinBehs, MapBehs, HeadBehs
  <2> QED
    BY <1>4, <2>1
<1>6. more[c].beh \in {"map_comb_beh", "map_next_beh"} /\ row2[c] = k /\ c \in DOMAIN more
  BY <1>1, <1>2, <1>3, <1>5
<1>7. m.to = c /\ m.what.op = "value" /\ m.what.val = v
  BY DEF Message, Value
<1>8. more[c].beh \notin ObjectBehs \cup {"sink_beh", "fork_beh", "pair_copy_beh", "pair_map_beh"} \cup ValueBehs \cup PairBehs
           \cup JoinBehs \cup {"map_tail_beh"} \cup HeadBehs \cup ArgsBehs
  BY <1>6 DEF ObjectBehs, Immutable, Mutable, PairBehs, JoinBehs, ValueBehs, ArgsBehs, PlainArgsBehs, BrandBehs, HeadBehs
<1>9. SentOK(more, row2, c, m.what)
  BY <1>7, <1>8 DEF SentOK, HeadBehs
<1>10. MessageOK(more, row2, m)
  BY <1>6, <1>7, <1>9 DEF MessageOK
<1>11. Held(more, row2, m) = {k}
  BY <1>6, <1>7, <1>8 DEF Held, Answers, Serves, Requests
<1>12. RowOK(more, row2, m, k)
  BY <1>1, <1>4, <1>6, <1>7 DEF RowOK
<1> QED
  BY <1>1, <1>4, <1>10, <1>11, <1>12

(* One more element of the row.                                            *)
LEMMA MapNextBeh ==
  ASSUME NEW open, NEW row, Invariant(open, row), map_next_beh
  PROVE  Onward
<1>1. Runs(open, row) /\ actors[SELF].beh = "map_next_beh"
  BY Behaving DEF map_next_beh
<1>2. PICK k, c, R : k = row[SELF] /\ c = MINE.cust /\ R = {k}
  OBVIOUS
<1>3. /\ SELF \in DOMAIN actors /\ IsSeq(actors)
      /\ Dues(row) = R
      /\ WHAT.val # a_nil => Busy(actors, row, k) = {}
  BY <1>1, <1>2, Rowing DEF Rowers
<1>4. StateOK(actors, row, SELF, "map_next_beh", MINE) /\ SentOK(actors, row, SELF, WHAT)
  BY <1>1, Handles
<1>5. IsIn(actors, RowBehs, c) /\ row[c] = k /\ IsValue(actors, MINE.head)
  BY <1>2, <1>4 DEF StateOK, MapOK
<1>6. IsValue(actors, WHAT.val)
  BY <1>1, <1>4 DEF SentOK
<1>7. actors[SELF].beh \in Rowers /\ actors[SELF].beh \notin Unplain
  BY <1>1 DEF Rowers, Unplain, JoinBehs
<1>8. CASE WHAT.val = a_nil
  <2>1. PICK new, more, row2, v, m, tokens :
          /\ new = << >> /\ more = actors \o new /\ row2 = Extended(row, actors, more)
          /\ v = a_nil /\ m = Message(c, Value(v)) /\ tokens = << >>
    OBVIOUS
  <2>2. Handle(more, <<m>>, tokens)
    BY <1>2, <1>8, <2>1 DEF map_next_beh, Send, React
  <2>3. more = actors /\ IsSeq(new) /\ DOMAIN new = {} /\ IsSeq(tokens)
    BY <1>3, <2>1, Nothing, OneSent
  <2>4. Grown(actors, SELF, more) /\ \A a \in DOMAIN actors : row2[a] = row[a]
    BY <1>1, <2>1, <2>3, SameSelf, RowStays DEF Same
  <2>5. IsValue(more, v)
    BY <1>1, <2>1, <2>3, ConstantsAre
  <2>6. /\ MessageOK(more, row2, m) /\ Held(more, row2, m) = {k}
        /\ RowOK(more, row2, m, k)
    BY <1>1, <1>2, <1>5, <1>7, <2>1, <2>4, <2>5, TellsRow
  <2>7. \A x \in R : more[x].beh \in MapBehs => RowOK(more, row2, m, x)
    BY <1>2, <2>6
  <2>8. \A i \in DOMAIN new : new[i].beh \in ObjectBehs /\ ObjectOK(more, new[i].beh, new[i].mine)
    BY <2>3
  <2>9. Held(more, row2, m) = R
    BY <1>2, <2>6
  <2> QED
    BY <1>1, <1>3, <1>7, <2>1, <2>2, <2>3, <2>6, <2>7, <2>8, <2>9, Passes
<1>9. CASE WHAT.val # a_nil
  <2>1. PICK b, s : b = "cons_type" /\ s = Halves(MINE.head, WHAT.val)
    OBVIOUS
  <2>2. PICK new, more, row2, v, m, tokens :
          /\ new = <<Actor(b, s)>> /\ more = actors \o new /\ row2 = Extended(row, actors, more)
          /\ v = New(1) /\ m = Message(c, Value(v)) /\ tokens = << >>
    OBVIOUS
  <2>3. Handle(more, <<m>>, tokens)
    BY <1>2, <1>9, <2>1, <2>2 DEF map_next_beh, Answer, React
  <2>4. IsSeq(new) /\ DOMAIN new = {1} /\ new[1].beh = b /\ new[1].mine = s /\ IsSeq(tokens)
    BY <2>2, OneSent DEF Actor
  <2>5. Adds(row, new, more, row2)
    BY <1>1, <2>2, <2>4, Adding
  <2>6. /\ Grown(actors, SELF, more) /\ \A a \in DOMAIN actors : row2[a] = row[a] /\ more[a] = actors[a]
        /\ v \in DOMAIN more /\ more[v].beh = b
        /\ \A a \in DOMAIN more : a \notin DOMAIN actors => a = v
    BY <2>2, <2>4, <2>5 DEF Adds
  <2>7. IsValue(more, v)
    BY <2>1, <2>6 DEF IsValue, IsIn, ObjectBehs, Mutable
  <2>8. \A x : IsValue(actors, x) => IsValue(more, x)
    BY <1>1, <2>6, Still
  <2>9. ObjectOK(more, b, s)
    BY <1>5, <1>6, <2>1, <2>8 DEF ObjectOK, Halves
  <2>10. Busy(more, row2, k) = {}
    <3>1. ASSUME NEW y \in DOMAIN more, more[y].beh = "map_pair_beh", row2[y] = k
          PROVE  FALSE
      <4>1. y \in DOMAIN actors
        BY <2>1, <2>6, <3>1
      <4>2. actors[y].beh = "map_pair_beh" /\ row[y] = k
        BY <2>6, <3>1, <4>1
      <4> QED
        BY <1>3, <1>9, <4>1, <4>2 DEF Busy
    <3> QED
      BY <3>1 DEF Busy
  <2>11. /\ MessageOK(more, row2, m) /\ Held(more, row2, m) = {k}
         /\ RowOK(more, row2, m, k)
    <3>1. m = Message(c, Value(v)) /\ (v = a_nil \/ Busy(more, row2, k) = {})
      BY <2>2, <2>10
    <3>2. \A a \in DOMAIN actors : row2[a] = row[a]
      BY <2>6
    <3>3. Grown(actors, SELF, more) /\ k = row[SELF]
      BY <1>2, <2>6
    <3> QED
      BY <1>1, <1>5, <1>7, <2>7, <3>1, <3>2, <3>3, TellsRow
  <2>12. \A x \in R : more[x].beh \in MapBehs => RowOK(more, row2, m, x)
    BY <1>2, <2>11
  <2>13. b \in ObjectBehs
    BY <2>1 DEF ObjectBehs, Mutable
  <2>14. \A i \in DOMAIN new : new[i].beh \in ObjectBehs /\ ObjectOK(more, new[i].beh, new[i].mine)
    BY <2>4, <2>9, <2>13
  <2>15. Held(more, row2, m) = R
    BY <1>2, <2>11
  <2> QED
    <3>1. more = actors \o new /\ row2 = Extended(row, actors, more)
      BY <2>2
    <3>2. IsSeq(new) /\ IsSeq(tokens) /\ MessageOK(more, row2, m)
      BY <2>4, <2>11
    <3>3. Dues(row) = R
      BY <1>3
    <3> QED
      BY <1>1, <1>7, <2>3, <2>12, <2>14, <2>15, <3>1, <3>2, <3>3, Passes
<1> QED
  BY <1>8, <1>9

(* A head asks for the pair of its list.                                   *)
LEMMA MapHead ==
  ASSUME NEW open, NEW row, Invariant(open, row), map_head_beh
  PROVE  Onward
<1>1. Runs(open, row) /\ actors[SELF].beh = "map_head_beh"
  BY Behaving DEF map_head_beh
<1>2. PICK k, H, K : k = row[SELF] /\ H = {k} /\ K = {}
  OBVIOUS
<1>3. /\ SELF \in DOMAIN actors /\ IsSeq(actors) /\ SELF \notin open /\ SELF # k
      /\ k \in DOMAIN actors /\ actors[k].beh = "map_comb_beh" /\ row[k] = k
      /\ InHand(actors, row, queue[1]) = H
      /\ Busy(actors, row, k) = {}
  BY <1>1, <1>2, Rowing DEF Rowers, HeadBehs
<1>4. StateOK(actors, row, SELF, "map_head_beh", MINE) /\ SentOK(actors, row, SELF, WHAT)
  BY <1>1, Handles
<1>5. /\ IsValue(actors, MINE.list)
      /\ MINE.next # NIL => IsIn(actors, HeadBehs, MINE.next) /\ row[MINE.next] = k
  BY <1>2, <1>4 DEF StateOK, MapOK, HeadBehs
<1>6. IsIn(actors, RowBehs, WHAT.val) /\ row[WHAT.val] = k
  BY <1>1, <1>2, <1>4 DEF SentOK
<1>7. PICK b, s, x, w, m : /\ b = "map_pair_beh" /\ s = [cust |-> WHAT.val, next |-> MINE.next]
                           /\ x = MINE.list /\ w = Request("as_pair", SELF) /\ m = Message(x, w)
  OBVIOUS
<1>8. Become(b, s, <<m>>)
  BY <1>7 DEF map_head_beh
<1>9. Turned(actors[SELF], Actor(b, s))
  BY <1>1, <1>7 DEF Turned, Turning, Mutable, JoinBehs, MapBehs, HeadBehs, Actor
<1>10. PICK new, more, row2 :
           /\ new = << >> /\ Renewed(row, b, s, new, more, row2) /\ Handle(more, <<m>>, << >>)
           /\ DOMAIN more = DOMAIN actors
  BY <1>1, <1>8, <1>9, Becoming
<1>11. /\ Grown(actors, SELF, more) /\ more[SELF].beh = b /\ IsSeq(more)
       /\ \A a \in DOMAIN actors : a # SELF => more[a] = actors[a]
       /\ \A a \in DOMAIN actors : row2[a] = row[a]
  BY <1>10 DEF Renewed
<1>12. /\ \A v : IsValue(actors, v) => IsValue(more, v)
       /\ \A v : IsIn(actors, RowBehs, v) => IsIn(more, RowBehs, v)
       /\ \A v : IsIn(actors, HeadBehs, v) => IsIn(more, HeadBehs, v)
  BY <1>11, ValuesStay, KindsStay
<1>13. row2[SELF] = k /\ row2[k] = k /\ more[k].beh = "map_comb_beh"
  BY <1>2, <1>3, <1>11
<1>14. s.cust = WHAT.val /\ s.next = MINE.next
  BY <1>7
<1>15. StateOK(more, row2, SELF, b, s)
  <2>1. IsIn(more, MapBehs, row2[SELF])
    BY <1>3, <1>10, <1>13 DEF IsIn, MapBehs
  <2>2. s.next # NIL => IsIn(more, HeadBehs, s.next) /\ row2[s.next] = row2[SELF]
    BY <1>5, <1>11, <1>12, <1>13, <1>14 DEF IsIn
  <2>3. IsIn(more, RowBehs, s.cust) /\ row2[s.cust] = row2[SELF]
    BY <1>6, <1>11, <1>12, <1>13, <1>14 DEF IsIn
  <2>4. CustomerOK(more, "map_pair_beh", s)
    BY DEF CustomerOK, WithCust, PlainArgsBehs, BrandBehs, PairBehs
  <2>5. MapOK(more, row2, SELF, "map_pair_beh", s)
    BY <2>1, <2>2, <2>3 DEF MapOK, HeadBehs
  <2>6. ObjectOK(more, "map_pair_beh", s)
    BY DEF ObjectOK
  <2>7. ForkJoinOK(more, SELF, "map_pair_beh", s)
    BY DEF ForkJoinOK, JoinBehs
  <2> QED
    BY <1>7, <2>4, <2>5, <2>6, <2>7 DEF StateOK
<1>16. IsValue(more, x) /\ w.op = "as_pair" /\ w.cust = SELF /\ m.to = x /\ m.what = w
  BY <1>5, <1>7, <1>12 DEF Request, Message
<1>17. RequestOK(more, x, w)
  <2>1. IsIn(more, HeadBehs, SELF) /\ ~IsIn(more, PairBehs, SELF)
    BY <1>3, <1>7, <1>10, <1>11 DEF IsIn, HeadBehs, PairBehs
  <2> QED
    BY <1>11, <1>16, <2>1, NoBrand DEF RequestOK, CustOK, IsIn, Requests
<1>18. MessageOK(more, row2, m) /\ Held(more, row2, m) = H
  <2>1. Fits(more, row2, m, k)
    BY <1>7, <1>11, <1>13, <1>16, <1>17, RequestFits
  <2>2. k # a_sink
    BY <1>1, <1>3, Running DEF Settled
  <2> QED
    BY <1>2, <2>1, <2>2 DEF Fits
<1>19. RowOK(more, row2, m, k)
  <2>1. \A y \in Busy(more, row2, k) : y = SELF
    <3>1. ASSUME NEW y \in DOMAIN more, more[y].beh = "map_pair_beh", row2[y] = k, y # SELF
          PROVE  FALSE
      <4>1. actors[y].beh = "map_pair_beh" /\ row[y] = k /\ y \in DOMAIN actors
        BY <1>10, <1>11, <3>1
      <4> QED
        BY <1>3, <4>1 DEF Busy
    <3> QED
      BY <3>1 DEF Busy
  <2> QED
    BY <1>7, <1>11, <1>13, <1>16, <2>1 DEF RowOK
<1>20. \A y \in H : more[y].beh \in MapBehs => RowOK(more, row2, m, y)
  BY <1>2, <1>19
<1>21. Keeps(more, SELF) = K
  BY <1>2, <1>7, <1>11 DEF Keeps, Direct, Rest, WithCust, PlainArgsBehs, BrandBehs, PairBehs, JoinBehs
<1>22. /\ actors[SELF].beh \in TurnBehs /\ b \in {"vau_evar_beh"} \cup MapBehs \cup HeadBehs
  BY <1>1, <1>7 DEF TurnBehs, HeadBehs
<1>23. DOMAIN new = {}
  BY <1>10, OneSent
<1>24. Turns(open, row, b, s, new, more, row2, m, H, K)
  BY <1>1, <1>2, <1>3, <1>10, <1>15, <1>18, <1>20, <1>21, <1>22, <1>23 DEF Turns
<1> QED
  BY <1>10, <1>24, TurnsStep

(* A head that was sent its pair, or none, has its turn no more.           *)
Moves(row2, k, s, more) ==
  /\ StateOK(more, row2, SELF, "map_head_beh", s)
  /\ Busy(more, row2, k) = {} /\ Keeps(more, SELF) = {}
  /\ k \in DOMAIN more /\ more[k].beh = "map_comb_beh" /\ row2[k] = k /\ row2[SELF] = k

LEMMA PairMoved ==
  ASSUME NEW open, NEW row, Runs(open, row), actors[SELF].beh = "map_pair_beh", WHAT.op = "pair",
         NEW k, k = row[SELF], NEW s, s = [list |-> WHAT.tl, next |-> MINE.next],
         NEW new, NEW more, NEW row2, Renewed(row, "map_head_beh", s, new, more, row2),
         \A i \in DOMAIN new : new[i].beh \in {"cons_type", "map_next_beh"}
  PROVE  Moves(row2, k, s, more)
<1>1. /\ SELF \in DOMAIN actors /\ IsSeq(actors) /\ SELF # k
      /\ k \in DOMAIN actors /\ actors[k].beh = "map_comb_beh" /\ row[k] = k
      /\ Busy(actors, row, k) \subseteq {SELF}
  BY Rowing DEF Rowers, HeadBehs
<1>2. StateOK(actors, row, SELF, "map_pair_beh", MINE) /\ SentOK(actors, row, SELF, WHAT)
  BY Handles
<1>3. MINE.next # NIL => IsIn(actors, HeadBehs, MINE.next) /\ row[MINE.next] = k
  BY <1>2 DEF StateOK, MapOK, HeadBehs
<1>4. IsValue(actors, WHAT.tl)
  BY <1>2 DEF SentOK, PairOK, NoPair
<1>5. /\ Grown(actors, SELF, more) /\ more[SELF].beh = "map_head_beh" /\ more[SELF].mine = s /\ IsSeq(more)
      /\ DOMAIN actors \subseteq DOMAIN more
      /\ \A a \in DOMAIN actors : a # SELF => more[a] = actors[a]
      /\ \A a \in DOMAIN actors : row2[a] = row[a]
      /\ \A i \in DOMAIN new : New(i) \in DOMAIN more /\ New(i) \notin DOMAIN actors /\ more[New(i)] = new[i]
      /\ \A a \in DOMAIN more : a \notin DOMAIN actors => \E i \in DOMAIN new : a = New(i)
  BY DEF Renewed
<1>6. /\ \A v : IsValue(actors, v) => IsValue(more, v)
      /\ \A v : IsIn(actors, HeadBehs, v) => IsIn(more, HeadBehs, v)
  BY <1>5, ValuesStay, KindsStay
<1>7. k \in DOMAIN more /\ more[k].beh = "map_comb_beh" /\ row2[k] = k /\ row2[SELF] = k
  BY <1>1, <1>5
<1>8. s.list = WHAT.tl /\ s.next = MINE.next
  OBVIOUS
<1>9. StateOK(more, row2, SELF, "map_head_beh", s)
  <2>1. IsIn(more, MapBehs, row2[SELF])
    BY <1>7 DEF IsIn, MapBehs
  <2>2. s.next # NIL => IsIn(more, HeadBehs, s.next) /\ row2[s.next] = row2[SELF]
    BY <1>3, <1>5, <1>6, <1>7, <1>8 DEF IsIn
  <2>3. IsValue(more, s.list)
    BY <1>4, <1>6, <1>8
  <2> QED
    BY <2>1, <2>2, <2>3, HeadState
<1>10. Busy(more, row2, k) = {}
  <2>1. ASSUME NEW y \in DOMAIN more, more[y].beh = "map_pair_beh", row2[y] = k
        PROVE  FALSE
    <3>1. y \in DOMAIN actors /\ y # SELF
      BY <1>5, <2>1
    <3>2. actors[y].beh = "map_pair_beh" /\ row[y] = k
      BY <1>5, <2>1, <3>1
    <3> QED
      BY <1>1, <3>1, <3>2 DEF Busy
  <2> QED
    BY <2>1 DEF Busy
<1>11. Keeps(more, SELF) = {}
  BY <1>5 DEF Keeps, Direct, Rest, WithCust, PlainArgsBehs, BrandBehs, PairBehs, JoinBehs
<1> QED
  BY <1>7, <1>9, <1>10, <1>11 DEF Moves

LEMMA NextState ==
  ASSUME NEW all, NEW row, NEW a, IsIn(all, MapBehs, row[a]), NEW s, IsValue(all, s.head),
         IsIn(all, RowBehs, s.cust), row[s.cust] = row[a]
  PROVE  StateOK(all, row, a, "map_next_beh", s)
<1>1. CustomerOK(all, "map_next_beh", s)
  BY DEF CustomerOK, WithCust, PlainArgsBehs, BrandBehs, PairBehs
<1>2. MapOK(all, row, a, "map_next_beh", s)
  BY DEF MapOK, HeadBehs
<1>3. ObjectOK(all, "map_next_beh", s)
  BY DEF ObjectOK
<1>4. ForkJoinOK(all, a, "map_next_beh", s)
  BY DEF ForkJoinOK, JoinBehs
<1> QED
  BY <1>1, <1>2, <1>3, <1>4 DEF StateOK

(* One that is not of an open customer.                                    *)
LEMMA HeadTurns ==
  ASSUME NEW open, NEW row, Runs(open, row), actors[SELF].beh \in HeadBehs, NEW k, k = row[SELF],
         NEW b, b \in HeadBehs, NEW s, NEW new, NEW more, NEW row2, Renewed(row, b, s, new, more, row2),
         StateOK(more, row2, SELF, b, s),
         \A i \in DOMAIN new : /\ new[i].beh \in ObjectBehs \cup {"map_head_beh", "map_next_beh"}
                               /\ StateOK(more, row2, New(i), new[i].beh, new[i].mine),
         NEW m, MessageOK(more, row2, m), Held(more, row2, m) = {k}, RowOK(more, row2, m, k),
         Handle(more, <<m>>, << >>)
  PROVE  Onward
<1>1. SELF \notin open /\ InHand(actors, row, queue[1]) = {k}
  BY Rowing DEF Rowers
<1>2. PICK H, K : H = {k} /\ K = {}
  OBVIOUS
<1>3. more[SELF].beh = b
  BY DEF Renewed
<1>4. Keeps(more, SELF) = K
  BY <1>2, <1>3 DEF HeadBehs, Keeps, Direct, Rest, WithCust, PlainArgsBehs, BrandBehs, PairBehs, JoinBehs
<1>5. actors[SELF].beh \in TurnBehs /\ b \in {"vau_evar_beh"} \cup MapBehs \cup HeadBehs
  BY DEF TurnBehs
<1>6. \A y \in H : more[y].beh \in MapBehs => RowOK(more, row2, m, y)
  BY <1>2
<1>7. Held(more, row2, m) = H /\ InHand(actors, row, queue[1]) = H
  BY <1>1, <1>2
<1>8. Turns(open, row, b, s, new, more, row2, m, H, K)
  BY <1>1, <1>2, <1>4, <1>5, <1>6, <1>7 DEF Turns
<1> QED
  BY <1>8, TurnsStep

(* The pair at the front of a list, ...                                    *)
LEMMA MapPairLast ==
  ASSUME NEW open, NEW row, Invariant(open, row), map_pair_beh, WHAT.op = "pair", MINE.next = NIL
  PROVE  Onward
<1>1. Runs(open, row) /\ actors[SELF].beh = "map_pair_beh"
  BY Behaving DEF map_pair_beh
<1>2. StateOK(actors, row, SELF, "map_pair_beh", MINE) /\ SentOK(actors, row, SELF, WHAT)
  BY <1>1, Handles
<1>3. PICK k, c : k = row[SELF] /\ c = MINE.cust
  OBVIOUS
<1>4. IsIn(actors, RowBehs, c) /\ row[c] = k
  BY <1>2, <1>3 DEF StateOK, MapOK, HeadBehs
<1>5. IsValue(actors, WHAT.hd)
  BY <1>1, <1>2 DEF SentOK, PairOK, NoPair
<1>6. PICK b, s, b2, s2 : /\ b = "map_head_beh" /\ s = [list |-> WHAT.tl, next |-> MINE.next]
                          /\ b2 = "cons_type" /\ s2 = Halves(WHAT.hd, a_nil)
  OBVIOUS
<1>7. PICK new, more, row2 :
        /\ new = <<Actor(b2, s2)>> /\ more = Changed(SELF, b, s) \o new /\ row2 = Extended(row, actors, more)
  OBVIOUS
<1>8. PICK v, m : v = New(1) /\ m = Message(c, Value(v))
  OBVIOUS
<1>9. Handle(more, <<m>>, << >>)
  BY <1>3, <1>6, <1>7, <1>8 DEF map_pair_beh
<1>10. IsSeq(new) /\ DOMAIN new = {1} /\ new[1].beh = b2 /\ new[1].mine = s2
  BY <1>7, OneSent DEF Actor
<1>11. Turned(actors[SELF], Actor(b, s))
  BY <1>1, <1>6 DEF Turned, Turning, Mutable, JoinBehs, MapBehs, HeadBehs, Actor
<1>12. Renewed(row, b, s, new, more, row2) /\ row2[v] = v
  <2>1. Renewed(row, b, s, new, more, row2) /\ Placed(row, new, more, row2)
    <3>1. IsSeq(new) /\ more = Changed(SELF, b, s) \o new /\ row2 = Extended(row, actors, more)
      BY <1>7, <1>10
    <3> QED
      BY <1>1, <1>11, <3>1, Renewing
  <2> QED
    BY <1>7, <1>8, <1>10, <2>1 DEF Placed
<1>13. /\ Grown(actors, SELF, more) /\ \A a \in DOMAIN actors : row2[a] = row[a]
       /\ v \in DOMAIN more /\ more[v].beh = b2
  BY <1>8, <1>10, <1>12 DEF Renewed
<1>14. /\ StateOK(more, row2, SELF, b, s) /\ Busy(more, row2, k) = {}
       /\ more[k].beh = "map_comb_beh"
  <2>1. \A i \in DOMAIN new : new[i].beh \in {"cons_type", "map_next_beh"}
    BY <1>6, <1>10
  <2> QED
    <3>1. s = [list |-> WHAT.tl, next |-> MINE.next] /\ k = row[SELF] /\ WHAT.op = "pair"
      BY <1>3, <1>6
    <3>2. Renewed(row, "map_head_beh", s, new, more, row2)
      BY <1>6, <1>12
    <3>3. Moves(row2, k, s, more)
      BY <1>1, <2>1, <3>1, <3>2, PairMoved
    <3> QED
      BY <1>6, <3>3 DEF Moves
<1>15. IsValue(more, v)
  BY <1>6, <1>13 DEF IsValue, IsIn, ObjectBehs, Mutable
<1>16. MessageOK(more, row2, m) /\ Held(more, row2, m) = {k} /\ RowOK(more, row2, m, k)
  BY <1>1, <1>3, <1>4, <1>8, <1>13, <1>14, <1>15, TellsRow DEF Rowers, HeadBehs
<1>17. StateOK(more, row2, v, b2, s2) /\ b2 \in ObjectBehs
  <2>1. IsValue(more, WHAT.hd) /\ IsValue(more, a_nil)
    BY <1>1, <1>5, <1>13, ConstantsAre, Still
  <2>2. b2 \in ObjectBehs /\ ObjectOK(more, b2, s2)
    BY <1>6, <2>1 DEF ObjectOK, Halves, ObjectBehs, Mutable
  <2> QED
    BY <1>12, <2>2, ObjectState
<1>18. \A i \in DOMAIN new : /\ new[i].beh \in ObjectBehs \cup {"map_head_beh", "map_next_beh"}
                             /\ StateOK(more, row2, New(i), new[i].beh, new[i].mine)
  BY <1>8, <1>10, <1>17
<1>19. b \in HeadBehs /\ actors[SELF].beh \in HeadBehs
  BY <1>1, <1>6 DEF HeadBehs
<1> QED
  BY <1>1, <1>3, <1>9, <1>12, <1>14, <1>16, <1>18, <1>19, HeadTurns

LEMMA MapPairMore ==
  ASSUME NEW open, NEW row, Invariant(open, row), map_pair_beh, WHAT.op = "pair", MINE.next # NIL
  PROVE  Onward
<1>1. Runs(open, row) /\ actors[SELF].beh = "map_pair_beh"
  BY Behaving DEF map_pair_beh
<1>2. StateOK(actors, row, SELF, "map_pair_beh", MINE) /\ SentOK(actors, row, SELF, WHAT)
  BY <1>1, Handles
<1>3. PICK k, c, h : k = row[SELF] /\ c = MINE.cust /\ h = MINE.next
  OBVIOUS
<1>4. IsIn(actors, RowBehs, c) /\ row[c] = k /\ IsIn(actors, HeadBehs, h) /\ row[h] = k
  BY <1>2, <1>3 DEF StateOK, MapOK, HeadBehs
<1>5. IsValue(actors, WHAT.hd)
  BY <1>1, <1>2 DEF SentOK, PairOK, NoPair
<1>6. PICK b, s, b2, s2 : /\ b = "map_head_beh" /\ s = [list |-> WHAT.tl, next |-> MINE.next]
                          /\ b2 = "map_next_beh" /\ s2 = [cust |-> c, head |-> WHAT.hd]
  OBVIOUS
<1>7. PICK new, more, row2 :
        /\ new = <<Actor(b2, s2)>> /\ more = Changed(SELF, b, s) \o new /\ row2 = Shared(row, actors, more)
  OBVIOUS
<1>8. PICK v, m : v = New(1) /\ m = Message(h, Value(v))
  OBVIOUS
<1>9. Handle(more, <<m>>, << >>)
  BY <1>3, <1>6, <1>7, <1>8 DEF map_pair_beh
<1>10. IsSeq(new) /\ DOMAIN new = {1} /\ new[1].beh = b2 /\ new[1].mine = s2
  BY <1>7, OneSent DEF Actor
<1>11. Turned(actors[SELF], Actor(b, s))
  BY <1>1, <1>6 DEF Turned, Turning, Mutable, JoinBehs, MapBehs, HeadBehs, Actor
<1>12. Renewed(row, b, s, new, more, row2) /\ row2[v] = k
  <2>1. SharedBy(row, b, s, new, more, row2)
    <3>1. IsSeq(new) /\ more = Changed(SELF, b, s) \o new /\ row2 = Shared(row, actors, more)
      BY <1>7, <1>10
    <3> QED
      BY <1>1, <1>11, <3>1, Sharing
  <2> QED
    BY <1>3, <1>8, <1>10, <2>1 DEF SharedBy
<1>13. /\ Grown(actors, SELF, more) /\ \A a \in DOMAIN actors : row2[a] = row[a]
       /\ v \in DOMAIN more /\ more[v].beh = b2 /\ DOMAIN actors \subseteq DOMAIN more
       /\ more[SELF].beh = b
       /\ \A a \in DOMAIN actors : a # SELF => more[a] = actors[a]
  BY <1>8, <1>10, <1>12 DEF Renewed
<1>14. /\ StateOK(more, row2, SELF, b, s) /\ Busy(more, row2, k) = {}
       /\ k \in DOMAIN more /\ more[k].beh = "map_comb_beh"
  <2>1. \A i \in DOMAIN new : new[i].beh \in {"cons_type", "map_next_beh"}
    BY <1>6, <1>10
  <2> QED
    <3>1. s = [list |-> WHAT.tl, next |-> MINE.next] /\ k = row[SELF] /\ WHAT.op = "pair"
      BY <1>3, <1>6
    <3>2. Renewed(row, "map_head_beh", s, new, more, row2)
      BY <1>6, <1>12
    <3>3. Moves(row2, k, s, more)
      BY <1>1, <2>1, <3>1, <3>2, PairMoved
    <3> QED
      BY <1>6, <3>3 DEF Moves
<1>15. h \in DOMAIN actors /\ row2[h] = k /\ more[h].beh = "map_head_beh" /\ h # k
  <2>1. h \in DOMAIN actors /\ row2[h] = k /\ IsIn(more, HeadBehs, h)
    BY <1>4, <1>13, KindsStay DEF IsIn
  <2>2. more[h].beh # "map_pair_beh"
    BY <1>14, <2>1 DEF Busy, IsIn
  <2> QED
    BY <1>14, <2>1, <2>2 DEF IsIn, HeadBehs
<1>16. m.to = h /\ m.what.op = "value" /\ m.what.val = v
  BY <1>8 DEF Message, Value
<1>17. MessageOK(more, row2, m) /\ Held(more, row2, m) = {k} /\ RowOK(more, row2, m, k)
  <2>1. more[h].beh \notin ObjectBehs \cup {"sink_beh", "fork_beh", "pair_copy_beh", "pair_map_beh"} \cup ValueBehs \cup PairBehs
           \cup JoinBehs \cup {"map_unwrap_beh", "map_comb_beh", "map_next_beh", "map_tail_beh", "map_pair_beh"} \cup ArgsBehs
    BY <1>15 DEF ObjectBehs, Immutable, Mutable, PairBehs, JoinBehs, ValueBehs, ArgsBehs, PlainArgsBehs, BrandBehs
  <2>2. IsIn(more, RowBehs, v) /\ row2[v] = row2[h]
    BY <1>6, <1>12, <1>13, <1>15 DEF IsIn, RowBehs
  <2>3. SentOK(more, row2, h, m.what)
    BY <1>15, <1>16, <2>1, <2>2 DEF SentOK
  <2>4. MessageOK(more, row2, m)
    BY <1>13, <1>15, <1>16, <2>3 DEF MessageOK
  <2>5. Held(more, row2, m) = {k}
    BY <1>13, <1>15, <1>16, <2>1 DEF Held, Answers, Serves, Requests
  <2>6. RowOK(more, row2, m, k)
    BY <1>14, <1>16 DEF RowOK
  <2> QED
    BY <2>4, <2>5, <2>6
<1>18. StateOK(more, row2, v, b2, s2)
  <2>1. IsValue(more, s2.head)
    BY <1>1, <1>5, <1>6, <1>13, Still
  <2>2. IsIn(more, RowBehs, s2.cust) /\ row2[s2.cust] = row2[v]
    BY <1>4, <1>6, <1>12, <1>13, KindsStay DEF IsIn
  <2>3. IsIn(more, MapBehs, row2[v])
    BY <1>12, <1>14 DEF IsIn, MapBehs
  <2> QED
    BY <1>6, <2>1, <2>2, <2>3, NextState
<1>19. \A i \in DOMAIN new : /\ new[i].beh \in ObjectBehs \cup {"map_head_beh", "map_next_beh"}
                             /\ StateOK(more, row2, New(i), new[i].beh, new[i].mine)
  BY <1>6, <1>8, <1>10, <1>18
<1>20. b \in HeadBehs /\ actors[SELF].beh \in HeadBehs
  BY <1>1, <1>6 DEF HeadBehs
<1> QED
  BY <1>1, <1>3, <1>9, <1>12, <1>14, <1>17, <1>19, <1>20, HeadTurns

(* ... or the end of all lists.                                            *)
LEMMA MapPair ==
  ASSUME NEW open, NEW row, Invariant(open, row), map_pair_beh
  PROVE  Onward
<1>1. Runs(open, row) /\ actors[SELF].beh = "map_pair_beh"
  BY Behaving DEF map_pair_beh
<1>2. CASE WHAT.op # "pair"
  <2>1. StateOK(actors, row, SELF, "map_pair_beh", MINE)
    BY <1>1, Handles
  <2>2. PICK k, c, b, s, v, m : k = row[SELF] /\ c = MINE.cust /\ b = "map_pair_beh" /\ s = MINE
                                /\ v = a_nil /\ m = Message(c, Value(v))
    OBVIOUS
  <2>3. IsIn(actors, RowBehs, c) /\ row[c] = k
    BY <2>1, <2>2 DEF StateOK, MapOK, HeadBehs
  <2>4. Handle(actors, <<m>>, << >>)
    <3>1. IsSeq(actors)
      BY <1>1, Running
    <3> QED
      BY <1>2, <2>2, <3>1, Nothing DEF map_pair_beh, Send, React
  <2>5. Grown(actors, SELF, actors) /\ IsSeq(actors) /\ DOMAIN row = DOMAIN actors
    BY <1>1, SameSelf, Running, RowOfSame DEF Same
  <2>6. PICK new : new = << >>
    OBVIOUS
  <2>7. DOMAIN new = {}
    BY <2>6, OneSent
  <2>8. Renewed(row, b, s, new, actors, row)
    BY <1>1, <2>2, <2>5, <2>7 DEF Renewed, MINE
  <2>9. MessageOK(actors, row, m) /\ Held(actors, row, m) = {k} /\ RowOK(actors, row, m, k)
    <3>1. IsValue(actors, v)
      BY <1>1, <2>2, ConstantsAre
    <3> QED
      BY <1>1, <2>2, <2>3, <2>5, <3>1, TellsRow DEF Rowers, HeadBehs
  <2>10. StateOK(actors, row, SELF, b, s) /\ b \in HeadBehs /\ actors[SELF].beh \in HeadBehs
    BY <1>1, <2>1, <2>2 DEF HeadBehs
  <2> QED
    BY <1>1, <2>2, <2>4, <2>7, <2>8, <2>9, <2>10, HeadTurns
<1> QED
  BY <1>2, MapPairLast, MapPairMore

(* A row is combined, and at the same time the rest of the map is made.    *)
LEMMA MapCombRow ==
  ASSUME NEW open, NEW row, Invariant(open, row), map_comb_beh, MINE.env \in DOMAIN actors, WHAT.val # a_nil
  PROVE  Onward
<1>1. Runs(open, row) /\ actors[SELF].beh = "map_comb_beh"
  BY Behaving DEF map_comb_beh
<1>2. PICK k : k = MINE.cust
  OBVIOUS
<1>3. /\ SELF \in DOMAIN actors /\ IsSeq(actors) /\ row[SELF] = SELF /\ SELF \in open
      /\ Due(open, row, k) /\ Cust(actors, k) /\ CustomerOK(actors, "map_comb_beh", MINE)
      /\ k # SELF
      /\ InHand(actors, row, queue[1]) = {SELF} \cup ({k} \ {a_sink})
      /\ Busy(actors, row, SELF) = {}
  BY <1>1, <1>2, GoingOn
<1>4. StateOK(actors, row, SELF, "map_comb_beh", MINE) /\ SentOK(actors, row, SELF, WHAT)
  BY <1>1, Handles
<1>5. /\ IsIn(actors, HeadBehs, MINE.heads) /\ row[MINE.heads] = SELF
      /\ IsValue(actors, MINE.comb) /\ IsValue(actors, MINE.env) /\ IsValue(actors, WHAT.val)
  BY <1>1, <1>4 DEF StateOK, MapOK, CustomerOK, SentOK
<1>6. k \in DOMAIN actors /\ a_sink \in DOMAIN actors /\ actors[a_sink].beh = "sink_beh"
      /\ DOMAIN actors = 1 .. Len(actors) /\ Len(actors) \in Nat
  <2>1. a_sink \in DOMAIN actors /\ actors[a_sink].beh = "sink_beh"
    BY <1>1, Running DEF Settled
  <2> QED
    BY <1>3, <2>1, LengthIs DEF Cust, AnyCust, IsIn
<1>7. PICK b, s, s2, w, m :
        /\ b = "map_tail_beh" /\ s = [comb |-> MINE.comb, env |-> MINE.env]
        /\ s2 = [cust |-> New(1), head |-> MINE.comb, tail |-> SELF]
        /\ w = ForkRequest(Comb(NIL, WHAT.val, MINE.env), [op |-> "heads", cust |-> NIL, heads |-> MINE.heads])
        /\ m = Message(New(2), w)
  OBVIOUS
<1>8. PICK new, more, row2 :
        /\ new = <<Actor("pair_map_beh", k), Actor("fork_beh", s2)>>
        /\ more = Changed(SELF, b, s) \o new /\ row2 = Extended(row, actors, more)
  OBVIOUS
<1>9. PICK sent, tokens : sent = <<m>> /\ tokens = << >>
  OBVIOUS
<1>10. Handle(more, sent, tokens)
  BY <1>2, <1>7, <1>8, <1>9 DEF map_comb_beh
<1>11. IsSeq(new) /\ DOMAIN new = {1, 2} /\ new[1].beh = "pair_map_beh" /\ new[1].mine = k
       /\ new[2].beh = "fork_beh" /\ new[2].mine = s2
       /\ IsSeq(sent) /\ DOMAIN sent = {1} /\ sent[1] = m /\ IsSeq(tokens)
  BY <1>8, <1>9, OneSent DEF Actor
<1>12. Turned(actors[SELF], Actor(b, s))
  BY <1>1, <1>7 DEF Turned, Turning, Mutable, JoinBehs, MapBehs, HeadBehs, Actor
<1>13. Remade(row, b, s, new, more, row2)
  BY <1>1, <1>8, <1>11, <1>12, Remaking
<1>14. PICK n1, n2 : n1 = New(1) /\ n2 = New(2)
  OBVIOUS
<1>15. /\ Grown(actors, SELF, more) /\ IsSeq(more) /\ DOMAIN actors \subseteq DOMAIN more
       /\ more[SELF].beh = b /\ more[SELF].mine = s
       /\ \A a \in DOMAIN actors : a # SELF => more[a] = actors[a]
       /\ DOMAIN row2 = DOMAIN more /\ \A a \in DOMAIN actors : row2[a] = row[a]
       /\ n1 \in DOMAIN more /\ n1 \notin DOMAIN actors /\ more[n1].beh = "pair_map_beh" /\ more[n1].mine = k /\ row2[n1] = n1
       /\ n2 \in DOMAIN more /\ n2 \notin DOMAIN actors /\ more[n2].beh = "fork_beh" /\ more[n2].mine = s2 /\ row2[n2] = n2
       /\ \A a \in DOMAIN more : a \notin DOMAIN actors => a = n1 \/ a = n2
  BY <1>11, <1>13, <1>14 DEF Remade
<1>16. n1 < n2 /\ (\A a \in DOMAIN actors : a < n1 /\ a < n2)
  BY <1>6, <1>14 DEF New
<1>17. Newly(actors, more) = {n1, n2}
  BY <1>15 DEF Newly, OpenBehs, BothBehs
<1>18. /\ Cust(more, k) /\ Sinks(more)
       /\ \A v : IsValue(actors, v) => IsValue(more, v)
       /\ \A v : IsIn(actors, HeadBehs, v) => IsIn(more, HeadBehs, v)
  BY <1>3, <1>15, BothKept, KindsStay
<1>19. more[k].beh \notin MapBehs
  BY <1>18, CustNoMap DEF Cust, Sinks
<1>20. s2.cust = n1 /\ s2.head = MINE.comb /\ s2.tail = SELF /\ s.comb = MINE.comb /\ s.env = MINE.env
  BY <1>7, <1>14
<1>21. IsIn(more, MapBehs, SELF) /\ SELF \in DOMAIN more /\ row2[SELF] = SELF
  BY <1>3, <1>7, <1>15 DEF IsIn, MapBehs
<1>22. Keeps(more, n1) = {k} \ {a_sink}
  BY <1>15, DirectIs DEF Keeps, Rest
<1>23. Keeps(more, n2) = {n1, SELF}
  <2>1. Direct("fork_beh", s2) = {n1}
    BY <1>20 DEF Direct
  <2>2. Rest(more, "fork_beh", s2) = {SELF}
    BY <1>20, <1>21 DEF Rest
  <2>3. n1 # a_sink
    BY <1>6, <1>15
  <2> QED
    BY <1>15, <2>1, <2>2, <2>3 DEF Keeps
<1>24. Keeps(more, SELF) = {}
  BY <1>7, <1>15 DEF Keeps, Direct, Rest, WithCust, PlainArgsBehs, BrandBehs, PairBehs, JoinBehs
<1>25. StateOK(more, row2, n1, "pair_map_beh", k) /\ "pair_map_beh" \in Kinds
  <2>1. CustomerOK(more, "pair_map_beh", k)
    BY <1>18 DEF CustomerOK, WithCust, PlainArgsBehs, BrandBehs, PairBehs
  <2> QED
    BY <1>15, <2>1, CustomerState DEF PlainCusts, BothBehs
<1>26. StateOK(more, row2, n2, "fork_beh", s2) /\ "fork_beh" \in Kinds
  <2>1. CustomerOK(more, "fork_beh", s2)
    BY DEF CustomerOK, WithCust, PlainArgsBehs, BrandBehs, PairBehs
  <2>2. IsIn(more, BothBehs, s2.cust) /\ IsValue(more, s2.head) /\ IsIn(more, MapBehs, s2.tail)
    BY <1>5, <1>15, <1>18, <1>20, <1>21 DEF IsIn, BothBehs
  <2>3. ForkJoinOK(more, n2, "fork_beh", s2)
    BY <2>2 DEF ForkJoinOK, JoinBehs
  <2>4. MapOK(more, row2, n2, "fork_beh", s2)
    BY <1>15 DEF MapOK, HeadBehs
  <2>5. ObjectOK(more, "fork_beh", s2)
    BY DEF ObjectOK
  <2> QED
    BY <2>1, <2>3, <2>4, <2>5 DEF StateOK, Kinds, OpenBehs
<1>27. StateOK(more, row2, SELF, b, s) /\ b \in Kinds
  <2>1. IsValue(more, s.comb) /\ IsValue(more, s.env)
    BY <1>5, <1>18, <1>20
  <2>2. CustomerOK(more, "map_tail_beh", s)
    BY <2>1 DEF CustomerOK, WithCust, PlainArgsBehs, BrandBehs, PairBehs
  <2>3. ForkJoinOK(more, SELF, "map_tail_beh", s)
    BY DEF ForkJoinOK, JoinBehs
  <2>4. MapOK(more, row2, SELF, "map_tail_beh", s)
    BY <1>21, <2>1 DEF MapOK, HeadBehs
  <2>5. ObjectOK(more, "map_tail_beh", s)
    BY DEF ObjectOK
  <2> QED
    BY <1>7, <2>2, <2>3, <2>4, <2>5 DEF StateOK, Kinds, OpenBehs, MapBehs
<1>28. StatesDone(actors, more, row2)
  <2>1. ASSUME NEW a \in DOMAIN more, a \notin DOMAIN actors \/ more[a] # actors[a]
        PROVE  /\ more[a].beh \in Kinds
               /\ StateOK(more, row2, a, more[a].beh, more[a].mine)
               /\ \A x \in Keeps(more, a) : x < a \/ more[a].beh \in MapBehs
    <3>1. a \in {n1, n2, SELF}
      BY <1>15, <2>1
    <3>2. CASE a = n1
      BY <1>6, <1>15, <1>16, <1>22, <1>25, <3>2
    <3>3. CASE a = n2
      BY <1>3, <1>15, <1>16, <1>23, <1>26, <3>3
    <3>4. CASE a = SELF
      BY <1>15, <1>24, <1>27, <3>4
    <3> QED
      BY <3>1, <3>2, <3>3, <3>4
  <2> QED
    BY <2>1 DEF StatesDone
<1>29. MessageOK(more, row2, m) /\ Held(more, row2, m) = {n2}
  <2>1. m.to = n2 /\ m.what = w /\ w.op = "fork" /\ w.h_req = Comb(NIL, WHAT.val, MINE.env)
        /\ w.t_req = [op |-> "heads", cust |-> NIL, heads |-> MINE.heads]
    BY <1>7, <1>14 DEF Message, ForkRequest
  <2>2. "fork_beh" \notin ObjectBehs \cup {"sink_beh", "pair_copy_beh", "pair_map_beh"} \cup ValueBehs \cup PairBehs
           \cup JoinBehs \cup {"map_unwrap_beh", "map_comb_beh", "map_next_beh", "map_tail_beh"} \cup HeadBehs \cup ArgsBehs
    BY DEF ObjectBehs, Immutable, Mutable, PairBehs, JoinBehs, ValueBehs, ArgsBehs, PlainArgsBehs, BrandBehs, HeadBehs
  <2>3. CombOf(more, w.h_req, NIL)
    BY <1>5, <1>18, <2>1 DEF CombOf, Comb
  <2>4. w.t_req = Heads(NIL, w.t_req.heads) /\ w.t_req.heads = MINE.heads
    BY <2>1 DEF Heads
  <2>5. IsIn(more, HeadBehs, MINE.heads) /\ row2[MINE.heads] = SELF
    BY <1>5, <1>15, <1>18 DEF IsIn
  <2>6. ForkOK(more, row2, n2, w)
    <3>1. ~IsIn(more, {"pair_copy_beh"}, s2.cust)
      BY <1>15, <1>20 DEF IsIn
    <3>2. more[n2].mine = s2 /\ IsIn(more, MapBehs, s2.tail) /\ s2.tail = SELF
      BY <1>15, <1>20, <1>21
    <3> QED
      BY <2>1, <2>3, <2>4, <2>5, <3>1, <3>2 DEF ForkOK
  <2>7. SentOK(more, row2, n2, w)
    BY <1>15, <2>2, <2>6 DEF SentOK, HeadBehs
  <2> QED
    BY <1>15, <2>1, <2>2, <2>7 DEF MessageOK, Held, Answers, Serves, Requests
<1>30. PICK F, hands, rights, kept :
         F = {} /\ hands = {n1, n2, SELF} /\ kept = {k} \ {a_sink} /\ rights = {SELF} \cup kept \cup {n1, n2}
  OBVIOUS
<1>31. hands = Newly(actors, more) \cup (({SELF} \ F) \cap open)
  BY <1>3, <1>17, <1>30
<1>32. rights = (InHand(actors, row, queue[1]) \ F) \cup Newly(actors, more)
  BY <1>3, <1>17, <1>30
<1>33. n1 # n2 /\ n1 # SELF /\ n2 # SELF /\ n1 \notin kept /\ n2 \notin kept /\ SELF \notin kept
  BY <1>3, <1>6, <1>15, <1>30
<1>34. Keeps(more, n1) = kept /\ Keeps(more, n2) = {n1, SELF} /\ Keeps(more, SELF) = {}
  BY <1>22, <1>23, <1>24, <1>30
<1>35. \A i \in DOMAIN sent : sent[i] = m /\ Held(more, row2, sent[i]) = {n2}
  BY <1>11, <1>29
<1>36. Handed(more, row2, sent, hands, rights)
  <2>1. \A a \in hands : Keeps(more, a) \subseteq rights /\ n2 \notin Keeps(more, a)
    BY <1>30, <1>33, <1>34
  <2>2. \A a, c \in hands : a # c => Keeps(more, a) \cap Keeps(more, c) = {}
    BY <1>30, <1>33, <1>34
  <2>3. \A i \in DOMAIN sent : Held(more, row2, sent[i]) \subseteq rights
    BY <1>30, <1>35
  <2>4. \A i, j \in DOMAIN sent : i # j => Held(more, row2, sent[i]) \cap Held(more, row2, sent[j]) = {}
    BY <1>11
  <2> QED
    BY <1>35, <2>1, <2>2, <2>3, <2>4 DEF Handed
<1>37. PassedOn(more, row2, sent, hands, rights)
  <2>1. n2 \in Held(more, row2, sent[1]) /\ 1 \in DOMAIN sent
    BY <1>11, <1>35
  <2>2. n1 \in Keeps(more, n2) /\ SELF \in Keeps(more, n2) /\ n2 \in hands /\ n1 \in hands /\ \A x \in kept : x \in Keeps(more, n1)
    BY <1>30, <1>34
  <2> QED
    BY <1>30, <2>1, <2>2 DEF PassedOn
<1>38. OnceMore(actors, SELF, more, row2, sent, hands)
  BY <1>7, <1>15 DEF OnceMore, OneShot
<1>39. Busy(more, row2, SELF) = {}
  <2>1. ASSUME NEW y \in DOMAIN more, more[y].beh = "map_pair_beh", row2[y] = SELF
        PROVE  FALSE
    <3>1. y \in DOMAIN actors /\ y # SELF
      BY <1>7, <1>15, <2>1
    <3>2. actors[y].beh = "map_pair_beh" /\ row[y] = SELF
      BY <1>15, <2>1, <3>1
    <3> QED
      BY <1>3, <3>1, <3>2 DEF Busy
  <2> QED
    BY <2>1 DEF Busy
<1>40. /\ \A i \in DOMAIN sent : MessageOK(more, row2, sent[i])
       /\ \A i \in DOMAIN sent : \A x \in Held(more, row2, sent[i]) :
            more[x].beh \in MapBehs => RowOK(more, row2, sent[i], x)
  BY <1>15, <1>29, <1>35 DEF MapBehs
<1>41. \A a \in hands : \A x \in Keeps(more, a) :
            more[x].beh \in MapBehs => more[x].beh = "map_tail_beh" /\ Busy(more, row2, x) = {}
  <2>1. more[n1].beh \notin MapBehs
    BY <1>15 DEF MapBehs
  <2> QED
    BY <1>7, <1>15, <1>19, <1>30, <1>34, <1>39, <2>1
<1>42. /\ actors[SELF].beh \notin JoinBehs \cup {"tag_beh", "fork_beh", "throw_beh"}
       /\ more[SELF].beh \notin JoinBehs \cup {"report_beh", "abort_beh"}
       /\ \A a \in DOMAIN more :
            a \notin DOMAIN actors => more[a].beh \notin {"throw_beh", "tag_beh", "map_pair_beh"} \cup JoinBehs
  BY <1>1, <1>7, <1>15 DEF JoinBehs
<1>43. F \subseteq {SELF}
  BY <1>30
<1>44. Carries(open, row, more, row2, sent, tokens, F, hands, rights)
  BY <1>1, <1>11, <1>15, <1>28, <1>31, <1>32, <1>36, <1>37, <1>38, <1>40, <1>41, <1>42, <1>43 DEF Carries
<1> QED
  BY <1>10, <1>44, CarriesStep

LEMMA MapComb ==
  ASSUME NEW open, NEW row, Invariant(open, row), map_comb_beh
  PROVE  Onward
<1>1. Runs(open, row) /\ actors[SELF].beh = "map_comb_beh"
  BY Behaving DEF map_comb_beh
<1>2. PICK k : k = MINE.cust
  OBVIOUS
<1>3. Due(open, row, k) /\ Cust(actors, k)
  BY <1>1, <1>2, GoingOn
<1>4. CASE MINE.env \notin DOMAIN actors
  <2>1. Throw
    BY <1>4 DEF map_comb_beh
  <2> QED
    BY <1>1, <1>3, <2>1, Throws DEF Due
<1>5. CASE MINE.env \in DOMAIN actors /\ WHAT.val = a_nil
  <2>1. Send(k, Value(a_nil))
    BY <1>2, <1>5 DEF map_comb_beh
  <2>2. IsValue(actors, a_nil)
    BY <1>1, ConstantsAre
  <2> QED
    BY <1>3, <2>1, <2>2, RepliesAre
<1> QED
  BY <1>4, <1>5, MapCombRow

-----------------------------------------------------------------------------
(* Forks and joins.                                                        *)

(* A fork becomes a join that has two tags, ...                            *)
Forked(row, c, n1, n2, more, row2) ==
  /\ Grown(actors, SELF, more) /\ IsSeq(more) /\ DOMAIN actors \subseteq DOMAIN more
  /\ more[SELF].beh = "join_beh" /\ more[SELF].mine = [cust |-> c, k_first |-> n1, k_rest |-> n2]
  /\ \A a \in DOMAIN actors : a # SELF => more[a] = actors[a]
  /\ DOMAIN row2 = DOMAIN more /\ \A a \in DOMAIN actors : row2[a] = row[a]
  /\ n1 \in DOMAIN more /\ n1 \notin DOMAIN actors /\ more[n1].beh = "tag_beh" /\ more[n1].mine = SELF /\ row2[n1] = n1
  /\ n2 \in DOMAIN more /\ n2 \notin DOMAIN actors /\ more[n2].beh = "tag_beh" /\ more[n2].mine = SELF /\ row2[n2] = n2
  /\ n1 # n2 /\ \A a \in DOMAIN actors : a < n1 /\ a < n2
  /\ \A a \in DOMAIN more : a \notin DOMAIN actors => a = n1 \/ a = n2

LEMMA Forking ==
  ASSUME NEW open, NEW row, Invariant(open, row), fork_beh
  PROVE  \E n1, n2, more, row2, sent :
           /\ Forked(row, MINE.cust, n1, n2, more, row2) /\ Handle(more, sent, << >>)
           /\ sent = <<Message(MINE.head, For(n1, WHAT.h_req)), Message(MINE.tail, For(n2, WHAT.t_req))>>
<1>1. Runs(open, row) /\ actors[SELF].beh = "fork_beh"
  BY Behaving DEF fork_beh
<1>2. IsSeq(actors) /\ SELF \in DOMAIN actors /\ DOMAIN actors = 1 .. Len(actors) /\ Len(actors) \in Nat
  BY <1>1, Running, LengthIs
<1>3. PICK b, s, n1, n2, sent :
        /\ b = "join_beh" /\ n1 = New(1) /\ n2 = New(2)
        /\ s = [cust |-> MINE.cust, k_first |-> n1, k_rest |-> n2]
        /\ sent = <<Message(MINE.head, For(n1, WHAT.h_req)), Message(MINE.tail, For(n2, WHAT.t_req))>>
  OBVIOUS
<1>4. PICK new, more, row2 :
        /\ new = <<Actor("tag_beh", SELF), Actor("tag_beh", SELF)>>
        /\ more = Changed(SELF, b, s) \o new /\ row2 = Extended(row, actors, more)
  OBVIOUS
<1>5. Handle(more, sent, << >>)
  BY <1>3, <1>4 DEF fork_beh, Asks
<1>6. /\ IsSeq(new) /\ DOMAIN new = {1, 2} /\ new[1].beh = "tag_beh" /\ new[1].mine = SELF
      /\ new[2].beh = "tag_beh" /\ new[2].mine = SELF
  BY <1>4, OneSent DEF Actor
<1>7. Turned(actors[SELF], Actor(b, s))
  BY <1>1, <1>3 DEF Turned, Turning, Mutable, JoinBehs, MapBehs, HeadBehs, Actor
<1>8. Remade(row, b, s, new, more, row2)
  BY <1>1, <1>4, <1>6, <1>7, Remaking
<1>9. n1 # n2 /\ \A a \in DOMAIN actors : a < n1 /\ a < n2
  BY <1>2, <1>3 DEF New
<1>10. Forked(row, MINE.cust, n1, n2, more, row2)
  <2>1. /\ Grown(actors, SELF, more) /\ IsSeq(more) /\ DOMAIN actors \subseteq DOMAIN more
        /\ more[SELF].beh = "join_beh" /\ more[SELF].mine = [cust |-> MINE.cust, k_first |-> n1, k_rest |-> n2]
        /\ \A a \in DOMAIN actors : a # SELF => more[a] = actors[a]
        /\ DOMAIN row2 = DOMAIN more /\ \A a \in DOMAIN actors : row2[a] = row[a]
    BY <1>3, <1>8 DEF Remade
  <2>2. /\ n1 \in DOMAIN more /\ n1 \notin DOMAIN actors /\ more[n1] = new[1] /\ row2[n1] = n1
        /\ n2 \in DOMAIN more /\ n2 \notin DOMAIN actors /\ more[n2] = new[2] /\ row2[n2] = n2
        /\ \A a \in DOMAIN more : a \notin DOMAIN actors => a = n1 \/ a = n2
    BY <1>3, <1>6, <1>8 DEF Remade
  <2> QED
    BY <1>6, <1>9, <2>1, <2>2 DEF Forked
<1> QED
  BY <1>3, <1>5, <1>10

(* ... and sends two messages, in the names of the tags; the second one may *)
(* also be for the customer of a (map ...), R.                             *)
Forks(c, n1, n2, more, row2, R, m1, m2) ==
  /\ MessageOK(more, row2, m1) /\ Held(more, row2, m1) = {n1}
  /\ MessageOK(more, row2, m2) /\ Held(more, row2, m2) = {n2} \cup R
  /\ \A k \in R : k \in DOMAIN actors /\ more[k].beh = "map_tail_beh" /\ RowOK(more, row2, m2, k)

(* What a fork knows.                                                      *)
LEMMA ForkIs ==
  ASSUME NEW open, NEW row, Runs(open, row), actors[SELF].beh = "fork_beh"
  PROVE  /\ ForkOK(actors, row, SELF, WHAT)
         /\ IsIn(actors, BothBehs, MINE.cust) /\ MINE.cust # a_sink /\ MINE.cust < SELF /\ row[SELF] = SELF
         /\ IsValue(actors, MINE.head)
         /\ SELF \in open /\ Held(actors, row, queue[1]) = {SELF}
         /\ Keeps(actors, SELF) = {MINE.cust} \cup Rest(actors, "fork_beh", MINE)
         /\ a_sink \in DOMAIN actors /\ actors[a_sink].beh = "sink_beh"
<1>1. /\ SELF \in DOMAIN actors /\ IsSeq(actors) /\ a_sink \in DOMAIN actors /\ actors[a_sink].beh = "sink_beh"
      /\ Orderly(actors, queue, turns, out, aborted, open, row) /\ 1 \in DOMAIN queue
  BY Running DEF Settled
<1>2. SentOK(actors, row, SELF, WHAT) /\ StateOK(actors, row, SELF, "fork_beh", MINE)
      /\ queue[1].what = WHAT /\ queue[1].to = SELF
  BY Handles
<1>3. ForkOK(actors, row, SELF, WHAT)
  BY <1>2 DEF SentOK
<1>4. WHAT.op = "fork"
  BY <1>3 DEF ForkOK
<1>5. IsIn(actors, BothBehs, MINE.cust) /\ IsValue(actors, MINE.head)
  BY <1>2 DEF StateOK, ForkJoinOK
<1>6. row[SELF] = SELF
  BY <1>1, RowOfSame DEF HeadBehs
<1>7. MINE.cust # a_sink
  BY <1>1, <1>5 DEF IsIn, BothBehs
<1>8. Held(actors, row, queue[1]) = {SELF}
  BY <1>1, <1>2, <1>4, <1>6 DEF Held, Answers, Serves, Requests, ObjectBehs, Immutable, Mutable
<1>9. SELF \in open
  <2>1. Unshared(actors, queue, open, row)
    BY <1>1 DEF Orderly
  <2> QED
    BY <1>1, <1>8, <2>1 DEF Unshared
<1>10. Keeps(actors, SELF) = {MINE.cust} \cup Rest(actors, "fork_beh", MINE)
  <2>1. Direct("fork_beh", MINE) = {MINE.cust}
    BY DEF Direct
  <2>2. Keeps(actors, SELF) = (Direct("fork_beh", MINE) \ {a_sink}) \cup Rest(actors, "fork_beh", MINE)
    BY DEF Keeps, MINE
  <2> QED
    BY <1>7, <2>1, <2>2
<1>11. MINE.cust < SELF
  <2>1. \A k \in Keeps(actors, SELF) : k < SELF \/ actors[SELF].beh \in MapBehs
    BY Handles
  <2> QED
    BY <1>10, <2>1 DEF MapBehs
<1> QED
  BY <1>1, <1>3, <1>5, <1>6, <1>7, <1>8, <1>9, <1>10, <1>11

LEMMA ForkAsks ==
  ASSUME NEW open, NEW row, Runs(open, row), actors[SELF].beh = "fork_beh",
         NEW n1, NEW n2, NEW more, NEW row2, Forked(row, MINE.cust, n1, n2, more, row2),
         NEW m1, m1 = Message(MINE.head, For(n1, WHAT.h_req)), NEW m2, m2 = Message(MINE.tail, For(n2, WHAT.t_req)),
         NEW R, R = Rest(actors, "fork_beh", MINE)
  PROVE  Forks(MINE.cust, n1, n2, more, row2, R, m1, m2)
<1>1. PICK c, head, tail, h_req, t_req :
        c = MINE.cust /\ head = MINE.head /\ tail = MINE.tail /\ h_req = WHAT.h_req /\ t_req = WHAT.t_req
  OBVIOUS
<1>2. /\ ForkOK(actors, row, SELF, WHAT) /\ IsIn(actors, BothBehs, c) /\ c # a_sink /\ c < SELF
      /\ IsValue(actors, head) /\ SELF \in open /\ Keeps(actors, SELF) = {c} \cup R
      /\ a_sink \in DOMAIN actors /\ actors[a_sink].beh = "sink_beh"
  BY <1>1, ForkIs
<1>3. SELF \in DOMAIN actors /\ IsSeq(actors) /\ Orderly(actors, queue, turns, out, aborted, open, row)
      /\ Tagging(actors)
  BY Running
<1>4. /\ Grown(actors, SELF, more) /\ IsSeq(more) /\ DOMAIN actors \subseteq DOMAIN more
      /\ more[SELF].beh = "join_beh" /\ more[SELF].mine = [cust |-> c, k_first |-> n1, k_rest |-> n2]
      /\ \A a \in DOMAIN actors : a # SELF => more[a] = actors[a]
      /\ DOMAIN row2 = DOMAIN more /\ \A a \in DOMAIN actors : row2[a] = row[a]
      /\ n1 \in DOMAIN more /\ n1 \notin DOMAIN actors /\ more[n1].beh = "tag_beh" /\ more[n1].mine = SELF /\ row2[n1] = n1
      /\ n2 \in DOMAIN more /\ n2 \notin DOMAIN actors /\ more[n2].beh = "tag_beh" /\ more[n2].mine = SELF /\ row2[n2] = n2
      /\ \A a \in DOMAIN more : a \notin DOMAIN actors => a = n1 \/ a = n2
  BY <1>1 DEF Forked
<1>5. n1 # a_sink /\ n2 # a_sink /\ more[SELF].mine.cust = c
  BY <1>2, <1>4
<1>6. AnyCust(more, n1) /\ AnyCust(more, n2)
  BY <1>4 DEF AnyCust, IsIn, ValueBehs
<1>7. ~IsIn(actors, {"pair_copy_beh"}, c) => Cust(more, n1) /\ Cust(more, n2)
  <2>1. ~IsIn(actors, {"pair_copy_beh"}, c) => ~IsIn(more, {"pair_copy_beh"}, c)
    <3>1. c \in DOMAIN actors /\ more[c] = actors[c]
      BY <1>2, <1>3, <1>4, ForkIs DEF IsIn, BothBehs
    <3> QED
      BY <3>1 DEF IsIn
  <2>2. ~IsIn(more, {"pair_copy_beh"}, c) => ~WaitsForCopy(more, n1) /\ ~WaitsForCopy(more, n2)
    <3>1. ASSUME NEW n \in {n1, n2}, WaitsForCopy(more, n)
          PROVE  IsIn(more, {"pair_copy_beh"}, c)
      BY <1>4, <1>5, <3>1 DEF WaitsForCopy, IsIn
    <3> QED
      BY <3>1
  <2> QED
    BY <1>6, <2>1, <2>2 DEF Cust
<1>8. \A v : /\ IsValue(actors, v) => IsValue(more, v)
             /\ IsIn(actors, HeadBehs, v) => IsIn(more, HeadBehs, v)
  BY <1>4, ValuesStay, KindsStay
<1>9. m1 = Message(head, For(n1, h_req)) /\ m2 = Message(tail, For(n2, t_req))
  BY <1>1
<1>10. WHAT.op = "fork"
       /\ (IsIn(actors, {"pair_copy_beh"}, c) => h_req = Request("copy_immutable", NIL) /\ t_req = Request("copy_immutable", NIL))
  <2>1. MINE.cust = c /\ actors[SELF].mine = MINE
    BY <1>1 DEF MINE
  <2> QED
    BY <1>1, <1>2, <2>1 DEF ForkOK
<1>11. R = IF IsIn(actors, MapBehs, tail) THEN {tail} ELSE {}
  <2>1. Rest(actors, "fork_beh", MINE) = IF IsIn(actors, MapBehs, MINE.tail) THEN {MINE.tail} ELSE {}
    BY DEF Rest
  <2> QED
    BY <1>1, <2>1
<1>12. IsValue(actors, tail) => R = {}
  <2>1. NIL \notin DOMAIN actors /\ NotActor \notin DOMAIN actors
    BY <1>3, LengthIs DEF NIL, NotActor
  <2>2. ObjectBehs \cap MapBehs = {}
    BY DEF ObjectBehs, Immutable, Mutable, MapBehs
  <2> QED
    BY <1>11, <2>1, <2>2 DEF IsValue, IsIn
<1>13. ASSUME NEW x, IsValue(actors, x), NEW w, RequestOK(more, x, w), NEW n \in {n1, n2}, w.cust = n,
              NEW m, m = Message(x, w)
       PROVE  MessageOK(more, row2, m) /\ Held(more, row2, m) = {n}
  <2>1. Fits(more, row2, m, row2[w.cust])
    BY <1>4, <1>8, <1>13, RequestFits
  <2> QED
    BY <1>4, <1>5, <1>13, <2>1 DEF Fits
<1>14. CASE h_req = Request("copy_immutable", NIL) /\ t_req = Request("copy_immutable", NIL) /\ IsValue(actors, tail)
  <2>1. For(n1, h_req) = Request("copy_immutable", n1) /\ For(n2, t_req) = Request("copy_immutable", n2)
    BY <1>14 DEF For, Request
  <2>2. RequestOK(more, head, Request("copy_immutable", n1)) /\ RequestOK(more, tail, Request("copy_immutable", n2))
    BY <1>2, <1>4, <1>6, <1>8, <1>14, CopyIs
  <2>3. Request("copy_immutable", n1).cust = n1 /\ Request("copy_immutable", n2).cust = n2
    BY DEF Request
  <2>4. MessageOK(more, row2, m1) /\ Held(more, row2, m1) = {n1}
    BY <1>2, <1>9, <1>13, <2>1, <2>2, <2>3
  <2>5. MessageOK(more, row2, m2) /\ Held(more, row2, m2) = {n2}
    BY <1>9, <1>13, <1>14, <2>1, <2>2, <2>3
  <2> QED
    BY <1>12, <1>14, <2>4, <2>5 DEF Forks
<1>15. CASE EvalOf(actors, h_req, NIL) /\ MapOf(actors, t_req, NIL) /\ IsValue(actors, tail)
  <2>1. PICK e, e2 : IsValue(actors, e) /\ IsValue(actors, e2) /\ h_req = Eval(NIL, e) /\ t_req = Map(NIL, Eval(NIL, e2))
    BY <1>15 DEF EvalOf, MapOf
  <2>2. For(n1, h_req) = Eval(n1, e) /\ For(n2, t_req) = Map(n2, Eval(NIL, e2))
    BY <2>1 DEF For, Eval, Map
  <2>3. ~IsIn(actors, {"pair_copy_beh"}, c)
    BY <1>10, <2>1 DEF Eval, Request
  <2>4. Cust(more, n1) /\ Cust(more, n2)
    BY <1>7, <2>3
  <2>5. RequestOK(more, head, Eval(n1, e)) /\ RequestOK(more, tail, Map(n2, Eval(NIL, e2)))
    BY <1>2, <1>4, <1>8, <1>15, <2>1, <2>4, RequestsAre
  <2>6. Eval(n1, e).cust = n1 /\ Map(n2, Eval(NIL, e2)).cust = n2
    BY DEF Eval, Map
  <2>7. MessageOK(more, row2, m1) /\ Held(more, row2, m1) = {n1}
    BY <1>2, <1>9, <1>13, <2>2, <2>5, <2>6
  <2>8. MessageOK(more, row2, m2) /\ Held(more, row2, m2) = {n2}
    BY <1>9, <1>13, <1>15, <2>2, <2>5, <2>6
  <2> QED
    BY <1>12, <1>15, <2>7, <2>8 DEF Forks
<1>16. CASE /\ CombOf(actors, h_req, NIL) /\ t_req = Heads(NIL, t_req.heads) /\ IsIn(actors, HeadBehs, t_req.heads)
            /\ IsIn(actors, MapBehs, tail) /\ row[t_req.heads] = tail
  <2>1. PICK o, e, x : /\ IsValue(actors, o) /\ IsValue(actors, e) /\ h_req = Comb(NIL, o, e)
                       /\ x = t_req.heads /\ t_req = Heads(NIL, x)
    BY <1>16 DEF CombOf
  <2>2. For(n1, h_req) = Comb(n1, o, e) /\ For(n2, t_req) = Heads(n2, x)
    BY <2>1 DEF For, Comb, Heads
  <2>3. ~IsIn(actors, {"pair_copy_beh"}, c)
    BY <1>10, <2>1 DEF Comb, Request
  <2>4. Cust(more, n1) /\ Cust(more, n2)
    BY <1>7, <2>3
  <2>5. RequestOK(more, head, Comb(n1, o, e)) /\ Comb(n1, o, e).cust = n1
    BY <1>2, <1>4, <1>8, <2>1, <2>4, RequestsAre DEF Comb
  <2>6. MessageOK(more, row2, m1) /\ Held(more, row2, m1) = {n1}
    BY <1>2, <1>9, <1>13, <2>2, <2>5
  <2>7. R = {tail} /\ tail \in Keeps(actors, SELF) /\ tail \in DOMAIN actors /\ actors[tail].beh \in MapBehs
    BY <1>2, <1>11, <1>16 DEF IsIn
  <2>8. actors[tail].beh = "map_tail_beh" /\ Busy(actors, row, tail) = {}
    <3>1. Rows(actors, queue, open, row)
      BY <1>3 DEF Orderly
    <3> QED
      BY <1>2, <2>7, <3>1 DEF Rows
  <2>9. tail # SELF /\ more[tail] = actors[tail] /\ tail \in DOMAIN more /\ row2[tail] = tail
    <3>1. row[tail] = tail
      BY <2>7, <2>8, RowOfSame DEF HeadBehs
    <3> QED
      BY <1>4, <2>7, <2>8, <3>1
  <2>10. m2.to = tail /\ m2.what = Heads(n2, x) /\ m2.what.op = "heads" /\ m2.what.cust = n2 /\ m2.what.heads = x
    BY <1>9, <2>2 DEF Message, Heads
  <2>11. IsIn(more, HeadBehs, x) /\ row2[x] = tail
    <3>1. IsIn(actors, HeadBehs, x) /\ row[x] = tail
      BY <1>16, <2>1
    <3> QED
      BY <1>4, <1>8, <3>1 DEF IsIn
  <2>12. SentOK(more, row2, tail, m2.what)
    <3>1. "map_tail_beh" \notin ObjectBehs \cup {"sink_beh", "pair_copy_beh", "pair_map_beh", "fork_beh"} \cup ValueBehs
            \cup PairBehs \cup JoinBehs \cup {"map_unwrap_beh", "map_comb_beh", "map_next_beh"} \cup HeadBehs \cup ArgsBehs
      BY DEF ObjectBehs, Immutable, Mutable, PairBehs, JoinBehs, ValueBehs, ArgsBehs, PlainArgsBehs, BrandBehs, HeadBehs
    <3> QED
      BY <2>4, <2>8, <2>9, <2>10, <2>11, <3>1 DEF SentOK, HeadBehs
  <2>13. MessageOK(more, row2, m2)
    BY <2>9, <2>10, <2>12 DEF MessageOK
  <2>14. Held(more, row2, m2) = {n2} \cup R
    <3>1. Answers(more, row2, m2) = {tail}
      BY <2>8, <2>9, <2>10 DEF Answers, ObjectBehs, Immutable, Mutable
    <3>2. Serves(row2, m2) = {n2}
      BY <1>4, <1>5, <2>10 DEF Serves
    <3> QED
      BY <2>7, <3>1, <3>2 DEF Held
  <2>15. Busy(more, row2, tail) = {}
    <3>1. ASSUME NEW y \in DOMAIN more, more[y].beh = "map_pair_beh", row2[y] = tail
          PROVE  FALSE
      <4>1. y \in DOMAIN actors /\ y # SELF
        BY <1>4, <3>1
      <4> QED
        BY <1>4, <2>8, <3>1, <4>1 DEF Busy
    <3> QED
      BY <3>1 DEF Busy
  <2>16. RowOK(more, row2, m2, tail)
    BY <2>10, <2>15 DEF RowOK
  <2> QED
    BY <2>6, <2>7, <2>8, <2>9, <2>13, <2>14, <2>16 DEF Forks
<1> QED
  <2>1. MINE.tail = tail /\ actors[SELF].mine = MINE
    BY <1>1 DEF MINE
  <2>2. \/ h_req = Request("copy_immutable", NIL) /\ t_req = Request("copy_immutable", NIL) /\ IsValue(actors, tail)
        \/ EvalOf(actors, h_req, NIL) /\ MapOf(actors, t_req, NIL) /\ IsValue(actors, tail)
        \/ /\ CombOf(actors, h_req, NIL) /\ t_req = Heads(NIL, t_req.heads) /\ IsIn(actors, HeadBehs, t_req.heads)
           /\ IsIn(actors, MapBehs, tail) /\ row[t_req.heads] = tail
    BY <1>1, <1>2, <2>1 DEF ForkOK
  <2> QED
    BY <1>14, <1>15, <1>16, <2>2

LEMMA ForkBeh ==
  ASSUME NEW open, NEW row, Invariant(open, row), fork_beh
  PROVE  Onward
<1>1. Runs(open, row) /\ actors[SELF].beh = "fork_beh"
  BY Behaving DEF fork_beh
<1>2. PICK n1, n2, more, row2, sent :
        /\ Forked(row, MINE.cust, n1, n2, more, row2) /\ Handle(more, sent, << >>)
        /\ sent = <<Message(MINE.head, For(n1, WHAT.h_req)), Message(MINE.tail, For(n2, WHAT.t_req))>>
  BY Forking
<1>3. PICK c, me, m1, m2, R, s, tokens :
        /\ c = MINE.cust /\ me = SELF /\ m1 = sent[1] /\ m2 = sent[2] /\ R = Rest(actors, "fork_beh", MINE)
        /\ s = [cust |-> c, k_first |-> n1, k_rest |-> n2] /\ tokens = << >>
  OBVIOUS
<1>4. /\ IsSeq(sent) /\ DOMAIN sent = {1, 2} /\ IsSeq(tokens) /\ sent[1] = m1 /\ sent[2] = m2
      /\ m1 = Message(MINE.head, For(n1, WHAT.h_req)) /\ m2 = Message(MINE.tail, For(n2, WHAT.t_req))
  BY <1>2, <1>3, OneSent
<1>5. /\ Grown(actors, me, more) /\ IsSeq(more) /\ DOMAIN actors \subseteq DOMAIN more
      /\ more[me].beh = "join_beh" /\ more[me].mine = s
      /\ \A a \in DOMAIN actors : a # me => more[a] = actors[a]
      /\ DOMAIN row2 = DOMAIN more /\ \A a \in DOMAIN actors : row2[a] = row[a]
      /\ n1 \in DOMAIN more /\ n1 \notin DOMAIN actors /\ more[n1].beh = "tag_beh" /\ more[n1].mine = me /\ row2[n1] = n1
      /\ n2 \in DOMAIN more /\ n2 \notin DOMAIN actors /\ more[n2].beh = "tag_beh" /\ more[n2].mine = me /\ row2[n2] = n2
      /\ n1 # n2 /\ (\A a \in DOMAIN actors : a < n1 /\ a < n2)
      /\ \A a \in DOMAIN more : a \notin DOMAIN actors => a = n1 \/ a = n2
  BY <1>2, <1>3 DEF Forked
<1>6. /\ IsIn(actors, BothBehs, c) /\ c # a_sink /\ c < me /\ row[me] = me
      /\ me \in open /\ Held(actors, row, queue[1]) = {me} /\ Keeps(actors, me) = {c} \cup R
      /\ WHAT.op = "fork" /\ me \in DOMAIN actors /\ queue[1].to = me /\ queue[1].what = WHAT
      /\ open \subseteq DOMAIN actors /\ Tagging(actors) /\ actors[me].beh = "fork_beh"
  BY <1>1, <1>3, ForkIs, Handles, Running DEF ForkOK
<1>7. Forks(c, n1, n2, more, row2, R, m1, m2)
  BY <1>1, <1>2, <1>3, <1>4, ForkAsks
<1>8. /\ MessageOK(more, row2, m1) /\ Held(more, row2, m1) = {n1}
      /\ MessageOK(more, row2, m2) /\ Held(more, row2, m2) = {n2} \cup R
      /\ \A k \in R : k \in DOMAIN actors /\ more[k].beh = "map_tail_beh" /\ RowOK(more, row2, m2, k)
  BY <1>7 DEF Forks
<1>9. s.cust = c /\ s.k_first = n1 /\ s.k_rest = n2
  BY <1>3
<1>10. c \in DOMAIN actors /\ actors[c].beh \in BothBehs /\ c # me /\ more[c] = actors[c] /\ IsIn(more, BothBehs, c)
       /\ c \notin R /\ n1 \notin R /\ n2 \notin R /\ c # n1 /\ c # n2 /\ me # n1 /\ me # n2
  <2>1. c \in DOMAIN actors /\ actors[c].beh \in BothBehs
    BY <1>6 DEF IsIn
  <2>2. c # me
    BY <1>6, <2>1 DEF BothBehs
  <2>3. more[c] = actors[c]
    BY <1>5, <2>1, <2>2
  <2> QED
    BY <1>5, <1>6, <1>8, <2>1, <2>2, <2>3 DEF IsIn, BothBehs
<1>11. Newly(actors, more) = {n1, n2}
  BY <1>5 DEF Newly, OpenBehs, ValueBehs
<1>12. PICK F, open2, hands, rights : F = {} /\ open2 = open \cup {n1, n2} /\ hands = {me, n1, n2}
                                     /\ rights = {me, c, n1, n2} \cup R
  OBVIOUS
<1>13. open2 = Later(actors, open, more, F)
  BY <1>11, <1>12 DEF Later
<1>14. hands = Hands(actors, SELF, open2)
  BY <1>3, <1>5, <1>6, <1>12 DEF Hands
<1>15. rights = Rights(actors, row, queue[1], more, F)
  <2>1. InHand(actors, row, queue[1]) = {me, c} \cup R
    BY <1>6 DEF InHand
  <2> QED
    BY <1>11, <1>12, <2>1 DEF Rights
<1>16. Finishes(queue[1], F)
  BY <1>6, <1>12 DEF Finishes
<1>17. Keeps(more, me) = {c} /\ Keeps(more, n1) = {} /\ Keeps(more, n2) = {}
  <2>1. Direct("join_beh", s) = {c} /\ Rest(more, "join_beh", s) = {}
    BY <1>9 DEF Direct, JoinBehs, Rest
  <2>2. \A t : Direct("tag_beh", t) = {} /\ Rest(more, "tag_beh", t) = {}
    BY DEF Direct, Rest, WithCust, PlainArgsBehs, BrandBehs, PairBehs, JoinBehs
  <2> QED
    BY <1>5, <1>6, <2>1, <2>2 DEF Keeps
<1>18. StateOK(more, row2, me, "join_beh", s) /\ "join_beh" \in Kinds
  <2>1. ForkJoinOK(more, me, "join_beh", s)
    BY <1>5, <1>9, <1>10 DEF ForkJoinOK, JoinBehs, IsIn
  <2>2. CustomerOK(more, "join_beh", s)
    BY DEF CustomerOK, WithCust, PlainArgsBehs, BrandBehs, PairBehs
  <2>3. MapOK(more, row2, me, "join_beh", s)
    BY <1>5, <1>6 DEF MapOK, HeadBehs
  <2>4. ObjectOK(more, "join_beh", s)
    BY DEF ObjectOK
  <2> QED
    BY <2>1, <2>2, <2>3, <2>4 DEF StateOK, Kinds, OpenBehs, JoinBehs
<1>19. ASSUME NEW n \in {n1, n2}
       PROVE  StateOK(more, row2, n, "tag_beh", me) /\ "tag_beh" \in Kinds
  <2>1. ForkJoinOK(more, n, "tag_beh", me)
    BY <1>5, <1>6 DEF ForkJoinOK, JoinBehs, IsIn
  <2>2. CustomerOK(more, "tag_beh", me)
    BY DEF CustomerOK, WithCust, PlainArgsBehs, BrandBehs, PairBehs
  <2>3. MapOK(more, row2, n, "tag_beh", me)
    BY <1>5 DEF MapOK, HeadBehs
  <2>4. ObjectOK(more, "tag_beh", me)
    BY DEF ObjectOK
  <2> QED
    BY <2>1, <2>2, <2>3, <2>4 DEF StateOK, Kinds, OpenBehs, ValueBehs
<1>20. StatesDone(actors, more, row2)
  <2>1. ASSUME NEW a \in DOMAIN more, a \notin DOMAIN actors \/ more[a] # actors[a]
        PROVE  /\ more[a].beh \in Kinds
               /\ StateOK(more, row2, a, more[a].beh, more[a].mine)
               /\ \A x \in Keeps(more, a) : x < a \/ more[a].beh \in MapBehs
    <3>1. a \in {me, n1, n2}
      BY <1>5, <2>1
    <3>2. CASE a = me
      BY <1>5, <1>6, <1>17, <1>18, <3>2
    <3>3. CASE a \in {n1, n2}
      BY <1>5, <1>17, <1>19, <3>3
    <3> QED
      BY <3>1, <3>2, <3>3
  <2> QED
    BY <2>1 DEF StatesDone
<1>21. Handed(more, row2, sent, hands, rights)
  <2>1. \A a \in hands : Keeps(more, a) \subseteq {c}
    BY <1>12, <1>17
  <2>2. \A a, b \in hands : a # b => Keeps(more, a) \cap Keeps(more, b) = {}
    BY <1>12, <1>17
  <2>3. \A i \in DOMAIN sent : Held(more, row2, sent[i]) \subseteq {n1, n2} \cup R
    BY <1>4, <1>8
  <2>4. c \notin {n1, n2} \cup R /\ {c} \subseteq rights /\ {n1, n2} \cup R \subseteq rights
    BY <1>10, <1>12
  <2>5. Held(more, row2, m1) \cap Held(more, row2, m2) = {}
    BY <1>5, <1>8, <1>10
  <2>6. \A i, j \in DOMAIN sent : i # j => Held(more, row2, sent[i]) \cap Held(more, row2, sent[j]) = {}
    BY <1>4, <2>5
  <2>7. \A i \in DOMAIN sent : \A a \in hands : Held(more, row2, sent[i]) \cap Keeps(more, a) = {}
    BY <2>1, <2>3, <2>4
  <2> QED
    BY <2>1, <2>2, <2>3, <2>4, <2>6, <2>7 DEF Handed
<1>22. PassedOn(more, row2, sent, hands, rights)
  <2>1. more[me].beh \in JoinBehs /\ c \in Keeps(more, me) /\ me \in hands
    BY <1>5, <1>12, <1>17 DEF JoinBehs
  <2>2. 1 \in DOMAIN sent /\ n1 \in Held(more, row2, sent[1])
    BY <1>4, <1>8
  <2>3. 2 \in DOMAIN sent /\ \A k \in {n2} \cup R : k \in Held(more, row2, sent[2])
    BY <1>4, <1>8
  <2>4. ASSUME NEW k \in rights
        PROVE  \/ \E i \in DOMAIN sent : k \in Held(more, row2, sent[i])
               \/ \E a \in hands : k \in Keeps(more, a)
               \/ more[k].beh \in JoinBehs
    <3>1. k = me \/ k = c \/ k = n1 \/ k \in {n2} \cup R
      BY <1>12
    <3> QED
      BY <2>1, <2>2, <2>3, <3>1
  <2> QED
    BY <2>4 DEF PassedOn
<1>23. OnceMore(actors, SELF, more, row2, sent, hands)
  <2>1. more[SELF].beh \notin OneShot
    BY <1>3, <1>5, OneShots DEF JoinBehs
  <2> QED
    BY <2>1 DEF OnceMore
<1>24. JoinsDone(actors, SELF, more, hands, open2)
  <2>1. \A t : Awaits(more[me], t) <=> t = n1 \/ t = n2
    BY <1>5, <1>9 DEF Awaits
  <2>2. ASSUME NEW t \in open2, more[t].beh = "tag_beh", t \notin DOMAIN actors \/ more[t].mine = me
        PROVE  more[t].mine \in open2 /\ Awaits(more[more[t].mine], t)
    <3>1. CASE t \in DOMAIN actors
      <4>1. t # me
        BY <1>5, <2>2
      <4>2. actors[t].beh = "tag_beh" /\ actors[t].mine = me
        BY <1>5, <2>2, <3>1, <4>1
      <4>3. IsIn(actors, JoinBehs, me)
        BY <1>6, <3>1, <4>2 DEF Tagging
      <4> QED
        BY <1>6, <4>3 DEF IsIn, JoinBehs
    <3>2. CASE t \notin DOMAIN actors
      <4>1. t = n1 \/ t = n2
        BY <1>6, <1>12, <2>2, <3>2
      <4>2. more[t].mine = me
        BY <1>5, <4>1
      <4> QED
        BY <1>6, <1>12, <2>1, <4>1, <4>2
    <3> QED
      BY <3>1, <3>2
  <2>3. ASSUME NEW j \in hands, NEW t \in DOMAIN more, Awaits(more[j], t)
        PROVE  t \in open2
    <3>1. j = me
      BY <1>5, <1>12, <2>3 DEF Awaits
    <3> QED
      BY <1>12, <2>1, <2>3, <3>1
  <2> QED
    BY <1>3, <2>2, <2>3 DEF JoinsDone
<1>25. RowsDone(actors, more, row2, sent, hands)
  <2>1. ASSUME NEW i \in DOMAIN sent, NEW k \in Held(more, row2, sent[i]), more[k].beh \in MapBehs
        PROVE  RowOK(more, row2, sent[i], k)
    <3>1. k # n1 /\ k # n2
      BY <1>5, <2>1 DEF MapBehs
    <3>2. i = 2 /\ k \in R
      BY <1>4, <1>8, <2>1, <3>1
    <3> QED
      BY <1>4, <1>8, <3>2
  <2>2. ASSUME NEW a \in hands, NEW k \in Keeps(more, a)
        PROVE  more[k].beh \notin MapBehs
    <3>1. k = c
      BY <1>12, <1>17, <2>2
    <3> QED
      BY <1>10, <3>1 DEF MapBehs, BothBehs
  <2>3. \A x \in DOMAIN more : x \notin DOMAIN actors => more[x].beh # "map_pair_beh"
    BY <1>5
  <2> QED
    BY <2>1, <2>2, <2>3 DEF RowsDone
<1>26. \A i \in DOMAIN sent : MessageOK(more, row2, sent[i])
  BY <1>4, <1>8
<1>27. /\ more[SELF].beh \notin {"abort_beh", "report_beh"} /\ actors[SELF].beh \notin {"throw_beh", "tag_beh"}
       /\ \A a \in DOMAIN more : a \notin DOMAIN actors => more[a].beh # "throw_beh"
  BY <1>1, <1>3, <1>5
<1>28. Grown(actors, SELF, more) /\ DOMAIN row2 = DOMAIN more /\ \A a \in DOMAIN actors : row2[a] = row[a]
  BY <1>3, <1>5
<1>29. Specially(open, row, more, row2, sent, tokens, F, open2, hands, rights)
  BY <1>1, <1>4, <1>13, <1>14, <1>15, <1>16, <1>20, <1>21, <1>22, <1>23, <1>24, <1>25, <1>26, <1>27, <1>28
  DEF Specially
<1>30. Handle(more, sent, tokens)
  BY <1>2, <1>3
<1> QED
  BY <1>29, <1>30, SpecialStep

LEMMA TagBeh ==
  ASSUME NEW open, NEW row, Invariant(open, row), tag_beh
  PROVE  Onward
<1>1. Runs(open, row) /\ actors[SELF].beh = "tag_beh"
  BY Behaving DEF tag_beh
<1>2. PICK me, j, v, w, m : me = SELF /\ j = MINE /\ v = WHAT.val /\ w = Tagged(me, v) /\ m = Message(j, w)
  OBVIOUS
<1>3. /\ me \in DOMAIN actors /\ IsSeq(actors) /\ actors[me].beh = "tag_beh" /\ actors[me].mine = j
      /\ StatesOK(actors, row) /\ Settled(actors) /\ Tagging(actors)
      /\ queue[1].to = me /\ queue[1].what = WHAT
      /\ Orderly(actors, queue, turns, out, aborted, open, row) /\ 1 \in DOMAIN queue
      /\ open \subseteq DOMAIN actors
  BY <1>1, <1>2, Running, Handles DEF MINE
<1>4. SentOK(actors, row, me, WHAT) /\ StateOK(actors, row, me, "tag_beh", j)
  BY <1>1, <1>2, Handles
<1>5. WHAT.op = "value" /\ IsValue(actors, v) /\ (WaitsForCopy(actors, me) => IsFixed(actors, v))
  BY <1>2, <1>3, <1>4 DEF SentOK, ValueOK, ValueBehs
<1>6. IsIn(actors, JoinBehs, j) /\ j # me
  BY <1>3, <1>4 DEF StateOK, ForkJoinOK, IsIn, JoinBehs
<1>7. row[me] = me
  BY <1>1, <1>3, RowOfSame DEF HeadBehs
<1>8. Held(actors, row, queue[1]) = {me}
  BY <1>3, <1>5, <1>7 DEF Held, Answers, Serves, Requests, ObjectBehs, Immutable, Mutable
<1>9. me \in open
  <2>1. Unshared(actors, queue, open, row)
    BY <1>3 DEF Orderly
  <2> QED
    BY <1>3, <1>8, <2>1 DEF Unshared
<1>10. Keeps(actors, me) = {}
  BY <1>3 DEF Keeps, Direct, Rest, WithCust, PlainArgsBehs, BrandBehs, PairBehs, JoinBehs
<1>11. PICK sent, tokens, F, none, hands :
         sent = <<m>> /\ tokens = << >> /\ F = {} /\ none = << >> /\ hands = {me}
  OBVIOUS
<1>12. Handle(actors, sent, tokens)
  <2>1. actors \o none = actors
    BY <1>3, <1>11, Nothing
  <2> QED
    BY <1>2, <1>11, <2>1 DEF tag_beh, Send, React
<1>13. IsSeq(sent) /\ IsSeq(tokens) /\ DOMAIN sent = {1} /\ sent[1] = m
  BY <1>11, OneSent
<1>14. m.to = j /\ m.what = w /\ w.op = "tagged" /\ w.tag = me /\ w.val = v
  BY <1>2 DEF Message, Tagged
<1>15. MessageOK(actors, row, m)
  <2>1. j \in DOMAIN actors /\ actors[j].beh \in JoinBehs
    BY <1>6 DEF IsIn
  <2>2. TaggedOK(actors, j, w)
    BY <1>3, <1>5, <1>14 DEF TaggedOK, IsIn
  <2>3. JoinBehs \cap (ObjectBehs \cup {"sink_beh", "pair_copy_beh", "pair_map_beh", "fork_beh", "map_tail_beh"} \cup ValueBehs
            \cup PairBehs \cup {"map_unwrap_beh", "map_comb_beh", "map_next_beh"} \cup HeadBehs \cup ArgsBehs) = {}
    BY DEF ObjectBehs, Immutable, Mutable, PairBehs, JoinBehs, ValueBehs, ArgsBehs, PlainArgsBehs, BrandBehs, HeadBehs
  <2>4. SentOK(actors, row, j, w)
    BY <2>1, <2>2, <2>3 DEF SentOK, HeadBehs
  <2> QED
    BY <1>14, <2>1, <2>4 DEF MessageOK
<1>16. Held(actors, row, m) = {me}
  BY <1>14 DEF Held, Answers, Serves, Requests
<1>17. Newly(actors, actors) = {}
  BY DEF Newly
<1>18. open = Later(actors, open, actors, F)
  BY <1>11, <1>17 DEF Later
<1>19. hands = Hands(actors, SELF, open)
  BY <1>2, <1>3, <1>9, <1>11 DEF Hands
<1>20. hands = Rights(actors, row, queue[1], actors, F)
  <2>1. InHand(actors, row, queue[1]) = {me}
    BY <1>3, <1>8, <1>10 DEF InHand
  <2> QED
    BY <1>11, <1>17, <2>1 DEF Rights
<1>21. Finishes(queue[1], F)
  BY <1>3, <1>5, <1>11 DEF Finishes
<1>22. Grown(actors, SELF, actors)
  BY <1>1, SameSelf DEF Same
<1>23. StatesDone(actors, actors, row)
  BY DEF StatesDone
<1>24. \A i \in DOMAIN sent : sent[i] = m /\ i = 1
  BY <1>13
<1>25. Handed(actors, row, sent, hands, hands)
  <2>1. \A i \in DOMAIN sent : Held(actors, row, sent[i]) = hands
    BY <1>11, <1>16, <1>24
  <2>2. \A a \in hands : Keeps(actors, a) = {}
    BY <1>10, <1>11
  <2>3. \A i, k \in DOMAIN sent : i # k => Held(actors, row, sent[i]) \cap Held(actors, row, sent[k]) = {}
    BY <1>24
  <2> QED
    BY <2>1, <2>2, <2>3 DEF Handed
<1>26. PassedOn(actors, row, sent, hands, hands)
  BY <1>11, <1>13, <1>16 DEF PassedOn
<1>27. OnceMore(actors, SELF, actors, row, sent, hands)
  BY <1>2, <1>10, <1>11, <1>14, <1>24 DEF OnceMore
<1>28. JoinsDone(actors, SELF, actors, hands, open)
  <2>1. ASSUME NEW t \in open, actors[t].beh = "tag_beh", t \notin DOMAIN actors \/ actors[t].mine = me
        PROVE  FALSE
    <3>1. IsIn(actors, JoinBehs, me)
      BY <1>3, <2>1 DEF Tagging
    <3> QED
      BY <1>3, <3>1 DEF IsIn, JoinBehs
  <2>2. \A t : ~Awaits(actors[me], t)
    BY <1>3 DEF Awaits
  <2> QED
    BY <1>2, <1>11, <2>1, <2>2 DEF JoinsDone
<1>29. RowsDone(actors, actors, row, sent, hands)
  <2>1. \A i \in DOMAIN sent : \A k \in Held(actors, row, sent[i]) : actors[k].beh \notin MapBehs
    BY <1>3, <1>16, <1>24 DEF MapBehs
  <2> QED
    BY <1>10, <1>11, <2>1 DEF RowsDone
<1>30. \A i \in DOMAIN sent : MessageOK(actors, row, sent[i])
  BY <1>15, <1>24
<1>31. DOMAIN row = DOMAIN actors
  BY <1>1, RowOfSame
<1>32. actors[SELF].beh \notin {"abort_beh", "report_beh", "throw_beh"}
  BY <1>1
<1>33. Specially(open, row, actors, row, sent, tokens, F, open, hands, hands)
  BY <1>1, <1>11, <1>13, <1>18, <1>19, <1>20, <1>21, <1>22, <1>23, <1>25, <1>26, <1>27, <1>28, <1>29, <1>30, <1>31, <1>32
  DEF Specially
<1> QED
  BY <1>12, <1>33, SpecialStep

(* A join has been sent an answer that it waits for.                       *)
JoinState(row, open, me, c, k, v) ==
  /\ me = SELF /\ me \in DOMAIN actors /\ me \in open /\ row[me] = me
  /\ c = MINE.cust /\ c \in DOMAIN actors /\ actors[c].beh \in BothBehs /\ c < me /\ c # me /\ row[c] = c
  /\ k = WHAT.tag /\ k \in open /\ k \in DOMAIN actors /\ actors[k].beh = "tag_beh" /\ k # me /\ k # c
  /\ v = WHAT.val /\ IsValue(actors, v) /\ (actors[c].beh = "pair_copy_beh" => IsFixed(actors, v))
  /\ Awaits(actors[me], k) /\ Keeps(actors, me) = {c}
  /\ queue[1].what.op = "tagged" /\ queue[1].what.tag = k /\ queue[1].to = me
  /\ InHand(actors, row, queue[1]) = {k, c}
  /\ \A t \in open : actors[t].beh = "tag_beh" /\ actors[t].mine = me => Awaits(actors[me], t)
  /\ \A t \in DOMAIN actors : Awaits(actors[me], t) => t \in open

LEMMA JoinIs ==
  ASSUME NEW open, NEW row, Runs(open, row), actors[SELF].beh \in JoinBehs
  PROVE  JoinState(row, open, SELF, MINE.cust, WHAT.tag, WHAT.val)
<1>1. PICK me, c, k, v, m : me = SELF /\ c = MINE.cust /\ k = WHAT.tag /\ v = WHAT.val /\ m = queue[1]
  OBVIOUS
<1>2. /\ me \in DOMAIN actors /\ IsSeq(actors) /\ actors[me].beh \in JoinBehs /\ MINE = actors[me].mine
      /\ Settled(actors) /\ StatesOK(actors, row)
      /\ m.to = me /\ m.what = WHAT /\ m = queue[1] /\ actors[me].mine.cust = c /\ WHAT.tag = k /\ WHAT.val = v
      /\ Orderly(actors, queue, turns, out, aborted, open, row) /\ 1 \in DOMAIN queue
  BY <1>1, Running, Handles DEF MINE
<1>3. m.to \in DOMAIN actors
  BY <1>2
<1>4. /\ m.what.op = "tagged" <=> actors[m.to].beh \in JoinBehs
      /\ m.what.op = "tagged" =>
           /\ TaggedOK(actors, m.to, m.what)
           /\ Held(actors, row, m) = {m.what.tag}
           /\ m.what.tag \in open /\ m.to \in open /\ Awaits(actors[m.to], m.what.tag)
  BY <1>2, <1>3, Taking
<1>5. /\ WHAT.op = "tagged" /\ TaggedOK(actors, me, WHAT) /\ Held(actors, row, m) = {k}
      /\ k \in open /\ me \in open /\ Awaits(actors[me], k)
  BY <1>2, <1>4
<1>6. /\ IsIn(actors, {"tag_beh"}, k) /\ actors[k].mine = me /\ IsValue(actors, v)
      /\ WaitsForCopy(actors, k) => IsFixed(actors, v)
  BY <1>2, <1>5 DEF TaggedOK
<1>7. StateOK(actors, row, me, actors[me].beh, actors[me].mine)
      /\ \A x \in Keeps(actors, me) : x < me \/ actors[me].beh \in MapBehs
  BY <1>1, <1>2, Handles
<1>8. IsIn(actors, BothBehs, c)
  BY <1>2, <1>7 DEF StateOK, ForkJoinOK
<1>9. c \in DOMAIN actors /\ actors[c].beh \in BothBehs /\ c # me /\ c # a_sink
  BY <1>2, <1>8 DEF IsIn, BothBehs, JoinBehs, Settled
<1>10. Keeps(actors, me) = {c}
  <2>1. Direct(actors[me].beh, actors[me].mine) = {c}
    <3>1. actors[me].beh \in WithCust \cup JoinBehs \cup {"fork_beh", "command_beh"}
      BY <1>2
    <3>2. actors[me].beh \notin {"dotted_close_beh", "pair_copy_beh", "pair_map_beh", "pair_foldl_beh"}
      BY <1>2 DEF JoinBehs
    <3> QED
      BY <1>2, <3>1, <3>2 DEF Direct
  <2>2. Rest(actors, actors[me].beh, actors[me].mine) = {}
    BY <1>2 DEF Rest, JoinBehs
  <2> QED
    BY <1>9, <2>1, <2>2 DEF Keeps
<1>11. c < me
  BY <1>2, <1>7, <1>10 DEF JoinBehs, MapBehs
<1>12. row[me] = me /\ row[c] = c
  BY <1>2, <1>9, RowOfSame DEF HeadBehs, JoinBehs, BothBehs
<1>13. k \in DOMAIN actors /\ actors[k].beh = "tag_beh" /\ k # me /\ k # c
  BY <1>2, <1>6, <1>9 DEF IsIn, JoinBehs, BothBehs
<1>14. actors[c].beh = "pair_copy_beh" => IsFixed(actors, v)
  BY <1>2, <1>6, <1>9, <1>13 DEF WaitsForCopy, IsIn
<1>15. InHand(actors, row, m) = {k, c}
  BY <1>2, <1>5, <1>10 DEF InHand
<1>16. Joined(actors, open)
  BY <1>2 DEF Orderly
<1>17. /\ \A t \in open : actors[t].beh = "tag_beh" /\ actors[t].mine = me => Awaits(actors[me], t)
       /\ \A t \in DOMAIN actors : Awaits(actors[me], t) => t \in open
  BY <1>5, <1>16 DEF Joined
<1>18. JoinState(row, open, me, c, k, v)
  BY <1>1, <1>2, <1>5, <1>6, <1>9, <1>10, <1>11, <1>12, <1>13, <1>14, <1>15, <1>17 DEF JoinState
<1> QED
  BY <1>1, <1>18

(* It goes on to wait for the other one, ...                               *)
LEMMA JoinWaits ==
  ASSUME NEW open, NEW row, Runs(open, row), actors[SELF].beh \in JoinBehs,
         NEW b, b \in {"join_rest_beh", "join_first_beh"}, NEW s, s.cust = MINE.cust,
         StateOK(actors, row, SELF, b, s),
         \A t : Awaits(Actor(b, s), t) => Awaits(actors[SELF], t) /\ t # WHAT.tag,
         \A t : Awaits(actors[SELF], t) => t = WHAT.tag \/ Awaits(Actor(b, s), t),
         Become(b, s, << >>)
  PROVE  Onward
<1>1. PICK me, c, k, v : me = SELF /\ c = MINE.cust /\ k = WHAT.tag /\ v = WHAT.val
  OBVIOUS
<1>2. JoinState(row, open, me, c, k, v)
  BY <1>1, JoinIs
<1>3. /\ me \in DOMAIN actors /\ me \in open /\ row[me] = me
      /\ c \in DOMAIN actors /\ actors[c].beh \in BothBehs /\ c < me /\ c # me /\ row[c] = c
      /\ k \in open /\ k \in DOMAIN actors /\ actors[k].beh = "tag_beh" /\ k # me /\ k # c
      /\ Awaits(actors[me], k) /\ Keeps(actors, me) = {c}
      /\ queue[1].what.op = "tagged" /\ queue[1].what.tag = k /\ queue[1].to = me
      /\ InHand(actors, row, queue[1]) = {k, c}
      /\ \A t \in open : actors[t].beh = "tag_beh" /\ actors[t].mine = me => Awaits(actors[me], t)
      /\ \A t \in DOMAIN actors : Awaits(actors[me], t) => t \in open
  BY <1>2 DEF JoinState
<1>4. IsSeq(actors) /\ StatesOK(actors, row) /\ Settled(actors) /\ Tagging(actors) /\ open \subseteq DOMAIN actors
  BY Running
<1>5. Turned(actors[SELF], Actor(b, s))
  <2>1. Actor(b, s).beh = b /\ Actor(b, s).mine = s
    BY DEF Actor
  <2>2. actors[SELF].mine.cust = MINE.cust
    BY DEF MINE
  <2> QED
    BY <2>1, <2>2 DEF Turned, Turning, Mutable, JoinBehs, MapBehs, HeadBehs
<1>6. PICK new, more, row2 :
        new = << >> /\ Renewed(row, b, s, new, more, row2) /\ Handle(more, << >>, << >>) /\ DOMAIN more = DOMAIN actors
  BY <1>5, Becoming
<1>7. /\ Grown(actors, me, more) /\ IsSeq(more) /\ DOMAIN actors = DOMAIN more
      /\ more[me].beh = b /\ more[me].mine = s
      /\ (\A a \in DOMAIN actors : a # me => more[a] = actors[a])
      /\ DOMAIN row2 = DOMAIN more /\ \A a \in DOMAIN actors : row2[a] = row[a]
  BY <1>1, <1>6 DEF Renewed
<1>8. PICK sent, F, open2, hands, rights :
        sent = << >> /\ F = {k} /\ open2 = open \ {k} /\ hands = {me} /\ rights = {c}
  OBVIOUS
<1>9. Handle(more, sent, sent) /\ IsSeq(sent) /\ DOMAIN sent = {}
  BY <1>6, <1>8, OneSent
<1>10. Newly(actors, more) = {}
  BY <1>7 DEF Newly
<1>11. open2 = Later(actors, open, more, F)
  BY <1>8, <1>10 DEF Later
<1>12. hands = Hands(actors, SELF, open2)
  BY <1>1, <1>3, <1>4, <1>8 DEF Hands
<1>13. rights = Rights(actors, row, queue[1], more, F)
  BY <1>3, <1>8, <1>10 DEF Rights
<1>14. Finishes(queue[1], F)
  BY <1>3, <1>8 DEF Finishes
<1>15. b \in JoinBehs /\ b \in Kinds /\ actors[me].beh \in JoinBehs
  BY <1>1 DEF JoinBehs, Kinds, OpenBehs
<1>16. StateOK(more, row2, me, b, s)
  <2>1. a_sink \in DOMAIN actors /\ actors[a_sink].beh = "sink_beh" /\ DOMAIN row = DOMAIN actors
    BY <1>4, RowOfSame DEF Settled
  <2>2. StateOK(actors, row, me, b, s)
    BY <1>1
  <2> QED
    BY <1>3, <1>4, <1>7, <2>1, <2>2, StatesStay
<1>17. Keeps(more, me) = {c}
  <2>1. Direct(b, s) = {c}
    <3>1. b \in WithCust \cup JoinBehs \cup {"fork_beh", "command_beh"}
      BY <1>15
    <3> QED
      BY <1>1, <3>1 DEF Direct
  <2>2. Rest(more, b, s) = {}
    BY DEF Rest
  <2>3. c # a_sink
    BY <1>3, <1>4 DEF Settled, BothBehs
  <2> QED
    BY <1>7, <2>1, <2>2, <2>3 DEF Keeps
<1>18. StatesDone(actors, more, row2)
  <2>1. ASSUME NEW a \in DOMAIN more, a \notin DOMAIN actors \/ more[a] # actors[a]
        PROVE  /\ more[a].beh \in Kinds
               /\ StateOK(more, row2, a, more[a].beh, more[a].mine)
               /\ \A x \in Keeps(more, a) : x < a \/ more[a].beh \in MapBehs
    <3>1. a = me
      BY <1>7, <2>1
    <3> QED
      BY <1>3, <1>7, <1>15, <1>16, <1>17, <3>1
  <2> QED
    BY <2>1 DEF StatesDone
<1>19. Handed(more, row2, sent, hands, rights)
  BY <1>8, <1>9, <1>17 DEF Handed
<1>20. PassedOn(more, row2, sent, hands, rights)
  BY <1>8, <1>17 DEF PassedOn
<1>21. OnceMore(actors, SELF, more, row2, sent, hands)
  <2>1. more[SELF].beh \notin OneShot
    BY <1>1, <1>7, <1>15, OneShots
  <2> QED
    BY <2>1 DEF OnceMore
<1>22. \A t : Awaits(more[me], t) <=> Awaits(actors[me], t) /\ t # k
  <2>1. \A t : Awaits(more[me], t) <=> Awaits(Actor(b, s), t)
    <3>1. Actor(b, s).beh = b /\ Actor(b, s).mine = s
      BY DEF Actor
    <3> QED
      BY <1>7, <3>1 DEF Awaits
  <2> QED
    BY <1>1, <2>1
<1>23. JoinsDone(actors, SELF, more, hands, open2)
  <2>1. ASSUME NEW t \in open2, more[t].beh = "tag_beh", t \notin DOMAIN actors \/ more[t].mine = me
        PROVE  more[t].mine \in open2 /\ Awaits(more[more[t].mine], t)
    <3>1. t \in open /\ t # k /\ t \in DOMAIN actors
      BY <1>4, <1>8, <2>1
    <3>2. t # me
      BY <1>7, <1>15, <2>1 DEF JoinBehs
    <3>3. more[t] = actors[t]
      BY <1>7, <3>1, <3>2
    <3>4. more[t].mine = me /\ Awaits(actors[me], t)
      BY <1>3, <2>1, <3>1, <3>3
    <3> QED
      BY <1>3, <1>8, <1>22, <3>1, <3>4
  <2>2. ASSUME NEW j \in hands, NEW t \in DOMAIN more, Awaits(more[j], t)
        PROVE  t \in open2
    BY <1>3, <1>7, <1>8, <1>22, <2>2
  <2> QED
    BY <1>1, <2>1, <2>2 DEF JoinsDone
<1>24. RowsDone(actors, more, row2, sent, hands)
  <2>1. more[c].beh \notin MapBehs
    BY <1>3, <1>7 DEF MapBehs, BothBehs
  <2> QED
    BY <1>7, <1>8, <1>9, <1>17, <2>1 DEF RowsDone
<1>25. /\ more[SELF].beh \notin {"abort_beh", "report_beh"} /\ actors[SELF].beh \notin {"throw_beh", "tag_beh"}
       /\ \A a \in DOMAIN more : a \notin DOMAIN actors => more[a].beh # "throw_beh"
  BY <1>1, <1>7, <1>15 DEF JoinBehs
<1>26. Grown(actors, SELF, more) /\ \A i \in DOMAIN sent : MessageOK(more, row2, sent[i])
  BY <1>1, <1>7, <1>9
<1>27. Specially(open, row, more, row2, sent, sent, F, open2, hands, rights)
  BY <1>7, <1>9, <1>11, <1>12, <1>13, <1>14, <1>18, <1>19, <1>20, <1>21, <1>23, <1>24, <1>25, <1>26 DEF Specially
<1> QED
  BY <1>9, <1>27, SpecialStep

(* ... or answers, when it has both.                                       *)
LEMMA JoinEnds ==
  ASSUME NEW open, NEW row, Runs(open, row), actors[SELF].beh \in JoinBehs,
         NEW x, NEW y, IsValue(actors, x), IsValue(actors, y),
         IsIn(actors, {"pair_copy_beh"}, MINE.cust) => IsFixed(actors, x) /\ IsFixed(actors, y),
         \A t : Awaits(actors[SELF], t) => t = WHAT.tag,
         Send(MINE.cust, Pair(x, y))
  PROVE  Onward
<1>1. PICK me, c, k, v, w, m :
        me = SELF /\ c = MINE.cust /\ k = WHAT.tag /\ v = WHAT.val /\ w = Pair(x, y) /\ m = Message(c, w)
  OBVIOUS
<1>2. JoinState(row, open, me, c, k, v)
  BY <1>1, JoinIs
<1>3. /\ me \in DOMAIN actors /\ me \in open /\ row[me] = me
      /\ c \in DOMAIN actors /\ actors[c].beh \in BothBehs /\ c # me /\ row[c] = c
      /\ k \in open /\ k # c
      /\ queue[1].what.op = "tagged" /\ queue[1].what.tag = k /\ queue[1].to = me
      /\ InHand(actors, row, queue[1]) = {k, c}
      /\ \A t \in open : actors[t].beh = "tag_beh" /\ actors[t].mine = me => Awaits(actors[me], t)
  BY <1>2 DEF JoinState
<1>4. IsSeq(actors) /\ open \subseteq DOMAIN actors
  BY Running
<1>5. PICK sent, tokens, F, open2, hands, rights :
        /\ sent = <<m>> /\ tokens = << >> /\ F = {k, me} /\ open2 = open \ {k, me} /\ hands = {} /\ rights = {c}
  OBVIOUS
<1>6. Handle(actors, sent, tokens)
  <2>1. actors \o tokens = actors
    BY <1>4, <1>5, Nothing
  <2> QED
    BY <1>1, <1>5, <2>1 DEF Send, React
<1>7. IsSeq(sent) /\ IsSeq(tokens) /\ DOMAIN sent = {1} /\ sent[1] = m
  BY <1>5, OneSent
<1>8. m.to = c /\ m.what = w /\ w.op = "pair" /\ w.hd = x /\ w.tl = y
  BY <1>1 DEF Message, Pair
<1>9. MessageOK(actors, row, m)
  <2>1. PairOK(actors, w)
    BY <1>8 DEF PairOK
  <2>2. actors[c].beh = "pair_copy_beh" => FixedPair(actors, w)
    BY <1>1, <1>3, <1>8 DEF FixedPair, IsIn
  <2>3. BothBehs \cap (ObjectBehs \cup {"sink_beh", "fork_beh", "map_tail_beh"} \cup ValueBehs \cup JoinBehs
            \cup PairBehs \cup {"map_unwrap_beh", "map_comb_beh", "map_next_beh"} \cup HeadBehs \cup ArgsBehs) = {}
        /\ BothBehs = {"pair_copy_beh", "pair_map_beh"}
    BY DEF ObjectBehs, Immutable, Mutable, PairBehs, JoinBehs, ValueBehs, ArgsBehs, PlainArgsBehs, BrandBehs, HeadBehs,
           BothBehs
  <2>4. SentOK(actors, row, c, w)
    BY <1>3, <2>1, <2>2, <2>3 DEF SentOK, HeadBehs
  <2> QED
    BY <1>3, <1>8, <2>4 DEF MessageOK
<1>10. Held(actors, row, m) = {c}
  BY <1>3, <1>8 DEF Held, Answers, Serves, Requests, ObjectBehs, Immutable, Mutable, BothBehs
<1>11. Newly(actors, actors) = {}
  BY DEF Newly
<1>12. open2 = Later(actors, open, actors, F)
  BY <1>5, <1>11 DEF Later
<1>13. hands = Hands(actors, SELF, open2)
  BY <1>1, <1>4, <1>5 DEF Hands
<1>14. rights = Rights(actors, row, queue[1], actors, F)
  BY <1>3, <1>5, <1>11 DEF Rights
<1>15. Finishes(queue[1], F)
  BY <1>3, <1>5 DEF Finishes
<1>16. Grown(actors, SELF, actors) /\ StatesDone(actors, actors, row)
  BY SameSelf DEF Same, StatesDone
<1>17. \A i \in DOMAIN sent : sent[i] = m /\ i = 1
  BY <1>7
<1>18. Handed(actors, row, sent, hands, rights)
  BY <1>5, <1>10, <1>17 DEF Handed
<1>19. PassedOn(actors, row, sent, hands, rights)
  BY <1>5, <1>7, <1>10 DEF PassedOn
<1>20. OnceMore(actors, SELF, actors, row, sent, hands)
  BY OneShots DEF OnceMore
<1>21. JoinsDone(actors, SELF, actors, hands, open2)
  <2>1. ASSUME NEW t \in open2, actors[t].beh = "tag_beh", t \notin DOMAIN actors \/ actors[t].mine = me
        PROVE  FALSE
    BY <1>1, <1>3, <1>4, <1>5, <2>1
  <2> QED
    BY <1>1, <1>5, <2>1 DEF JoinsDone
<1>22. RowsDone(actors, actors, row, sent, hands)
  BY <1>3, <1>5, <1>10, <1>17 DEF RowsDone, MapBehs, BothBehs
<1>23. /\ actors[SELF].beh \notin {"abort_beh", "report_beh", "throw_beh", "tag_beh"} /\ DOMAIN row = DOMAIN actors
       /\ \A i \in DOMAIN sent : MessageOK(actors, row, sent[i])
  BY <1>9, <1>17, RowOfSame DEF JoinBehs
<1>24. Specially(open, row, actors, row, sent, tokens, F, open2, hands, rights)
  BY <1>7, <1>12, <1>13, <1>14, <1>15, <1>16, <1>18, <1>19, <1>20, <1>21, <1>22, <1>23 DEF Specially
<1> QED
  BY <1>6, <1>24, SpecialStep

LEMMA Joins ==
  ASSUME NEW open, NEW row, Invariant(open, row), join_beh \/ join_rest_beh \/ join_first_beh
  PROVE  Onward
<1>1. Runs(open, row) /\ actors[SELF].beh \in JoinBehs
  BY Behaving DEF join_beh, join_rest_beh, join_first_beh, JoinBehs
<1>2. PICK me, c, k, v : me = SELF /\ c = MINE.cust /\ k = WHAT.tag /\ v = WHAT.val
  OBVIOUS
<1>3. JoinState(row, open, me, c, k, v)
  BY <1>1, <1>2, JoinIs
<1>4. /\ me \in DOMAIN actors /\ row[me] = me
      /\ c \in DOMAIN actors /\ k # me /\ IsValue(actors, v) /\ Awaits(actors[me], k)
      /\ IsIn(actors, {"pair_copy_beh"}, c) => IsFixed(actors, v)
  BY <1>3 DEF JoinState, IsIn
<1>5. PICK s : s = MINE /\ s = actors[me].mine /\ s.cust = c
  BY <1>2 DEF MINE
<1>6. StateOK(actors, row, me, actors[me].beh, s)
  BY <1>1, <1>2, <1>5, Handles
<1>7. CASE join_beh
  <2>1. actors[me].beh = "join_beh"
    BY <1>1, <1>2, <1>7, Behaving DEF join_beh
  <2>2. /\ IsIn(actors, {"tag_beh"}, s.k_first) /\ actors[s.k_first].mine = me
        /\ IsIn(actors, {"tag_beh"}, s.k_rest) /\ actors[s.k_rest].mine = me /\ s.k_first # s.k_rest
        /\ IsIn(actors, BothBehs, s.cust)
    BY <1>6, <2>1 DEF StateOK, ForkJoinOK, JoinBehs
  <2>3. \A t : Awaits(actors[me], t) <=> t = s.k_first \/ t = s.k_rest
    BY <1>5, <2>1 DEF Awaits
  <2>4. PICK s1, s2 : /\ s1 = [cust |-> c, k_rest |-> s.k_rest, first |-> v]
                      /\ s2 = [cust |-> c, k_first |-> s.k_first, rest |-> v]
    OBVIOUS
  <2>5. \A b, u : Actor(b, u).beh = b /\ Actor(b, u).mine = u
    BY DEF Actor
  <2>6. StateOK(actors, row, me, "join_rest_beh", s1) /\ StateOK(actors, row, me, "join_first_beh", s2)
    <3>1. ForkJoinOK(actors, me, "join_rest_beh", s1) /\ ForkJoinOK(actors, me, "join_first_beh", s2)
      BY <1>4, <1>5, <2>2, <2>4 DEF ForkJoinOK, JoinBehs
    <3>2. \A b, u : b \in {"join_rest_beh", "join_first_beh"} => CustomerOK(actors, b, u)
      BY DEF CustomerOK, WithCust, PlainArgsBehs, BrandBehs, PairBehs
    <3>3. \A b, u : b \in {"join_rest_beh", "join_first_beh"} => ObjectOK(actors, b, u)
      BY DEF ObjectOK
    <3>4. \A b, u : b \in {"join_rest_beh", "join_first_beh"} => MapOK(actors, row, me, b, u)
      BY <1>4 DEF MapOK, HeadBehs
    <3> QED
      BY <3>1, <3>2, <3>3, <3>4 DEF StateOK
  <2>7. CASE k = s.k_first
    <3>1. Become("join_rest_beh", s1, << >>)
      <4>1. WHAT.tag = MINE.k_first /\ WHAT.tag # MINE.k_rest
        BY <1>2, <1>5, <2>2, <2>7
      <4>2. FirstCame
        BY <1>7, <4>1 DEF join_beh
      <4> QED
        BY <1>2, <1>5, <2>4, <4>2 DEF FirstCame
    <3>2. \A t : Awaits(Actor("join_rest_beh", s1), t) <=> t = s.k_rest
      BY <2>4, <2>5 DEF Awaits
    <3>3. s1.cust = MINE.cust
      BY <1>2, <2>4
    <3> QED
      BY <1>1, <1>2, <2>2, <2>3, <2>6, <2>7, <3>1, <3>2, <3>3, JoinWaits
  <2>8. CASE k = s.k_rest /\ k # s.k_first
    <3>1. Become("join_first_beh", s2, << >>)
      BY <1>2, <1>5, <1>7, <2>4, <2>8 DEF join_beh, RestCame
    <3>2. \A t : Awaits(Actor("join_first_beh", s2), t) <=> t = s.k_first
      BY <2>4, <2>5 DEF Awaits
    <3>3. s2.cust = MINE.cust
      BY <1>2, <2>4
    <3> QED
      BY <1>1, <1>2, <2>2, <2>3, <2>6, <2>8, <3>1, <3>2, <3>3, JoinWaits
  <2> QED
    BY <1>4, <2>3, <2>7, <2>8
<1>8. CASE join_rest_beh
  <2>1. actors[me].beh = "join_rest_beh"
    BY <1>1, <1>2, <1>8, Behaving DEF join_rest_beh
  <2>2. IsValue(actors, s.first) /\ (IsIn(actors, {"pair_copy_beh"}, s.cust) => IsFixed(actors, s.first))
    BY <1>6, <2>1 DEF StateOK, ForkJoinOK, JoinBehs
  <2>3. \A t : Awaits(actors[me], t) <=> t = s.k_rest
    BY <1>5, <2>1 DEF Awaits
  <2>4. k = s.k_rest
    BY <1>4, <2>3
  <2>5. Send(MINE.cust, Pair(s.first, v))
    BY <1>2, <1>5, <1>8, <2>4 DEF join_rest_beh
  <2>6. \A t : Awaits(actors[SELF], t) => t = WHAT.tag
    BY <1>2, <2>3, <2>4
  <2>7. IsIn(actors, {"pair_copy_beh"}, MINE.cust) => IsFixed(actors, s.first) /\ IsFixed(actors, v)
    BY <1>2, <1>4, <1>5, <2>2
  <2> QED
    BY <1>1, <1>4, <2>2, <2>5, <2>6, <2>7, JoinEnds
<1>9. CASE join_first_beh
  <2>1. actors[me].beh = "join_first_beh"
    BY <1>1, <1>2, <1>9, Behaving DEF join_first_beh
  <2>2. IsValue(actors, s.rest) /\ (IsIn(actors, {"pair_copy_beh"}, s.cust) => IsFixed(actors, s.rest))
    BY <1>6, <2>1 DEF StateOK, ForkJoinOK, JoinBehs
  <2>3. \A t : Awaits(actors[me], t) <=> t = s.k_first
    BY <1>5, <2>1 DEF Awaits
  <2>4. k = s.k_first
    BY <1>4, <2>3
  <2>5. Send(MINE.cust, Pair(v, s.rest))
    BY <1>2, <1>5, <1>9, <2>4 DEF join_first_beh
  <2>6. \A t : Awaits(actors[SELF], t) => t = WHAT.tag
    BY <1>2, <2>3, <2>4
  <2>7. IsIn(actors, {"pair_copy_beh"}, MINE.cust) => IsFixed(actors, s.rest) /\ IsFixed(actors, v)
    BY <1>2, <1>4, <1>5, <2>2
  <2> QED
    BY <1>1, <1>4, <2>2, <2>5, <2>6, <2>7, JoinEnds
<1> QED
  BY <1>7, <1>8, <1>9

-----------------------------------------------------------------------------
(* C code outside of behaviours.                                           *)

(* What C code does outside of behaviours is like the handling of a message *)
(* to the sink.                                                             *)
Before(m, q, p) ==
  /\ IsSeq(p) /\ Tail(p) = q /\ 1 \in DOMAIN p /\ p[1] = m
  /\ \A i \in DOMAIN p : i = 1 \/ (i - 1 \in DOMAIN q /\ p[i] = q[i - 1] /\ i \in Nat)
  /\ \A i \in DOMAIN q : i + 1 \in DOMAIN p /\ p[i + 1] = q[i]

LEMMA Prefixed ==
  ASSUME NEW q, IsSeq(q), NEW m, NEW p, p = <<m>> \o q
  PROVE  Before(m, q, p)
<1>0. PICK one : one = <<m>>
  OBVIOUS
<1>1. IsSeq(one) /\ Len(one) = 1 /\ one[1] = m /\ p = one \o q
  BY <1>0, OneSent
<1>2. IsSeq(p) /\ DOMAIN p = 1 .. 1 + Len(q) /\ p[1] = m /\ \A i \in 2 .. 1 + Len(q) : p[i] = q[i - 1]
  <2>1. IsSeq(p) /\ DOMAIN p = 1 .. Len(one) + Len(q)
    BY <1>1, ConcatenatedAt
  <2>2. \A i \in 1 .. Len(one) : p[i] = one[i]
    BY <1>1, ConcatenatedAt
  <2>3. \A i \in Len(one) + 1 .. Len(one) + Len(q) : p[i] = q[i - Len(one)]
    BY <1>1, ConcatenatedAt
  <2> QED
    BY <1>1, <2>1, <2>2, <2>3
<1>3. Len(q) \in Nat /\ DOMAIN q = 1 .. Len(q)
  BY LengthIs
<1>4. PICK S : q \in Seq(S)
  BY DEF IsSeq
<1>5. PICK T : T = S \cup {m}
  OBVIOUS
<1>6. q \in Seq(T) /\ m \in T
  BY <1>4, <1>5
<1>7. Tail(p) = q
  BY <1>6
<1> QED
  BY <1>2, <1>3, <1>7 DEF Before

LEMMA Virtual ==
  ASSUME NEW open, NEW row, Invariant(open, row),
         NEW m, m = Message(a_sink, Value(NIL)), NEW waiting, waiting = <<m>> \o queue
  PROVE  /\ Orderly(actors, waiting, turns, out, aborted, open, row)
         /\ Held(actors, row, m) = {} /\ Keeps(actors, a_sink) = {} /\ a_sink \notin open
<1>1. Orderly(actors, queue, turns, out, aborted, open, row)
  BY DEF Invariant
<1>2. Shape(actors, queue, turns)
  BY <1>1 DEF Orderly
<1>3. IsSeq(queue) /\ a_sink \in DOMAIN actors /\ actors[a_sink].beh = "sink_beh"
  BY <1>2, Settles DEF Shape, Settled
<1>4. m.to = a_sink /\ m.what.op = "value"
  BY DEF Message, Value
<1>5. /\ IsSeq(waiting) /\ 1 \in DOMAIN waiting /\ waiting[1] = m
      /\ \A i \in DOMAIN waiting : i = 1 \/ (i - 1 \in DOMAIN queue /\ waiting[i] = queue[i - 1] /\ i \in Nat)
      /\ \A i \in DOMAIN queue : i + 1 \in DOMAIN waiting /\ waiting[i + 1] = queue[i]
  <2>1. Before(m, queue, waiting)
    BY <1>3, Prefixed
  <2> QED
    BY <2>1 DEF Before
<1>6. Held(actors, row, m) = {}
  BY <1>3, <1>4 DEF Held, Answers, Serves, Requests
<1>7. Keeps(actors, a_sink) = {}
  BY <1>3 DEF Keeps, Direct, Rest, WithCust, PlainArgsBehs, BrandBehs, PairBehs, JoinBehs
<1>8. a_sink \notin open
  BY <1>1, <1>3 DEF Orderly, Told, OpenBehs, ValueBehs, ArgsBehs, PlainArgsBehs, BrandBehs, PairBehs, BothBehs, JoinBehs,
     MapBehs
<1>9. Shape(actors, waiting, turns)
  BY <1>2, <1>5 DEF Shape
<1>10. \A i \in DOMAIN waiting : MessageOK(actors, row, waiting[i])
  <2>1. MessageOK(actors, row, m)
    <3>1. SentOK(actors, row, a_sink, m.what)
      BY <1>3, <1>4 DEF SentOK, ObjectBehs, Immutable, Mutable, ValueBehs, ArgsBehs, PlainArgsBehs, BrandBehs, PairBehs,
         JoinBehs
    <3> QED
      BY <1>3, <1>4, <3>1 DEF MessageOK
  <2>2. \A i \in DOMAIN queue : MessageOK(actors, row, queue[i])
    BY <1>1 DEF Orderly
  <2> QED
    BY <1>5, <2>1, <2>2
<1>11. ~aborted => \A i \in DOMAIN waiting : waiting[i].to \in DOMAIN actors
  <2>1. ~aborted => \A i \in DOMAIN queue : queue[i].to \in DOMAIN actors
    BY <1>1 DEF Orderly
  <2> QED
    BY <1>3, <1>4, <1>5, <2>1
<1>12. Told(actors, waiting, out, open)
  <2>1. Told(actors, queue, out, open)
    BY <1>1 DEF Orderly
  <2>2. (\E i \in DOMAIN queue : queue[i].to \in DOMAIN actors /\ actors[queue[i].to].beh = "throw_beh")
          => \E i \in DOMAIN waiting : waiting[i].to \in DOMAIN actors /\ actors[waiting[i].to].beh = "throw_beh"
    <3>1. ASSUME NEW i \in DOMAIN queue, queue[i].to \in DOMAIN actors, actors[queue[i].to].beh = "throw_beh"
          PROVE  \E j \in DOMAIN waiting : waiting[j].to \in DOMAIN actors /\ actors[waiting[j].to].beh = "throw_beh"
      <4>1. i + 1 \in DOMAIN waiting /\ waiting[i + 1] = queue[i]
        BY <1>5
      <4> QED
        BY <3>1, <4>1
    <3> QED
      BY <3>1
  <2> QED
    BY <2>1, <2>2 DEF Told
<1>13. \A i \in DOMAIN waiting : \/ Held(actors, row, waiting[i]) = {}
                                 \/ i - 1 \in DOMAIN queue /\ waiting[i] = queue[i - 1] /\ i \in Nat
  BY <1>5, <1>6
<1>14. Unshared(actors, waiting, open, row)
  <2>1. Unshared(actors, queue, open, row)
    BY <1>1 DEF Orderly
  <2>2. ASSUME NEW i \in DOMAIN waiting, NEW j \in DOMAIN waiting, i # j
        PROVE  Held(actors, row, waiting[i]) \cap Held(actors, row, waiting[j]) = {}
    <3>1. CASE Held(actors, row, waiting[i]) # {} /\ Held(actors, row, waiting[j]) # {}
      <4>1. /\ i - 1 \in DOMAIN queue /\ waiting[i] = queue[i - 1] /\ i \in Nat
            /\ j - 1 \in DOMAIN queue /\ waiting[j] = queue[j - 1] /\ j \in Nat
        BY <1>13, <3>1
      <4>2. i - 1 # j - 1
        BY <2>2, <4>1
      <4> QED
        BY <2>1, <4>1, <4>2 DEF Unshared
    <3> QED
      BY <3>1
  <2>3. \A i \in DOMAIN waiting : Held(actors, row, waiting[i]) \subseteq open
    BY <1>13, <2>1 DEF Unshared
  <2>4. \A i \in DOMAIN waiting : \A a \in open : Held(actors, row, waiting[i]) \cap Keeps(actors, a) = {}
    BY <1>13, <2>1 DEF Unshared
  <2> QED
    BY <2>1, <2>2, <2>3, <2>4 DEF Unshared
<1>15. Unanswered(actors, waiting, turns, open, row)
  <2>1. Unanswered(actors, queue, turns, open, row)
    BY <1>1 DEF Orderly
  <2>2. \A i \in DOMAIN waiting :
          waiting[i].what.op # "tagged" => \A k \in Held(actors, row, waiting[i]) : Fresh(actors, turns, k)
    BY <1>13, <2>1 DEF Unanswered
  <2> QED
    BY <2>1, <2>2 DEF Unanswered
<1>16. Remembered(actors, waiting, open, row)
  <2>1. Remembered(actors, queue, open, row)
    BY <1>1 DEF Orderly
  <2>2. \A k : (\E i \in DOMAIN queue : k \in Held(actors, row, queue[i]))
                 => \E i \in DOMAIN waiting : k \in Held(actors, row, waiting[i])
    BY <1>5
  <2> QED
    BY <2>1, <2>2 DEF Remembered
<1>17. Rows(actors, waiting, open, row)
  <2>1. Rows(actors, queue, open, row)
    BY <1>1 DEF Orderly
  <2> QED
    BY <1>13, <2>1 DEF Rows
<1> QED
  BY <1>1, <1>6, <1>7, <1>8, <1>9, <1>10, <1>11, <1>12, <1>14, <1>15, <1>16, <1>17 DEF Orderly

(* C code makes objects and reports, ...                                   *)
Brings(new, more, row2, sent, N) ==
  /\ N = Newly(actors, more)
  /\ \A i \in DOMAIN new : \/ new[i].beh \in ObjectBehs /\ ObjectOK(more, new[i].beh, new[i].mine)
                           \/ new[i].beh = "report_beh" /\ new[i].mine = a_sink
  /\ \A i \in DOMAIN sent : /\ MessageOK(more, row2, sent[i]) /\ sent[i].to \in DOMAIN more
                            /\ Held(more, row2, sent[i]) \subseteq N
  /\ \A i, j \in DOMAIN sent : i = j
  /\ \A k \in N : \E i \in DOMAIN sent : k \in Held(more, row2, sent[i])

(* ... behind the other actors.                                            *)
Joining(row, new, more, row2) ==
  /\ IsSeq(more) /\ DOMAIN actors \subseteq DOMAIN more
  /\ \A a \in DOMAIN actors : more[a] = actors[a]
  /\ DOMAIN row2 = DOMAIN more /\ \A a \in DOMAIN actors : row2[a] = row[a]
  /\ \A i \in DOMAIN new :
       New(i) \in DOMAIN more /\ New(i) \notin DOMAIN actors /\ more[New(i)] = new[i] /\ row2[New(i)] = New(i)
  /\ \A a \in DOMAIN more : a \notin DOMAIN actors => \E i \in DOMAIN new : a = New(i)

LEMMA Behind ==
  ASSUME NEW row, IsSeq(actors), NEW new, IsSeq(new), NEW more, more = actors \o new,
         NEW row2, row2 = Extended(row, actors, more)
  PROVE  Joining(row, new, more, row2) /\ Len(more) = Len(actors) + Len(new)
<1>1. /\ DOMAIN actors = 1 .. Len(actors) /\ Len(actors) \in Nat
      /\ DOMAIN new = 1 .. Len(new) /\ Len(new) \in Nat
  BY LengthIs
<1>2. IsSeq(more) /\ DOMAIN more = 1 .. Len(actors) + Len(new) /\ Len(more) = Len(actors) + Len(new)
  BY ConcatenatedAt
<1>3. \A i \in 1 .. Len(actors) : more[i] = actors[i]
  BY ConcatenatedAt
<1>4. \A i \in Len(actors) + 1 .. Len(actors) + Len(new) : more[i] = new[i - Len(actors)]
  BY ConcatenatedAt
<1>5. DOMAIN actors \subseteq DOMAIN more /\ \A a \in DOMAIN actors : more[a] = actors[a]
  BY <1>1, <1>2, <1>3
<1>6. \A a \in DOMAIN more : row2[a] = IF a \in DOMAIN actors THEN row[a] ELSE a
  BY DEF Extended
<1>7. DOMAIN row2 = DOMAIN more
  BY DEF Extended
<1>8. ASSUME NEW i \in DOMAIN new
      PROVE  New(i) \in DOMAIN more /\ New(i) \notin DOMAIN actors /\ more[New(i)] = new[i] /\ row2[New(i)] = New(i)
  <2>1. New(i) \in Len(actors) + 1 .. Len(actors) + Len(new) /\ New(i) - Len(actors) = i
    BY <1>1 DEF New
  <2>2. more[New(i)] = new[i]
    BY <1>4, <2>1
  <2>3. New(i) \in DOMAIN more /\ New(i) \notin DOMAIN actors
    BY <1>1, <1>2, <2>1
  <2> QED
    BY <1>6, <2>2, <2>3
<1>9. ASSUME NEW a \in DOMAIN more, a \notin DOMAIN actors
      PROVE  \E i \in DOMAIN new : a = New(i)
  <2>1. a - Len(actors) \in DOMAIN new /\ a = New(a - Len(actors))
    BY <1>1, <1>2, <1>9 DEF New
  <2> QED
    BY <2>1
<1>10. \A a \in DOMAIN actors : row2[a] = row[a]
  BY <1>5, <1>6
<1> QED
  BY <1>2, <1>5, <1>7, <1>8, <1>9, <1>10 DEF Joining

(* What C code adds leaves an orderly state.                               *)
LEMMA OutsideStep ==
  ASSUME NEW open, NEW row, Invariant(open, row), NEW new, IsSeq(new), NEW sent, IsSeq(sent),
         NEW more, more = actors \o new, NEW row2, row2 = Extended(row, actors, more),
         NEW N, Brings(new, more, row2, sent, N), Outside(new, sent)
  PROVE  Onward
<1>1. PICK m, waiting : m = Message(a_sink, Value(NIL)) /\ waiting = <<m>> \o queue
  OBVIOUS
<1>2. /\ Orderly(actors, waiting, turns, out, aborted, open, row)
      /\ Held(actors, row, m) = {} /\ Keeps(actors, a_sink) = {} /\ a_sink \notin open
  BY <1>1, Virtual
<1>3. /\ Shape(actors, waiting, turns) /\ StatesOK(actors, row) /\ Told(actors, waiting, out, open)
      /\ (~aborted => \A i \in DOMAIN waiting : waiting[i].to \in DOMAIN actors)
  BY <1>2 DEF Orderly
<1>4. /\ IsSeq(actors) /\ IsSeq(turns) /\ Len(turns) = Len(actors)
      /\ a_sink \in DOMAIN actors /\ actors[a_sink].beh = "sink_beh" /\ Tagging(actors)
      /\ open \subseteq DOMAIN actors /\ IsSeq(out) /\ \A a \in DOMAIN turns : turns[a] \in Nat
  BY <1>3, Settles, StatesTag DEF Shape, Settled, Told
<1>5. IsSeq(queue)
  BY DEF Invariant, Orderly, Shape
<1>6. Tail(waiting) = queue /\ 1 \in DOMAIN waiting /\ waiting[1] = m
  <2>1. Before(m, queue, waiting)
    BY <1>1, <1>5, Prefixed
  <2> QED
    BY <2>1 DEF Before
<1>7. m.to = a_sink /\ m.what.op = "value"
  BY <1>1 DEF Message, Value
<1>8. Joining(row, new, more, row2) /\ Len(more) = Len(actors) + Len(new)
  BY <1>4, Behind
<1>9. /\ IsSeq(more) /\ DOMAIN actors \subseteq DOMAIN more
      /\ \A a \in DOMAIN actors : more[a] = actors[a]
      /\ DOMAIN row2 = DOMAIN more /\ \A a \in DOMAIN actors : row2[a] = row[a]
      /\ \A i \in DOMAIN new :
           New(i) \in DOMAIN more /\ New(i) \notin DOMAIN actors /\ more[New(i)] = new[i] /\ row2[New(i)] = New(i)
      /\ \A a \in DOMAIN more : a \notin DOMAIN actors => \E i \in DOMAIN new : a = New(i)
  BY <1>8 DEF Joining
<1>10. /\ N = Newly(actors, more)
       /\ \A i \in DOMAIN new : \/ new[i].beh \in ObjectBehs /\ ObjectOK(more, new[i].beh, new[i].mine)
                                \/ new[i].beh = "report_beh" /\ new[i].mine = a_sink
       /\ \A i \in DOMAIN sent : /\ MessageOK(more, row2, sent[i]) /\ sent[i].to \in DOMAIN more
                                 /\ Held(more, row2, sent[i]) \subseteq N
       /\ \A i, j \in DOMAIN sent : i = j
       /\ \A k \in N : \E i \in DOMAIN sent : k \in Held(more, row2, sent[i])
  BY DEF Brings
<1>11. PICK me, F, open2 : me = a_sink /\ F = {} /\ open2 = open \cup N
  OBVIOUS
<1>12. Grown(actors, me, more)
  BY <1>4, <1>9, <1>11 DEF Grown, Turned, Turning, Mutable, JoinBehs, MapBehs, HeadBehs
<1>13. ASSUME NEW a \in DOMAIN more, a \notin DOMAIN actors
       PROVE  /\ row2[a] = a
              /\ \/ more[a].beh \in ObjectBehs /\ ObjectOK(more, more[a].beh, more[a].mine)
                 \/ more[a].beh = "report_beh" /\ more[a].mine = a_sink
  BY <1>9, <1>10, <1>13
<1>14. "report_beh" \in PlainCusts /\ "report_beh" \notin ObjectBehs \cup MapBehs \cup JoinBehs
  BY DEF PlainCusts, ValueBehs, ObjectBehs, Immutable, Mutable, MapBehs, JoinBehs
<1>15. ASSUME NEW a \in DOMAIN more, a \notin DOMAIN actors
       PROVE  /\ StateOK(more, row2, a, more[a].beh, more[a].mine) /\ more[a].beh \in Kinds
              /\ Keeps(more, a) = {}
              /\ a \in N <=> more[a].beh = "report_beh"
              /\ more[a].beh \notin {"throw_beh", "tag_beh", "map_pair_beh"} \cup JoinBehs
  <2>1. CASE more[a].beh \in ObjectBehs
    <3>1. StateOK(more, row2, a, more[a].beh, more[a].mine) /\ more[a].beh \in Kinds /\ Keeps(more, a) = {}
          /\ more[a].beh \notin OpenBehs
      <4>1. PICK b, s : b = more[a].beh /\ s = more[a].mine
        OBVIOUS
      <4>2. b \in ObjectBehs /\ row2[a] = a /\ ObjectOK(more, b, s)
        BY <1>13, <1>14, <1>15, <2>1, <4>1
      <4>3. StateOK(more, row2, a, b, s) /\ b \in Kinds /\ b \notin OpenBehs /\ (more[a].beh = b => Keeps(more, a) = {})
        BY <4>2, ObjectState
      <4> QED
        BY <4>1, <4>3
    <3>2. more[a].beh \notin {"throw_beh", "tag_beh", "map_pair_beh"} \cup JoinBehs
      BY <2>1 DEF ObjectBehs, Immutable, Mutable, JoinBehs
    <3> QED
      BY <1>10, <1>14, <2>1, <3>1, <3>2 DEF Newly
  <2>2. CASE more[a].beh = "report_beh" /\ more[a].mine = a_sink
    <3>1. CustomerOK(more, "report_beh", a_sink)
      BY DEF CustomerOK, WithCust, PlainArgsBehs, BrandBehs, PairBehs
    <3>2. StateOK(more, row2, a, more[a].beh, more[a].mine) /\ more[a].beh \in Kinds /\ more[a].beh \in OpenBehs
      BY <1>13, <1>14, <1>15, <2>2, <3>1, CustomerState
    <3>3. Keeps(more, a) = {}
      BY <2>2 DEF Keeps, Direct, Rest, WithCust, PlainArgsBehs, BrandBehs, PairBehs, JoinBehs
    <3> QED
      BY <1>10, <1>14, <1>15, <2>2, <3>2, <3>3 DEF Newly
  <2> QED
    BY <1>13, <1>15, <2>1, <2>2
<1>16. N \subseteq DOMAIN more /\ N \cap DOMAIN actors = {} /\ \A a \in N : more[a].beh = "report_beh" /\ Keeps(more, a) = {}
  BY <1>10, <1>15 DEF Newly
<1>17. open2 = Later(actors, open, more, F)
  BY <1>10, <1>11 DEF Later
<1>18. N = Hands(actors, me, open2)
  BY <1>2, <1>4, <1>11, <1>16 DEF Hands
<1>19. N = Rights(actors, row, waiting[1], more, F)
  <2>1. InHand(actors, row, waiting[1]) = {}
    BY <1>2, <1>6, <1>7 DEF InHand
  <2> QED
    BY <1>10, <2>1 DEF Rights
<1>20. StatesDone(actors, more, row2)
  BY <1>9, <1>15 DEF StatesDone
<1>21. Handed(more, row2, sent, N, N)
  BY <1>10, <1>16 DEF Handed
<1>22. OnceMore(actors, me, more, row2, sent, N)
  BY <1>4, <1>9, <1>11, OneShots DEF OnceMore
<1>23. PassedOn(more, row2, sent, N, N)
  BY <1>10 DEF PassedOn
<1>24. out' = out /\ aborted' = aborted /\ queue' = queue \o sent /\ actors' = more
       /\ turns' = turns \o [i \in DOMAIN new |-> 0]
  BY DEF Outside
<1>25. ToldDone(actors, me, more, sent, out, out', F)
  <2>1. actors[me].beh = "sink_beh" /\ more[me] = actors[me]
    BY <1>4, <1>9, <1>11
  <2> QED
    BY <1>4, <1>15, <1>24, <2>1 DEF ToldDone
<1>26. JoinsDone(actors, me, more, N, open2)
  <2>1. ASSUME NEW t \in open2, more[t].beh = "tag_beh", t \notin DOMAIN actors \/ more[t].mine = me
        PROVE  FALSE
    <3>1. CASE t \in DOMAIN actors
      <4>1. IsIn(actors, JoinBehs, me)
        BY <1>4, <1>9, <2>1, <3>1 DEF Tagging
      <4> QED
        BY <1>4, <1>11, <4>1 DEF IsIn, JoinBehs
    <3>2. CASE t \notin DOMAIN actors
      BY <1>4, <1>11, <1>16, <2>1, <3>2
    <3> QED
      BY <3>1, <3>2
  <2>2. \A j \in N : \A t : ~Awaits(more[j], t)
    BY <1>16 DEF Awaits
  <2> QED
    BY <2>1, <2>2 DEF JoinsDone
<1>27. RowsDone(actors, more, row2, sent, N)
  <2>1. \A i \in DOMAIN sent : \A k \in Held(more, row2, sent[i]) : more[k].beh \notin MapBehs
    BY <1>10, <1>14, <1>16
  <2>2. \A x \in DOMAIN more : x \notin DOMAIN actors => more[x].beh # "map_pair_beh"
    BY <1>15
  <2> QED
    BY <1>16, <2>1, <2>2 DEF RowsDone
<1>28. Counted(actors, me, more, turns, turns')
  <2>1. PICK zeros : zeros = [i \in DOMAIN new |-> 0] /\ turns' = turns \o zeros
    BY <1>24
  <2>2. DOMAIN new = 1 .. Len(new) /\ Len(new) \in Nat
    BY LengthIs
  <2>3. zeros = [i \in 1 .. Len(new) |-> 0]
    BY <2>1, <2>2
  <2>4. zeros \in Seq({0}) /\ Len(zeros) = Len(new)
    BY <2>2, <2>3
  <2>5. IsSeq(zeros)
    BY <2>4 DEF IsSeq
  <2>6. PICK p, old : p = old \o zeros /\ p = turns' /\ old = turns /\ IsSeq(old)
    BY <1>4, <2>1
  <2>7. /\ IsSeq(p) /\ Len(p) = Len(turns) + Len(new) /\ DOMAIN p = 1 .. Len(turns) + Len(new)
        /\ \A i \in 1 .. Len(turns) : p[i] = turns[i]
    <3>1. IsSeq(p) /\ Len(p) = Len(old) + Len(zeros) /\ DOMAIN p = 1 .. Len(old) + Len(zeros)
      BY <2>5, <2>6, ConcatenatedAt
    <3>0. p = old \o zeros /\ IsSeq(old) /\ IsSeq(zeros)
      BY <2>5, <2>6
    <3>2. \A i \in 1 .. Len(old) : p[i] = old[i]
      BY <3>0, ConcatenatedAt
    <3> QED
      BY <2>4, <2>6, <3>1, <3>2
  <2>8. \A i \in Len(turns) + 1 .. Len(turns) + Len(new) : p[i] = zeros[i - Len(turns)]
    <3>0. p = old \o zeros /\ IsSeq(old) /\ IsSeq(zeros)
      BY <2>5, <2>6
    <3>1. \A i \in Len(old) + 1 .. Len(old) + Len(zeros) : p[i] = zeros[i - Len(old)]
      BY <3>0, ConcatenatedAt
    <3> QED
      BY <2>4, <2>6, <3>1
  <2>9. Len(turns) \in Nat /\ DOMAIN turns = 1 .. Len(turns) /\ DOMAIN actors = 1 .. Len(actors)
        /\ DOMAIN more = 1 .. Len(more)
    BY <1>4, <1>9, LengthIs
  <2>10. \A i \in Len(turns) + 1 .. Len(turns) + Len(new) : p[i] = 0
    <3>1. \A j \in 1 .. Len(new) : zeros[j] = 0
      BY <2>3
    <3>2. \A i \in Len(turns) + 1 .. Len(turns) + Len(new) : i - Len(turns) \in 1 .. Len(new)
      BY <2>2, <2>9
    <3> QED
      BY <2>8, <3>1, <3>2
  <2>11. Len(p) = Len(more)
    BY <1>4, <1>8, <2>7
  <2>12. \A a \in DOMAIN actors : p[a] = turns[a]
    BY <1>4, <2>7, <2>9
  <2>13. \A a \in DOMAIN more : a \notin DOMAIN actors => p[a] = 0
    BY <1>4, <1>8, <2>2, <2>9, <2>10
  <2>14. \A a \in DOMAIN p : p[a] \in Nat
    <3>1. ASSUME NEW a \in DOMAIN p
          PROVE  p[a] \in Nat
      <4>1. a \in DOMAIN turns \/ a \in Len(turns) + 1 .. Len(turns) + Len(new)
        BY <2>2, <2>7, <2>9
      <4> QED
        BY <1>4, <2>7, <2>9, <2>10, <4>1
    <3> QED
      BY <3>1
  <2>15. p[me] <= turns[me] + 1
    <3>1. p[me] = turns[me] /\ turns[me] \in Nat
      BY <1>4, <1>11, <2>9, <2>12
    <3> QED
      BY <3>1
  <2> QED
    BY <2>6, <2>7, <2>11, <2>12, <2>13, <2>14, <2>15 DEF Counted
<1>29. Acts(actors, waiting, turns, out, aborted, open, row, more, row2, F)
  BY <1>2, <1>4, <1>6, <1>7, <1>9, <1>11, <1>12 DEF Acts, Finishes
<1>30. me = waiting[1].to /\ queue' = Tail(waiting) \o sent
  BY <1>6, <1>7, <1>11, <1>24
<1>31. ~aborted' => ~aborted /\ \A i \in DOMAIN sent : sent[i].to \in DOMAIN more
  BY <1>10, <1>24
<1>32. \A i \in DOMAIN sent : MessageOK(more, row2, sent[i])
  BY <1>10
<1>33. Completes(actors, waiting, turns, out, aborted, open, row, more, row2, F, me, sent, queue', turns', out', aborted',
                 open2, N, N)
  BY <1>17, <1>18, <1>19, <1>20, <1>21, <1>22, <1>23, <1>25, <1>26, <1>27, <1>28, <1>29, <1>30, <1>31, <1>32 DEF Completes
<1>34. Orderly(more, queue', turns', out', aborted', open2, row2)
  BY <1>33, Step
<1> QED
  BY <1>24, <1>34 DEF Onward

(* Objects that are fixed.                                                 *)
LEMMA ObjectIsFixed ==
  ASSUME NEW all, NEW v \in DOMAIN all, NEW b, b = all[v].beh, b \in ObjectBehs, b # "brand_type", b # "cons_type"
  PROVE  IsFixed(all, v)
<1>1. b \in ObjectBehs \ {"brand_type"} /\ b \notin {"cons_type"}
  OBVIOUS
<1>2. IsIn(all, ObjectBehs \ {"brand_type"}, v)
  BY <1>1 DEF IsIn
<1>3. ~IsIn(all, {"cons_type"}, v)
  BY <1>1 DEF IsIn
<1> QED
  BY <1>2, <1>3 DEF IsFixed, IsValue

(* What was read is no mutable pair.                                       *)
Texts(more, n) == \A v \in Legible(n) : v \in DOMAIN more \cup {NIL, NotActor} => IsFixed(more, v)

LEMMA LegibleIs ==
  ASSUME NEW open, NEW row, Invariant(open, row), NEW n, n \in Nat, NEW new, NEW more, NEW row2,
         Joining(row, new, more, row2), 1 .. n \subseteq DOMAIN new, \A i \in 1 .. n : IsText(new[i], n)
  PROVE  /\ Texts(more, n)
         /\ \A i \in 1 .. n : new[i].beh \in ObjectBehs /\ ObjectOK(more, new[i].beh, new[i].mine)
<1>1. Shape(actors, queue, turns)
  BY DEF Invariant, Orderly
<1>2. /\ IsSeq(actors) /\ Len(actors) \in Nat /\ DOMAIN actors = 1 .. Len(actors) /\ Len(actors) >= 6
      /\ \A a \in 2 .. 6 : actors[a].beh \in {"unit_type", "null_type", "any_type", "bool_type"}
  BY <1>1, LengthIs DEF Shape
<1>3. /\ DOMAIN actors \subseteq DOMAIN more
      /\ \A a \in DOMAIN actors : more[a] = actors[a]
      /\ \A i \in DOMAIN new : New(i) \in DOMAIN more /\ more[New(i)] = new[i]
  BY DEF Joining
<1>4. \A i \in 1 .. n : new[i].beh \in {"number_type", "symbol_type", "pair_type"}
  BY DEF IsText
<1>5. ASSUME NEW v \in Legible(n), v \in DOMAIN more \cup {NIL, NotActor}
      PROVE  v \in {NIL, NotActor} \/ (v \in DOMAIN more /\
               more[v].beh \in {"unit_type", "null_type", "any_type", "bool_type", "number_type", "symbol_type", "pair_type"})
  <2>1. CASE v \in 2 .. 6
    BY <1>2, <1>3, <2>1
  <2>2. CASE v \in DOMAIN actors /\ actors[v].beh = "symbol_type"
    BY <1>3, <2>2
  <2>3. CASE v \in New(1) .. New(n)
    <3>1. v - Len(actors) \in 1 .. n /\ v = New(v - Len(actors))
      BY <1>2, <2>3 DEF New
    <3>2. v \in DOMAIN more /\ more[v] = new[v - Len(actors)]
      BY <1>3, <3>1
    <3> QED
      BY <1>4, <3>1, <3>2
  <2> QED
    BY <1>5, <2>1, <2>2, <2>3 DEF Legible, a_inert, a_false
<1>6. \A b \in {"unit_type", "null_type", "any_type", "bool_type", "number_type", "symbol_type", "pair_type"} :
         b \in ObjectBehs \ {"brand_type", "cons_type"}
  BY DEF ObjectBehs, Immutable
<1>7. Texts(more, n)
  <2>1. ASSUME NEW v \in Legible(n), v \in DOMAIN more \cup {NIL, NotActor}
        PROVE  IsFixed(more, v)
    <3>1. CASE v \in DOMAIN more /\ more[v].beh \in ObjectBehs \ {"brand_type", "cons_type"}
      <4>1. PICK b : b = more[v].beh
        OBVIOUS
      <4>2. b \in ObjectBehs /\ b # "brand_type" /\ b # "cons_type"
        BY <3>1, <4>1
      <4> QED
        BY <3>1, <4>1, <4>2, ObjectIsFixed
    <3>2. CASE v \in {NIL, NotActor}
      <4>1. IsSeq(more)
        BY DEF Joining
      <4>2. v \notin DOMAIN more
        BY <3>2, <4>1, LengthIs DEF NIL, NotActor
      <4> QED
        BY <3>2, <4>2 DEF IsFixed, IsValue, IsIn
    <3> QED
      BY <1>5, <1>6, <2>1, <3>1, <3>2
  <2> QED
    BY <2>1 DEF Texts
<1>8. ASSUME NEW i \in 1 .. n
      PROVE  new[i].beh \in ObjectBehs /\ ObjectOK(more, new[i].beh, new[i].mine)
  <2>1. new[i].beh \in ObjectBehs
    BY <1>4, <1>6
  <2>2. CASE new[i].beh \in {"number_type", "symbol_type"}
    <3>1. PICK b, s : b = new[i].beh /\ s = new[i].mine
      OBVIOUS
    <3>2. b = "number_type" \/ b = "symbol_type"
      BY <2>2, <3>1
    <3>3. ObjectOK(more, b, s)
      BY <3>2 DEF ObjectOK
    <3> QED
      BY <2>1, <3>1, <3>3
  <2>3. CASE new[i].beh = "pair_type"
    <3>1. new[i].mine.hd \in Legible(n) /\ new[i].mine.tl \in Legible(n)
      BY <2>3 DEF IsText
    <3>2. IsFixed(more, new[i].mine.hd) /\ IsFixed(more, new[i].mine.tl)
      <4>1. Legible(n) \subseteq DOMAIN more \cup {NIL, NotActor}
        <5>1. ASSUME NEW v \in Legible(n) PROVE v \in DOMAIN more \cup {NIL, NotActor}
          <6>1. CASE v \in 2 .. 6
            BY <1>2, <1>3, <6>1
          <6>2. CASE v \in New(1) .. New(n)
            <7>1. v - Len(actors) \in DOMAIN new /\ v = New(v - Len(actors))
              BY <1>2, <6>2 DEF New
            <7> QED
              BY <1>3, <7>1
          <6> QED
            BY <1>3, <6>1, <6>2 DEF Legible, a_inert, a_false
        <5> QED
          BY <5>1
      <4> QED
        BY <1>7, <3>1, <4>1 DEF Texts
    <3> QED
      <4>1. PICK b, s : b = new[i].beh /\ s = new[i].mine
        OBVIOUS
      <4>2. b = "pair_type" /\ IsFixed(more, s.hd) /\ IsFixed(more, s.tl)
        BY <2>3, <3>2, <4>1
      <4>3. ObjectOK(more, b, s)
        BY <4>2 DEF ObjectOK
      <4> QED
        BY <2>1, <4>1, <4>3
  <2> QED
    BY <1>4, <2>1, <2>2, <2>3
<1> QED
  BY <1>7, <1>8

(* Only objects are made.                                                  *)
LEMMA OutsideMakes ==
  ASSUME NEW open, NEW row, Invariant(open, row), NEW new, IsSeq(new),
         NEW more, more = actors \o new, NEW row2, row2 = Extended(row, actors, more),
         \A i \in DOMAIN new : new[i].beh \in ObjectBehs /\ ObjectOK(more, new[i].beh, new[i].mine),
         NEW sent, IsSeq(sent), \A i, j \in DOMAIN sent : i = j,
         \A i \in DOMAIN sent : /\ MessageOK(more, row2, sent[i]) /\ sent[i].to \in DOMAIN more
                                /\ Held(more, row2, sent[i]) = {},
         Outside(new, sent)
  PROVE  Onward
<1>1. IsSeq(actors)
  BY DEF Invariant, Orderly, Shape
<1>2. Joining(row, new, more, row2)
  BY <1>1, Behind
<1>3. \A a \in DOMAIN more : a \notin DOMAIN actors => more[a].beh \in ObjectBehs
  BY <1>2 DEF Joining
<1>4. ObjectBehs \cap OpenBehs = {}
  BY DEF ObjectBehs, Immutable, Mutable, OpenBehs, ValueBehs, ArgsBehs, PlainArgsBehs, BrandBehs, PairBehs, BothBehs,
     JoinBehs, MapBehs
<1>5. Newly(actors, more) = {}
  BY <1>3, <1>4 DEF Newly
<1>6. PICK N : N = {}
  OBVIOUS
<1>7. Brings(new, more, row2, sent, N)
  BY <1>5, <1>6 DEF Brings
<1> QED
  BY <1>7, OutsideStep

(* A new environment.                                                      *)
LEMMA OpensDone ==
  ASSUME NEW open, NEW row, Invariant(open, row), Opens
  PROVE  Onward
<1>1. PICK env \in DOMAIN actors : actors[env].beh = "env_type" /\ Outside(<<Actor("env_type", Env(env, Empty))>>, << >>)
  BY DEF Opens
<1>2. PICK s, new, more, row2, sent :
        /\ s = Env(env, Empty) /\ new = <<Actor("env_type", s)>> /\ more = actors \o new
        /\ row2 = Extended(row, actors, more) /\ sent = << >>
  OBVIOUS
<1>3. IsSeq(new) /\ DOMAIN new = {1} /\ new[1].beh = "env_type" /\ new[1].mine = s /\ IsSeq(sent) /\ DOMAIN sent = {}
  BY <1>2, OneSent DEF Actor
<1>4. IsSeq(actors)
  BY DEF Invariant, Orderly, Shape
<1>5. Joining(row, new, more, row2)
  BY <1>2, <1>3, <1>4, Behind
<1>6. IsValue(more, env)
  BY <1>1, <1>5 DEF Joining, IsValue, IsIn, ObjectBehs, Mutable
<1>7. s.parent = env /\ DOMAIN s.map = {}
  BY <1>2 DEF Env, Empty
<1>8. ObjectOK(more, "env_type", s) /\ "env_type" \in ObjectBehs
  BY <1>6, <1>7 DEF ObjectOK, ObjectBehs, Mutable
<1>9. Outside(new, sent)
  BY <1>1, <1>2
<1> QED
  BY <1>2, <1>3, <1>8, <1>9, OutsideMakes

(* An expression is read, and perhaps evaluated.                           *)
LEMMA ReadsDone ==
  ASSUME NEW open, NEW row, Invariant(open, row), Reads
  PROVE  Onward
<1>1. PICK n \in 0 .. Len(actors') - Len(actors) :
        /\ \A i \in 1 .. n : IsText(Made(n)[i], n)
        /\ \/ Outside(Made(n), << >>)
           \/ \E x \in Legible(n) \cap DOMAIN actors', env \in DOMAIN actors :
                /\ actors[env].beh = "env_type"
                /\ \/ Outside(Made(n), <<Message(x, Eval(a_sink, env))>>)
                   \/ Outside(Made(n) \o <<Actor("report_beh", a_sink)>>, <<Message(x, Eval(New(n + 1), env))>>)
  BY DEF Reads
<1>2. n \in Nat
  OBVIOUS
<1>3. PICK made : made = Made(n)
  OBVIOUS
<1>4. IsSeq(made) /\ DOMAIN made = 1 .. n /\ Len(made) = n
  <2>1. IsSeq(made) /\ DOMAIN made = 1 .. n
    BY <1>2, <1>3, MadeIsSeq DEF Made
  <2> QED
    BY <1>2, <2>1, LengthIs
<1>5. \A i \in 1 .. n : IsText(made[i], n)
  BY <1>1, <1>3
<1>6. Shape(actors, queue, turns) /\ StatesOK(actors, row)
  BY DEF Invariant, Orderly
<1>7. IsSeq(actors) /\ a_sink \in DOMAIN actors /\ actors[a_sink].beh = "sink_beh" /\ row[a_sink] = a_sink
  <2>1. IsSeq(actors) /\ a_sink \in DOMAIN actors /\ actors[a_sink].beh = "sink_beh"
    BY <1>6, Settles DEF Settled
  <2>2. MapOK(actors, row, a_sink, actors[a_sink].beh, actors[a_sink].mine)
    BY <1>6, <2>1 DEF StatesOK, StateOK
  <2> QED
    BY <2>1, <2>2 DEF MapOK, HeadBehs
<1>8. CASE Outside(made, << >>)
  <2>1. PICK more, row2, sent : more = actors \o made /\ row2 = Extended(row, actors, more) /\ sent = << >>
    OBVIOUS
  <2>2. Joining(row, made, more, row2)
    BY <1>4, <1>7, <2>1, Behind
  <2>3. \A i \in 1 .. n : made[i].beh \in ObjectBehs /\ ObjectOK(more, made[i].beh, made[i].mine)
    BY <1>2, <1>4, <1>5, <2>2, LegibleIs
  <2>4. IsSeq(sent) /\ DOMAIN sent = {} /\ Outside(made, sent)
    BY <1>8, <2>1, OneSent
  <2> QED
    BY <1>4, <2>1, <2>3, <2>4, OutsideMakes
<1>9. ASSUME NEW x \in Legible(n) \cap DOMAIN actors', NEW env \in DOMAIN actors, actors[env].beh = "env_type",
             Outside(made, <<Message(x, Eval(a_sink, env))>>)
      PROVE  Onward
  <2>1. PICK more, row2, w, m, sent :
          /\ more = actors \o made /\ row2 = Extended(row, actors, more)
          /\ w = Eval(a_sink, env) /\ m = Message(x, w) /\ sent = <<m>>
    OBVIOUS
  <2>2. Joining(row, made, more, row2)
    BY <1>4, <1>7, <2>1, Behind
  <2>3. /\ Texts(more, n)
        /\ \A i \in 1 .. n : made[i].beh \in ObjectBehs /\ ObjectOK(more, made[i].beh, made[i].mine)
    BY <1>2, <1>4, <1>5, <2>2, LegibleIs
  <2>4. IsSeq(sent) /\ DOMAIN sent = {1} /\ sent[1] = m /\ Outside(made, sent)
    BY <1>9, <2>1, OneSent
  <2>5. x \in DOMAIN more
    BY <1>9, <2>1 DEF Outside
  <2>6. /\ IsSeq(more) /\ a_sink \in DOMAIN more /\ more[a_sink].beh = "sink_beh" /\ row2[a_sink] = a_sink
        /\ env \in DOMAIN more /\ more[env].beh = "env_type"
    BY <1>7, <1>9, <2>2 DEF Joining
  <2>7. IsValue(more, x) /\ IsValue(more, env) /\ Cust(more, a_sink)
    <3>1. IsValue(more, x)
      BY <1>9, <2>3, <2>5 DEF Texts, IsFixed
    <3>2. IsValue(more, env)
      BY <2>6 DEF IsValue, IsIn, ObjectBehs, Mutable
    <3>3. ~WaitsForCopy(more, a_sink)
      BY <2>6 DEF WaitsForCopy, IsIn
    <3> QED
      BY <3>1, <3>2, <3>3 DEF Cust, AnyCust
  <2>8. RequestOK(more, x, w) /\ w.cust = a_sink
    BY <2>1, <2>6, <2>7, RequestsAre DEF Eval
  <2>9. Fits(more, row2, m, row2[w.cust])
    BY <2>1, <2>6, <2>7, <2>8, RequestFits
  <2>10. MessageOK(more, row2, m) /\ Held(more, row2, m) = {} /\ m.to = x
    BY <2>1, <2>6, <2>8, <2>9 DEF Fits, Message
  <2>11. \A i \in DOMAIN sent : MessageOK(more, row2, sent[i]) /\ sent[i].to \in DOMAIN more /\ Held(more, row2, sent[i]) = {}
    BY <2>4, <2>5, <2>10
  <2>12. \A i, j \in DOMAIN sent : i = j
    BY <2>4
  <2>13. IsSeq(made) /\ \A i \in DOMAIN made : made[i].beh \in ObjectBehs /\ ObjectOK(more, made[i].beh, made[i].mine)
    BY <1>4, <2>3
  <2>14. more = actors \o made /\ row2 = Extended(row, actors, more) /\ IsSeq(sent) /\ Outside(made, sent)
    BY <2>1, <2>4
  <2> QED
    BY <2>11, <2>12, <2>13, <2>14, OutsideMakes
<1>10. ASSUME NEW x \in Legible(n) \cap DOMAIN actors', NEW env \in DOMAIN actors, actors[env].beh = "env_type",
              Outside(made \o <<Actor("report_beh", a_sink)>>, <<Message(x, Eval(New(n + 1), env))>>)
       PROVE  Onward
  <2>1. PICK last, new, more, row2, k, w, m, sent :
          /\ last = <<Actor("report_beh", a_sink)>> /\ new = made \o last
          /\ more = actors \o new /\ row2 = Extended(row, actors, more)
          /\ k = New(n + 1) /\ w = Eval(k, env) /\ m = Message(x, w) /\ sent = <<m>>
    OBVIOUS
  <2>2. IsSeq(last) /\ DOMAIN last = {1} /\ Len(last) = 1 /\ last[1].beh = "report_beh" /\ last[1].mine = a_sink
    BY <2>1, OneSent DEF Actor
  <2>3. /\ IsSeq(new) /\ DOMAIN new = 1 .. n + 1
        /\ (\A i \in 1 .. n : new[i] = made[i])
        /\ new[n + 1] = last[1]
    <3>1. IsSeq(new) /\ DOMAIN new = 1 .. Len(made) + Len(last)
      BY <1>4, <2>1, <2>2, ConcatenatedAt
    <3>2. \A i \in 1 .. Len(made) : new[i] = made[i]
      BY <1>4, <2>1, <2>2, ConcatenatedAt
    <3>3. \A i \in Len(made) + 1 .. Len(made) + Len(last) : new[i] = last[i - Len(made)]
      BY <1>4, <2>1, <2>2, ConcatenatedAt
    <3> QED
      BY <1>2, <1>4, <2>2, <3>1, <3>2, <3>3
  <2>4. Joining(row, new, more, row2)
    BY <1>7, <2>1, <2>3, Behind
  <2>5. 1 .. n \subseteq DOMAIN new /\ \A i \in 1 .. n : IsText(new[i], n)
    BY <1>2, <1>5, <2>3
  <2>6. /\ Texts(more, n)
        /\ \A i \in 1 .. n : new[i].beh \in ObjectBehs /\ ObjectOK(more, new[i].beh, new[i].mine)
    BY <1>2, <2>4, <2>5, LegibleIs
  <2>7. IsSeq(sent) /\ DOMAIN sent = {1} /\ sent[1] = m /\ Outside(new, sent)
    BY <1>10, <2>1, OneSent
  <2>8. x \in DOMAIN more
    BY <1>10, <2>1 DEF Outside
  <2>9. n + 1 \in DOMAIN new
    BY <1>2, <2>3
  <2>10. /\ IsSeq(more) /\ a_sink \in DOMAIN actors /\ DOMAIN actors \subseteq DOMAIN more
         /\ env \in DOMAIN more /\ more[env].beh = "env_type"
         /\ k \in DOMAIN more /\ k \notin DOMAIN actors /\ more[k] = last[1] /\ row2[k] = k /\ k # a_sink
    BY <1>7, <1>10, <2>1, <2>3, <2>4, <2>9 DEF Joining
  <2>11. Cust(more, k)
    BY <2>2, <2>10, NewCust DEF ValueBehs
  <2>12. IsValue(more, x) /\ IsValue(more, env)
    BY <1>10, <2>6, <2>8, <2>10 DEF Texts, IsFixed, IsValue, IsIn, ObjectBehs, Mutable
  <2>13. RequestOK(more, x, w) /\ w.cust = k
    BY <2>1, <2>10, <2>11, <2>12, RequestsAre DEF Eval
  <2>14. Fits(more, row2, m, row2[w.cust])
    BY <2>1, <2>10, <2>12, <2>13, RequestFits
  <2>15. MessageOK(more, row2, m) /\ Held(more, row2, m) = {k} /\ m.to = x
    BY <2>1, <2>10, <2>13, <2>14 DEF Fits, Message
  <2>16. \A i \in DOMAIN new : i \in 1 .. n \/ i = n + 1
    BY <1>2, <2>3
  <2>17. ObjectBehs \cap OpenBehs = {} /\ "report_beh" \in OpenBehs
    BY DEF ObjectBehs, Immutable, Mutable, OpenBehs, ValueBehs, ArgsBehs, PlainArgsBehs, BrandBehs, PairBehs, BothBehs,
       JoinBehs, MapBehs
  <2>18. \A a \in DOMAIN more : a \notin DOMAIN actors => a = k \/ more[a].beh \in ObjectBehs
    <3>1. ASSUME NEW a \in DOMAIN more, a \notin DOMAIN actors
          PROVE  a = k \/ more[a].beh \in ObjectBehs
      <4>1. PICK i \in DOMAIN new : a = New(i) /\ more[a] = new[i]
        BY <2>4, <3>1 DEF Joining
      <4> QED
        BY <2>1, <2>6, <2>16, <4>1
    <3> QED
      BY <3>1
  <2>19. PICK N : N = {k}
    OBVIOUS
  <2>20. N = Newly(actors, more)
    BY <2>2, <2>10, <2>17, <2>18, <2>19 DEF Newly
  <2>21. \A i \in DOMAIN new : \/ new[i].beh \in ObjectBehs /\ ObjectOK(more, new[i].beh, new[i].mine)
                               \/ new[i].beh = "report_beh" /\ new[i].mine = a_sink
    BY <2>2, <2>3, <2>6, <2>16
  <2>22. \A i \in DOMAIN sent : sent[i] = m /\ i = 1
    BY <2>7
  <2>23. Brings(new, more, row2, sent, N)
    BY <2>7, <2>8, <2>15, <2>19, <2>20, <2>21, <2>22 DEF Brings
  <2> QED
    BY <2>1, <2>3, <2>7, <2>23, OutsideStep
<1> QED
  BY <1>1, <1>3, <1>8, <1>9, <1>10

-----------------------------------------------------------------------------
(* All steps.                                                              *)

LEMMA ObjectsGoOn ==
  ASSUME NEW open, NEW row, Invariant(open, row), ObjectNext
  PROVE  Onward
<1>1. ObjectNext =>
        \/ unit_type \/ any_type \/ number_type \/ bool_type \/ symbol_type \/ null_type
        \/ dotted_tail_beh \/ dotted_close_beh
        \/ cons_type \/ pair_type
        \/ pair_comb_beh \/ pair_copy_beh \/ pair_map_beh \/ pair_foldl_beh \/ pair_write_tail_beh
  BY DEF ObjectNext
<1>2. ASSUME unit_type \/ any_type \/ number_type PROVE Onward
  BY <1>2, ConstantTypes
<1>3. ASSUME bool_type \/ symbol_type \/ null_type PROVE Onward
  BY <1>3, BoolType, SymbolType, NullType
<1>4. ASSUME dotted_tail_beh \/ dotted_close_beh PROVE Onward
  BY <1>4, DottedTail, DottedClose
<1>5. ASSUME cons_type \/ pair_type PROVE Onward
  BY <1>5, ConsType, PairType
<1>6. ASSUME pair_comb_beh \/ pair_copy_beh \/ pair_map_beh \/ pair_foldl_beh \/ pair_write_tail_beh PROVE Onward
  BY <1>6, PairComb, PairCopy, PairMap, PairFold, PairWriteTail
<1> QED
  BY <1>1, <1>2, <1>3, <1>4, <1>5, <1>6

LEMMA CombinersGoOn ==
  ASSUME NEW open, NEW row, Invariant(open, row), CombinerNext
  PROVE  Onward
<1>1. CombinerNext =>
        \/ command_beh \/ args_oper
        \/ appl_type \/ appl_args_beh \/ wrap_args_beh \/ unwrap_args_beh
        \/ sequence_oper \/ eval_args_beh \/ apply_args_beh \/ define_args_beh
        \/ if_args_beh \/ if_test_beh \/ make_env_args_beh
        \/ concurrent_oper \/ concurrent_args_beh
        \/ vau_type \/ lambda_type \/ vau_oper \/ lambda_oper
        \/ vau_vars_beh \/ vau_evar_beh \/ lambda_vars_beh
        \/ type_pred_oper \/ obj_rel_oper \/ list_oper
        \/ cons_args_beh \/ car_oper \/ cdr_oper
        \/ set_car_args_beh \/ set_cdr_args_beh \/ copy_es_immutable_args_beh
        \/ write_args_beh \/ newline_args_beh
  BY DEF CombinerNext
<1>2. ASSUME command_beh \/ args_oper \/ appl_type \/ appl_args_beh PROVE Onward
  BY <1>2, Command, ArgsOperative, ApplType, ApplArgs
<1>3. ASSUME wrap_args_beh \/ cons_args_beh \/ make_env_args_beh \/ unwrap_args_beh PROVE Onward
  BY <1>3, MakingArgs, MakeEnvArgs, UnwrapArgs
<1>4. ASSUME eval_args_beh \/ set_car_args_beh \/ set_cdr_args_beh \/ copy_es_immutable_args_beh \/ write_args_beh
      PROVE  Onward
  BY <1>4, SendingArgs
<1>5. ASSUME sequence_oper \/ apply_args_beh \/ define_args_beh \/ if_args_beh \/ if_test_beh PROVE Onward
  BY <1>5, SequenceOper, ApplyArgs, AskingArgs, IfTest
<1>6. ASSUME concurrent_oper \/ concurrent_args_beh \/ vau_type \/ lambda_type \/ vau_oper \/ lambda_oper PROVE Onward
  BY <1>6, ConcurrentOper, ConcurrentArgs, ClosureTypes, MakesClosures
<1>7. ASSUME vau_vars_beh \/ vau_evar_beh \/ lambda_vars_beh \/ newline_args_beh PROVE Onward
  BY <1>7, VauVars, VauEvar, LambdaVars, NewlineArgs
<1>8. ASSUME type_pred_oper \/ obj_rel_oper \/ list_oper \/ car_oper \/ cdr_oper PROVE Onward
  BY <1>8, TypePredOper, ReplyingOpers
<1> QED
  BY <1>1, <1>2, <1>3, <1>4, <1>5, <1>6, <1>7, <1>8

LEMMA EncapsulationsGoOn ==
  ASSUME NEW open, NEW row, Invariant(open, row), EncapsulationNext
  PROVE  Onward
<1>1. EncapsulationNext =>
        \/ sealed_type \/ brand_type \/ brand_oper
        \/ seal_args_beh \/ unseal_args_beh \/ brand_args_beh
        \/ num_rel_oper \/ num_foldl_oper
        \/ time_type \/ time_args_beh \/ timed_oper \/ timed_cust_beh
  BY DEF EncapsulationNext
<1>2. ASSUME sealed_type \/ brand_type \/ brand_oper PROVE Onward
  BY <1>2, SealedType, BrandType, BrandOperative
<1>3. ASSUME seal_args_beh \/ unseal_args_beh \/ brand_args_beh PROVE Onward
  BY <1>3, BrandArgs, BrandArgsMake
<1>4. ASSUME num_rel_oper \/ num_foldl_oper PROVE Onward
  BY <1>4, ReplyingOpers, NumFoldl
<1>5. ASSUME time_type \/ time_args_beh \/ timed_oper \/ timed_cust_beh PROVE Onward
  BY <1>5, ConstantTypes, MakingArgs, TimedOper, TimedCust
<1> QED
  BY <1>1, <1>2, <1>3, <1>4, <1>5

LEMMA MapsGoOn ==
  ASSUME NEW open, NEW row, Invariant(open, row), MapNext
  PROVE  Onward
<1>1. MapNext => \/ map_args_beh \/ map_unwrap_beh \/ map_comb_beh \/ map_tail_beh
                 \/ map_head_beh \/ map_pair_beh \/ map_next_beh
  BY DEF MapNext
<1>2. ASSUME map_args_beh \/ map_unwrap_beh \/ map_comb_beh \/ map_tail_beh PROVE Onward
  BY <1>2, MapArgs, MapUnwrap, MapComb, MapTail
<1>3. ASSUME map_head_beh \/ map_pair_beh \/ map_next_beh PROVE Onward
  BY <1>3, MapHead, MapPair, MapNextBeh
<1> QED
  BY <1>1, <1>2, <1>3

(* Every behaviour leaves an orderly state.                                *)
LEMMA AllGoOn ==
  ASSUME NEW open, NEW row, Invariant(open, row), EvaluatorNext
  PROVE  Onward
<1>1. EvaluatorNext =>
        \/ sink_beh \/ throw_beh
        \/ fork_beh \/ tag_beh \/ join_beh \/ join_rest_beh \/ join_first_beh
        \/ ObjectNext \/ env_type \/ define_match_beh
        \/ CombinerNext \/ MapNext \/ EncapsulationNext
        \/ newline_beh \/ report_beh
  BY DEF EvaluatorNext, ForkJoinNext, EnvironmentNext
<1>2. ASSUME sink_beh \/ throw_beh \/ newline_beh \/ report_beh PROVE Onward
  BY <1>2, SinkBeh, ThrowBeh, Newline, ReportBeh
<1>3. ASSUME fork_beh \/ tag_beh \/ join_beh \/ join_rest_beh \/ join_first_beh PROVE Onward
  BY <1>3, ForkBeh, TagBeh, Joins
<1>4. ASSUME env_type \/ define_match_beh PROVE Onward
  BY <1>4, EnvType, DefineMatch
<1>5. ASSUME ObjectNext \/ CombinerNext \/ MapNext \/ EncapsulationNext PROVE Onward
  BY <1>5, ObjectsGoOn, CombinersGoOn, MapsGoOn, EncapsulationsGoOn
<1> QED
  BY <1>1, <1>2, <1>3, <1>4, <1>5

(* Some rights make every state orderly.                                   *)
IsOrderly == \E open, row : Invariant(open, row)

(* So does every step of the program.                                      *)
LEMMA StepsAreOrderly == IsOrderly /\ [EvaluatorNext \/ Reads \/ Opens]_vars => IsOrderly'
<1> SUFFICES ASSUME IsOrderly, [EvaluatorNext \/ Reads \/ Opens]_vars
             PROVE  IsOrderly'
  OBVIOUS
<1>1. PICK open, row : Invariant(open, row)
  BY DEF IsOrderly
<1>2. CASE EvaluatorNext \/ Reads \/ Opens
  <2>1. Onward
    BY <1>1, <1>2, AllGoOn, ReadsDone, OpensDone
  <2> QED
    BY <2>1 DEF Onward, IsOrderly, Invariant
<1>3. CASE UNCHANGED vars
  <2>1. Orderly(actors', queue', turns', out', aborted', open, row)
    BY <1>1, <1>3 DEF vars, Invariant
  <2> QED
    BY <2>1 DEF IsOrderly, Invariant
<1> QED
  BY <1>2, <1>3

-----------------------------------------------------------------------------
(* The actors of init_kernel.                                              *)

(* The first actors.                                                       *)
PlainOpers ==
  {"args_oper", "vau_oper", "lambda_oper", "sequence_oper", "concurrent_oper", "timed_oper", "type_pred_oper",
   "obj_rel_oper", "list_oper", "car_oper", "cdr_oper", "num_rel_oper", "num_foldl_oper"}

LEMMA PrimitivesArePlain ==
  \A i \in 1 .. 43 : /\ Primitives[i][2].beh \in PlainOpers
                     /\ Primitives[i][2].beh = "args_oper" => Primitives[i][2].mine \in PlainArgsBehs \cup {"map_args_beh"}
<1>1. \A i \in 1 .. 36 : Applicatives[i][2].beh \in PlainOpers
  BY SMTT(60) DEF Applicatives, PlainOpers, ArgsOper, TypePred, Actor
<1>2. \A i \in 1 .. 36 : Applicatives[i][2].beh = "args_oper" =>
        Applicatives[i][2].mine \in PlainArgsBehs \cup {"map_args_beh"}
  BY SMTT(60) DEF Applicatives, PlainArgsBehs, ArgsOper, TypePred, Actor
<1>3. \A i \in 1 .. 7 : /\ Operatives[i][2].beh \in PlainOpers
                        /\ Operatives[i][2].beh = "args_oper" => Operatives[i][2].mine \in PlainArgsBehs
  BY SMTT(60) DEF Operatives, PlainOpers, PlainArgsBehs, ArgsOper, Actor
<1>4. \A i \in 37 .. 43 : i - 36 \in 1 .. 7
  OBVIOUS
<1>5. ASSUME NEW i \in 1 .. 43
      PROVE  /\ Primitives[i][2].beh \in PlainOpers
             /\ Primitives[i][2].beh = "args_oper" => Primitives[i][2].mine \in PlainArgsBehs \cup {"map_args_beh"}
  <2>1. CASE i \in 1 .. 36
    <3>1. Primitives[i] = Applicatives[i]
      BY <2>1, PrimitivesAre
    <3> QED
      BY <1>1, <1>2, <2>1, <3>1
  <2>2. CASE i \in 37 .. 43
    <3>1. Primitives[i] = Operatives[i - 36] /\ i - 36 \in 1 .. 7
      BY <1>4, <2>2, PrimitivesAre
    <3> QED
      BY <1>3, <3>1
  <2> QED
    BY <2>1, <2>2
<1> QED
  BY <1>5

(* What init_kernel makes, actor by actor.                                 *)
Founded(all) ==
  /\ IsSeq(all) /\ Len(all) = 86 /\ DOMAIN all = 1 .. 86
  /\ all[1] = Actor("sink_beh", NIL)
  /\ \A a \in 2 .. 6 : all[a].beh \in {"unit_type", "null_type", "any_type", "bool_type"}
  /\ \A a \in 7 .. 49 : all[a] = Primitives[a - 6][2]
  /\ \A a \in 50 .. 85 : all[a] = Actor("appl_type", a - 43)
  /\ all[86] = Actor("env_type", Env(NIL, ground_map))

(* The six constants.                                                      *)
LEMMA ConstantsMade ==
  /\ IsSeq(Constants) /\ Len(Constants) = 6 /\ DOMAIN Constants = 1 .. 6 /\ Constants[1] = Actor("sink_beh", NIL)
  /\ \A a \in 2 .. 6 : Constants[a].beh \in {"unit_type", "null_type", "any_type", "bool_type"}
<1>1. IsSeq(Constants)
  <2>1. \A a, b, c, d, e, f : <<a, b, c, d, e, f>> \in Seq({a, b, c, d, e, f})
    OBVIOUS
  <2> QED
    BY <2>1 DEF Constants, IsSeq
<1>2. Len(Constants) = 6 /\ DOMAIN Constants = 1 .. 6 /\ Constants[1] = Actor("sink_beh", NIL)
  BY DEF Constants
<1>3. \A a \in 2 .. 6 : Constants[a].beh \in {"unit_type", "null_type", "any_type", "bool_type"}
  BY DEF Constants, Actor
<1> QED
  BY <1>1, <1>2, <1>3

(* Two sequences, one after the other.                                     *)
Appended(s, t, p) ==
  /\ IsSeq(p) /\ Len(p) = Len(s) + Len(t)
  /\ \A i \in 1 .. Len(s) : p[i] = s[i]
  /\ \A i \in Len(s) + 1 .. Len(s) + Len(t) : p[i] = t[i - Len(s)]

LEMMA Appends ==
  ASSUME NEW s, IsSeq(s), NEW t, IsSeq(t), NEW p, p = s \o t
  PROVE  Appended(s, t, p)
<1>1. IsSeq(p) /\ Len(p) = Len(s) + Len(t)
  BY ConcatenatedAt
<1>2. \A i \in 1 .. Len(s) : p[i] = s[i]
  BY ConcatenatedAt
<1>3. \A i \in Len(s) + 1 .. Len(s) + Len(t) : p[i] = t[i - Len(s)]
  BY ConcatenatedAt
<1> QED
  BY <1>1, <1>2, <1>3 DEF Appended

(* init_kernel makes these.                                                *)
LEMMA KernelIsFounded ==
  ASSUME init_kernel
  PROVE  Founded(actors)
<1>1. PICK combiners : combiners = [i \in DOMAIN Primitives |-> Primitives[i][2]]
  OBVIOUS
<1>2. PICK wrapped : wrapped = [i \in DOMAIN Applicatives |-> Actor("appl_type", Constant(i))]
  OBVIOUS
<1>3. PICK env : env = <<Actor("env_type", Env(NIL, ground_map))>>
  OBVIOUS
<1>4. /\ IsSeq(combiners) /\ Len(combiners) = 43 /\ \A i \in 1 .. 43 : combiners[i] = Primitives[i][2]
  <2>1. IsSeq(combiners) /\ DOMAIN combiners = 1 .. 43 /\ \A i \in 1 .. 43 : combiners[i] = Primitives[i][2]
    BY <1>1, PrimitivesAre, IsSeqOf
  <2> QED
    BY <2>1, LengthIs
<1>5. /\ IsSeq(wrapped) /\ Len(wrapped) = 36 /\ \A i \in 1 .. 36 : wrapped[i] = Actor("appl_type", i + 6)
  <2>1. IsSeq(wrapped) /\ DOMAIN wrapped = 1 .. 36
    BY <1>2, ListsOfPrimitives, IsSeqOf
  <2>2. \A i \in 1 .. 36 : wrapped[i] = Actor("appl_type", i + 6)
    BY <1>2, ListsOfPrimitives, ConstantsMade DEF Constant
  <2> QED
    BY <2>1, <2>2, LengthIs
<1>6. IsSeq(env) /\ Len(env) = 1 /\ env[1] = Actor("env_type", Env(NIL, ground_map))
  BY <1>3, OneSent
<1>7. PICK one : one = Constants \o combiners
  OBVIOUS
<1>8. /\ IsSeq(one) /\ Len(one) = 49
      /\ (\A a \in 1 .. 6 : one[a] = Constants[a])
      /\ (\A a \in 7 .. 49 : one[a] = Primitives[a - 6][2])
  <2>1. Appended(Constants, combiners, one)
    BY <1>4, <1>7, ConstantsMade, Appends
  <2>2. IsSeq(one) /\ Len(one) = 49 /\ \A a \in 1 .. 6 : one[a] = Constants[a]
    BY <1>4, <2>1, ConstantsMade DEF Appended
  <2>3. ASSUME NEW a \in 7 .. 49 PROVE one[a] = Primitives[a - 6][2]
    <3>1. one[a] = combiners[a - 6] /\ a - 6 \in 1 .. 43
      BY <1>4, <2>1, ConstantsMade DEF Appended
    <3> QED
      BY <1>4, <3>1
  <2> QED
    BY <2>2, <2>3
<1>9. PICK two : two = one \o wrapped
  OBVIOUS
<1>10. /\ IsSeq(two) /\ Len(two) = 85
       /\ (\A a \in 1 .. 49 : two[a] = one[a])
       /\ (\A a \in 50 .. 85 : two[a] = Actor("appl_type", a - 43))
  <2>1. Appended(one, wrapped, two)
    BY <1>5, <1>8, <1>9, Appends
  <2>2. IsSeq(two) /\ Len(two) = 85 /\ \A a \in 1 .. 49 : two[a] = one[a]
    BY <1>5, <1>8, <2>1 DEF Appended
  <2>3. ASSUME NEW a \in 50 .. 85 PROVE two[a] = Actor("appl_type", a - 43)
    <3>1. two[a] = wrapped[a - 49] /\ a - 49 \in 1 .. 36 /\ (a - 49) + 6 = a - 43
      BY <1>5, <1>8, <2>1 DEF Appended
    <3> QED
      BY <1>5, <3>1
  <2> QED
    BY <2>2, <2>3
<1>11. actors = two \o env
  BY <1>1, <1>2, <1>3, <1>7, <1>9 DEF init_kernel
<1>12. /\ IsSeq(actors) /\ Len(actors) = 86 /\ DOMAIN actors = 1 .. 86
       /\ (\A a \in 1 .. 85 : actors[a] = two[a])
       /\ actors[86] = Actor("env_type", Env(NIL, ground_map))
  <2>1. Appended(two, env, actors)
    BY <1>6, <1>10, <1>11, Appends
  <2>2. IsSeq(actors) /\ Len(actors) = 86 /\ \A a \in 1 .. 85 : actors[a] = two[a]
    BY <1>6, <1>10, <2>1 DEF Appended
  <2>3. actors[86] = env[1]
    BY <1>6, <1>10, <2>1 DEF Appended
  <2> QED
    BY <1>6, <2>2, <2>3, LengthIs
<1>13. /\ (\A a \in 1 .. 6 : actors[a] = Constants[a])
       /\ (\A a \in 7 .. 49 : actors[a] = Primitives[a - 6][2])
       /\ (\A a \in 50 .. 85 : actors[a] = Actor("appl_type", a - 43))
  BY <1>8, <1>10, <1>12
<1> QED
  BY <1>12, <1>13, ConstantsMade DEF Founded

(* Names of the ground environment stand for combiners.                    *)
LEMMA GroundMap ==
  ASSUME NEW name \in DOMAIN ground_map
  PROVE  ground_map[name] \in 43 .. 85
<1>1. PICK i : i = CHOOSE j \in DOMAIN Primitives : Primitives[j][1] = name
  OBVIOUS
<1>2. name \in {Primitives[j][1] : j \in DOMAIN Primitives}
  BY DEF ground_map
<1>3. i \in 1 .. 43
  BY <1>1, <1>2, PrimitivesAre
<1>4. ground_map[name] = IF i <= Len(Applicatives) THEN Constant(Len(Primitives) + i) ELSE Constant(i)
  BY <1>1, <1>2 DEF ground_map
<1> QED
  BY <1>3, <1>4, PrimitivesAre, ListsOfPrimitives, ConstantsMade DEF Constant

(* The actors of init_kernel are objects, but for the sink.                *)
LEMMA FoundedObjects ==
  ASSUME NEW all, Founded(all), NEW a \in 2 .. 86
  PROVE  all[a].beh \in ObjectBehs /\ ObjectOK(all, all[a].beh, all[a].mine)
<1>1. PICK b, s : b = all[a].beh /\ s = all[a].mine
  OBVIOUS
<1>2. CASE a \in 2 .. 6
  <2>1. b \in {"unit_type", "null_type", "any_type", "bool_type"}
    BY <1>1, <1>2 DEF Founded
  <2>2. b \in ObjectBehs /\ ObjectOK(all, b, s)
    BY <2>1 DEF ObjectOK, ObjectBehs, Immutable
  <2> QED
    BY <1>1, <2>2
<1>3. CASE a \in 7 .. 49
  <2>1. a - 6 \in 1 .. 43 /\ all[a] = Primitives[a - 6][2]
    BY <1>3 DEF Founded
  <2>2. b \in PlainOpers /\ (b = "args_oper" => s \in PlainArgsBehs \cup {"map_args_beh"})
    BY <1>1, <2>1, PrimitivesArePlain
  <2>3. b \in ObjectBehs
    BY <2>2 DEF PlainOpers, ObjectBehs, Immutable
  <2>4. ObjectOK(all, b, s)
    BY <2>2 DEF PlainOpers, ObjectOK
  <2> QED
    BY <1>1, <2>3, <2>4
<1>4. CASE a \in 50 .. 85
  <2>1. a - 43 \in 7 .. 49 /\ (a - 43) - 6 \in 1 .. 43 /\ b = "appl_type" /\ s = a - 43
    BY <1>1, <1>4 DEF Founded, Actor
  <2>2. IsValue(all, s)
    <3>1. all[s] = Primitives[s - 6][2] /\ s \in DOMAIN all /\ s - 6 \in 1 .. 43
      BY <2>1 DEF Founded
    <3>2. all[s].beh \in PlainOpers
      BY <3>1, PrimitivesArePlain
    <3> QED
      BY <3>1, <3>2 DEF IsValue, IsIn, PlainOpers, ObjectBehs, Immutable
  <2>3. b \in ObjectBehs /\ ObjectOK(all, b, s)
    BY <2>1, <2>2 DEF ObjectOK, ObjectBehs, Immutable
  <2> QED
    BY <1>1, <2>3
<1>5. CASE a = 86
  <2>1. b = "env_type" /\ s = Env(NIL, ground_map)
    BY <1>1, <1>5 DEF Founded, Actor
  <2>2. IsValue(all, s.parent)
    BY <2>1 DEF Env, IsValue
  <2>3. ASSUME NEW name \in DOMAIN s.map PROVE IsValue(all, s.map[name])
    <3>1. PICK v : v = s.map[name]
      OBVIOUS
    <3>2. v \in 43 .. 85
      BY <2>1, <2>3, <3>1, GroundMap DEF Env
    <3>3. v \in DOMAIN all /\ all[v].beh \in PlainOpers \cup {"appl_type"}
      <4>1. CASE v \in 43 .. 49
        <5>1. all[v] = Primitives[v - 6][2] /\ v \in DOMAIN all /\ v - 6 \in 1 .. 43
          BY <4>1 DEF Founded
        <5> QED
          BY <5>1, PrimitivesArePlain
      <4>2. CASE v \in 50 .. 85
        BY <4>2 DEF Founded, Actor
      <4> QED
        BY <3>2, <4>1, <4>2
    <3>4. IsValue(all, v)
      BY <3>3 DEF IsValue, IsIn, PlainOpers, ObjectBehs, Immutable
    <3> QED
      BY <3>1, <3>4
  <2>4. b \in ObjectBehs
    BY <2>1 DEF ObjectBehs, Mutable
  <2>5. ObjectOK(all, b, s)
    BY <2>1, <2>2, <2>3 DEF ObjectOK
  <2> QED
    BY <1>1, <2>4, <2>5
<1> QED
  BY <1>2, <1>3, <1>4, <1>5

(* The state of the sink.                                                  *)
LEMMA SinkState ==
  ASSUME NEW all, NEW row, all[1].beh = "sink_beh", row[1] = 1
  PROVE  StateOK(all, row, 1, "sink_beh", NIL) /\ Keeps(all, 1) = {}
<1>1. PICK b : b = "sink_beh"
  OBVIOUS
<1>2. /\ b \notin PlainArgsBehs \cup BrandBehs \cup PairBehs \cup BothBehs \cup JoinBehs \cup MapBehs \cup HeadBehs
                  \cup ValueBehs \cup {"concurrent_args_beh", "fork_beh", "map_next_beh", "tag_beh"}
      /\ b \notin WithCust /\ b \notin ObjectBehs
  BY <1>1 DEF ObjectBehs, Immutable, Mutable, PlainArgsBehs, BrandBehs, PairBehs, BothBehs, JoinBehs, MapBehs, HeadBehs,
     ValueBehs, WithCust
<1>3. ObjectOK(all, b, NIL)
  BY <1>1 DEF ObjectOK
<1>4. CustomerOK(all, b, NIL)
  BY <1>1, <1>2 DEF CustomerOK
<1>5. ForkJoinOK(all, 1, b, NIL)
  BY <1>1, <1>2 DEF ForkJoinOK
<1>6. MapOK(all, row, 1, b, NIL)
  BY <1>1, <1>2 DEF MapOK
<1>7. Keeps(all, 1) = {}
  BY <1>1, <1>2 DEF Keeps, Direct, Rest, ValueBehs, BothBehs
<1> QED
  BY <1>1, <1>3, <1>4, <1>5, <1>6, <1>7 DEF StateOK

(* The program starts in an orderly state: nobody waits for anything.      *)
LEMMA InitIsOrderly == init_kernel => IsOrderly
<1> SUFFICES ASSUME init_kernel PROVE IsOrderly
  OBVIOUS
<1>1. PICK all : all = actors
  OBVIOUS
<1>2. Founded(all)
  BY <1>1, KernelIsFounded
<1>3. PICK open, row, waiting, handled, written, ended :
        /\ open = {} /\ row = [a \in 1 .. 86 |-> a] /\ waiting = << >> /\ written = << >> /\ ended = FALSE
        /\ handled = [a \in 1 .. 86 |-> 0]
  OBVIOUS
<1>4. queue = waiting /\ turns = handled /\ out = written /\ aborted = ended
  <2>1. a_kernel_env = 86
    BY PrimitivesAre, ListsOfPrimitives, ConstantsMade DEF a_kernel_env, Constant
  <2> QED
    BY <1>3, <2>1 DEF init_kernel
<1>5. /\ IsSeq(all) /\ Len(all) = 86 /\ DOMAIN all = 1 .. 86 /\ all[1].beh = "sink_beh" /\ all[1].mine = NIL
      /\ \A a \in 2 .. 6 : all[a].beh \in {"unit_type", "null_type", "any_type", "bool_type"}
  BY <1>2 DEF Founded, Actor
<1>6. \A a \in 2 .. 86 : all[a].beh \in ObjectBehs /\ ObjectOK(all, all[a].beh, all[a].mine)
  BY <1>2, FoundedObjects
<1>7. ASSUME NEW a \in DOMAIN all PROVE all[a].beh \in ObjectBehs \cup {"sink_beh"}
  <2>1. CASE a = 1
    BY <1>5, <2>1
  <2>2. CASE a \in 2 .. 86
    BY <1>6, <2>2
  <2> QED
    BY <1>5, <2>1, <2>2
<1>8. IsSeq(waiting) /\ DOMAIN waiting = {} /\ IsSeq(written)
  BY <1>3, OneSent
<1>9. IsSeq(handled) /\ Len(handled) = 86 /\ DOMAIN handled = 1 .. 86 /\ \A a \in 1 .. 86 : handled[a] = 0
  <2>1. IsSeq(handled) /\ DOMAIN handled = 1 .. 86 /\ \A a \in 1 .. 86 : handled[a] = 0
    BY <1>3, IsSeqOf
  <2> QED
    BY <2>1, LengthIs
<1>10. Shape(all, waiting, handled)
  <2>1. \A a \in DOMAIN all : all[a].beh \in Kinds
    BY <1>7 DEF Kinds
  <2>2. all[a_sink].beh = "sink_beh"
    BY <1>5 DEF a_sink
  <2>3. \A a \in DOMAIN handled : handled[a] \in Nat
    BY <1>9
  <2>4. Len(all) >= 6 /\ Len(handled) = Len(all)
    BY <1>5, <1>9
  <2>5. \A a \in 2 .. 6 : all[a].beh \in {"unit_type", "null_type", "any_type", "bool_type"}
    BY <1>5
  <2> QED
    BY <1>5, <1>8, <1>9, <2>1, <2>2, <2>3, <2>4, <2>5 DEF Shape
<1>11. StatesOK(all, row)
  <2>1. ASSUME NEW a \in DOMAIN all
        PROVE  StateOK(all, row, a, all[a].beh, all[a].mine) /\ Keeps(all, a) = {}
    <3>1. row[a] = a
      BY <1>3, <1>5
    <3>2. CASE a = 1
      BY <1>5, <3>1, <3>2, SinkState
    <3>3. CASE a \in 2 .. 86
      BY <1>6, <3>1, <3>3, ObjectState
    <3> QED
      BY <1>5, <3>2, <3>3
  <2> QED
    BY <1>3, <1>5, <2>1 DEF StatesOK
<1>12. Told(all, waiting, written, open)
  BY <1>3, <1>7, <1>8 DEF Told, ObjectBehs, Immutable, Mutable
<1>13. Unshared(all, waiting, open, row)
  BY <1>3, <1>8 DEF Unshared
<1>14. Unanswered(all, waiting, handled, open, row)
  BY <1>3, <1>5, <1>8, <1>9 DEF Unanswered
<1>15. Remembered(all, waiting, open, row)
  BY <1>3 DEF Remembered
<1>16. Joined(all, open)
  BY <1>3 DEF Joined
<1>17. Rows(all, waiting, open, row)
  BY <1>3, <1>8 DEF Rows
<1>18. \A i \in DOMAIN waiting : MessageOK(all, row, waiting[i]) /\ waiting[i].to \in DOMAIN all
  BY <1>8
<1>19. Orderly(all, waiting, handled, written, ended, open, row)
  BY <1>10, <1>11, <1>12, <1>13, <1>14, <1>15, <1>16, <1>17, <1>18 DEF Orderly
<1>20. Invariant(open, row)
  BY <1>1, <1>4, <1>19 DEF Invariant
<1> QED
  BY <1>20 DEF IsOrderly

-----------------------------------------------------------------------------
(* What all of it shows.                                                   *)

(* In orderly states immutable pairs hold what is fixed.                   *)
LEMMA OrderlyIsDeep == IsOrderly => CopiesAreDeep
<1> SUFFICES ASSUME IsOrderly, NEW a \in DOMAIN actors, actors[a].beh = "pair_type"
             PROVE  ~Is("cons_type", actors[a].mine.hd) /\ ~Is("cons_type", actors[a].mine.tl)
  BY DEF CopiesAreDeep
<1>1. PICK open, row : Invariant(open, row)
  BY DEF IsOrderly
<1>2. StatesOK(actors, row)
  BY <1>1 DEF Invariant, Orderly
<1>3. ObjectOK(actors, actors[a].beh, actors[a].mine)
  BY <1>2 DEF StatesOK, StateOK
<1>4. IsFixed(actors, actors[a].mine.hd) /\ IsFixed(actors, actors[a].mine.tl)
  BY <1>3 DEF ObjectOK
<1> QED
  BY <1>4 DEF IsFixed, IsIn, Is

(* Customers of one answer had at most one, and a report that was made has *)
(* no right left.                                                          *)
LEMMA OrderlyIsOnce == IsOrderly => AnsweredOnce
<1> SUFFICES ASSUME IsOrderly
             PROVE  AnsweredOnce
  OBVIOUS
<1>1. PICK open, row : Invariant(open, row)
  BY DEF IsOrderly
<1>2. /\ Shape(actors, queue, turns) /\ StatesOK(actors, row) /\ Told(actors, queue, out, open)
      /\ Unshared(actors, queue, open, row) /\ Unanswered(actors, queue, turns, open, row)
      /\ \A i \in DOMAIN queue : MessageOK(actors, row, queue[i])
  BY <1>1 DEF Invariant, Orderly
<1>3. \A a \in DOMAIN actors : actors[a].beh \in OneShot => turns[a] <= 1
  BY <1>2 DEF Unanswered
<1>4. ASSUME NEW i \in DOMAIN queue, queue[i].to \in DOMAIN actors
      PROVE  actors[queue[i].to].beh # "abort_beh"
  <2> SUFFICES ASSUME actors[queue[i].to].beh = "abort_beh"
               PROVE  FALSE
    OBVIOUS
  <2>1. PICK a, m : m = queue[i] /\ a = m.to
    OBVIOUS
  <2>2. a \notin {NIL, NotActor} /\ a \in DOMAIN actors /\ actors[a].beh = "abort_beh"
    <3>1. IsSeq(actors)
      BY <1>2 DEF Shape
    <3> QED
      BY <1>4, <2>1, <3>1, LengthIs DEF NIL, NotActor
  <2>3. MessageOK(actors, row, m)
    BY <1>2, <2>1
  <2>4. SentOK(actors, row, a, m.what)
    BY <2>1, <2>2, <2>3 DEF MessageOK
  <2>5. m.what.op = "value"
    BY <2>2, <2>4 DEF SentOK, ValueOK, ValueBehs
  <2>6. row[a] = a
    <3>1. MapOK(actors, row, a, actors[a].beh, actors[a].mine)
      BY <1>2, <2>2 DEF StatesOK, StateOK
    <3> QED
      BY <2>2, <3>1 DEF MapOK, HeadBehs
  <2>7. a \in Held(actors, row, m)
    BY <2>1, <2>2, <2>5, <2>6 DEF Held, Answers, ObjectBehs, Immutable, Mutable
  <2>8. a \in open
    BY <1>2, <2>1, <2>7 DEF Unshared
  <2>9. actors[a].beh \in OpenBehs
    BY <1>2, <2>8 DEF Told
  <2> QED
    BY <2>2, <2>9 DEF OpenBehs, ValueBehs, ArgsBehs, PlainArgsBehs, BrandBehs, PairBehs, BothBehs, JoinBehs, MapBehs
<1> QED
  BY <1>3, <1>4 DEF AnsweredOnce

(* When nothing waits, what is still to be answered would be kept by       *)
(* younger and younger customers.                                          *)
LEMMA OrderlyIsNotLost == IsOrderly => NothingLost
<1> SUFFICES ASSUME IsOrderly, queue = << >>, NEW a \in DOMAIN actors, actors[a].beh = "report_beh",
                    ~ \E i \in DOMAIN out : out[i] = "FAIL!"
             PROVE  FALSE
  BY DEF NothingLost
<1>1. PICK open, row : Invariant(open, row)
  BY DEF IsOrderly
<1>2. /\ Shape(actors, queue, turns) /\ StatesOK(actors, row) /\ Told(actors, queue, out, open)
      /\ Remembered(actors, queue, open, row) /\ Joined(actors, open) /\ Rows(actors, queue, open, row)
  BY <1>1 DEF Invariant, Orderly
<1>3. DOMAIN queue = {}
  BY OneSent
<1>4. a \in open /\ open \subseteq DOMAIN actors /\ \A x \in DOMAIN actors : actors[x].beh # "throw_beh"
  BY <1>2, <1>3 DEF Told
<1>5. \A k \in open : (\E x \in open : k \in Keeps(actors, x)) \/ actors[k].beh \in JoinBehs
  BY <1>2, <1>3, <1>4 DEF Remembered
<1>6. DOMAIN actors = 1 .. Len(actors) /\ Len(actors) \in Nat
  BY <1>2, LengthIs DEF Shape
<1>7. PICK m \in open : \A k \in open : k <= m
  BY <1>4, <1>6, MostNat
<1>8. CASE actors[m].beh \in JoinBehs
  <2>1. PICK b, s : b = actors[m].beh /\ s = actors[m].mine
    OBVIOUS
  <2>2. ForkJoinOK(actors, m, b, s)
    BY <1>2, <1>4, <2>1 DEF StatesOK, StateOK
  <2>3. PICK t : IsIn(actors, {"tag_beh"}, t) /\ actors[t].mine = m /\ Awaits(actors[m], t)
    <3>1. CASE b \in {"join_beh", "join_first_beh"}
      BY <2>1, <2>2, <3>1 DEF ForkJoinOK, Awaits
    <3>2. CASE b = "join_rest_beh"
      BY <2>1, <2>2, <3>2 DEF ForkJoinOK, Awaits
    <3> QED
      BY <1>8, <2>1, <3>1, <3>2 DEF JoinBehs
  <2>4. t \in DOMAIN actors /\ actors[t].beh = "tag_beh"
    BY <2>3 DEF IsIn
  <2>5. t \in open
    BY <1>2, <2>3, <2>4 DEF Joined
  <2>6. ForkJoinOK(actors, t, actors[t].beh, actors[t].mine)
    BY <1>2, <2>4 DEF StatesOK, StateOK
  <2>7. m < t
    BY <2>3, <2>4, <2>6 DEF ForkJoinOK
  <2> QED
    BY <1>4, <1>6, <1>7, <2>4, <2>5, <2>7
<1>9. CASE actors[m].beh \notin JoinBehs
  <2>1. PICK x \in open : m \in Keeps(actors, x)
    BY <1>5, <1>9
  <2>2. m < x \/ actors[x].beh \in MapBehs
    BY <1>2, <1>4, <2>1 DEF StatesOK
  <2>3. CASE m < x
    BY <1>4, <1>6, <1>7, <2>1, <2>3
  <2>4. CASE actors[x].beh \in MapBehs
    <3>1. actors[x].beh \notin JoinBehs
      BY <2>4 DEF MapBehs, JoinBehs
    <3>2. PICK y \in open : x \in Keeps(actors, y)
      BY <1>5, <2>1, <3>1
    <3>3. actors[x].beh = "map_tail_beh"
      BY <1>2, <2>4, <3>2 DEF Rows
    <3>4. Keeps(actors, x) = {}
      BY <3>3 DEF Keeps, Direct, Rest, WithCust, PairBehs, PlainArgsBehs, BrandBehs, JoinBehs
    <3> QED
      BY <2>1, <3>4
  <2> QED
    BY <2>2, <2>3, <2>4
<1> QED
  BY <1>8, <1>9

(* In every state of every program the rights to answer can be told: who    *)
(* holds each of them, what each actor waits for, and what it may be sent.  *)
THEOREM AlwaysOrderly == EvaluatorSpec => []IsOrderly
BY InitIsOrderly, StepsAreOrderly, PTL DEF EvaluatorSpec

(* What copy-es-immutable makes, in any program, has no mutable pair       *)
(* inside.                                                                 *)
THEOREM AllCopiesAreDeep == EvaluatorSpec => []CopiesAreDeep
BY AlwaysOrderly, OrderlyIsDeep, PTL

(* In any program a customer that waits for one thing is sent one message, *)
(* and the assertion that a report is made once never fails.               *)
THEOREM AllAnsweredOnce == EvaluatorSpec => []AnsweredOnce
BY AlwaysOrderly, OrderlyIsOnce, PTL

(* In any program every report is made before nothing is left to deliver,  *)
(* unless a failure was reported.                                          *)
THEOREM NothingIsLost == EvaluatorSpec => []NothingLost
BY AlwaysOrderly, OrderlyIsNotLost, PTL
=============================================================================
