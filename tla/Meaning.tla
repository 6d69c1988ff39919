------------------------------- MODULE Meaning -------------------------------
(***************************************************************************)
(* What programs of the interpreted language mean, in direct style: the    *)
(* value of an expression in an environment, and the store it leaves.      *)
(* Operands are evaluated from left to right and nothing is concurrent.    *)
(* Module Kernel computes it with actors.                                  *)
(*                                                                         *)
(* Objects that cannot change are records, equal if they are the same      *)
(* (eq?); pairs that can and environments are places in the store.         *)
(***************************************************************************)
EXTENDS Integers, Sequences, TLC

Num(n) == [k |-> "num", num |-> n]
Sym(s) == [k |-> "sym", name |-> s]
Const(s) == [k |-> "const", name |-> s]
Prim(s) == [k |-> "prim", name |-> s]
Appl(f) == [k |-> "appl", comb |-> f]
P(h, t) == [k |-> "pair", hd |-> h, tl |-> t]
EnvAt(e) == [k |-> "env", at |-> e]
ConsAt(c) == [k |-> "cons", at |-> c]

Nil == Const("()")
Inert == Const("#inert")
Nowhere == Const("no environment")
Bool(b) == Const(IF b THEN "#t" ELSE "#f")

RECURSIVE L(_)
L(s) == IF s = << >> THEN Nil ELSE P(Head(s), L(Tail(s)))

(* A result: a value, unless the computation failed, and the store.        *)
Ok(v, st) == [ok |-> TRUE, val |-> v, st |-> st]
Fail(st) == [ok |-> FALSE, val |-> Nil, st |-> st]
Then(r, f(_, _)) == IF r.ok THEN f(r.val, r.st) ELSE r

NewCons(h, t, st) == Ok(ConsAt(Len(st.cells) + 1), [st EXCEPT !.cells = Append(@, P(h, t))])
NewEnv(parent, map, st) ==
  Ok(EnvAt(Len(st.envs) + 1), [st EXCEPT !.envs = Append(@, [parent |-> parent, map |-> map])])

IsP(v) == v.k \in {"pair", "cons"}
H(v, st) == IF v.k = "cons" THEN st.cells[v.at].hd ELSE v.hd
T(v, st) == IF v.k = "cons" THEN st.cells[v.at].tl ELSE v.tl

RECURSIVE Elements(_, _), IsList(_, _), Copy(_, _), Equal(_, _, _), Lookup(_, _, _)
Elements(v, st) == IF IsP(v) THEN <<H(v, st)>> \o Elements(T(v, st), st) ELSE << >>
IsList(v, st) == v = Nil \/ (IsP(v) /\ IsList(T(v, st), st))
Copy(v, st) == IF v.k = "cons" THEN P(Copy(H(v, st), st), Copy(T(v, st), st)) ELSE v
Equal(v, w, st) ==
  v = w \/ (IsP(v) /\ IsP(w) /\ Equal(H(v, st), H(w, st), st) /\ Equal(T(v, st), T(w, st), st))
Lookup(name, e, st) ==
  CASE e.k # "env" -> Fail(st)
    [] name \in DOMAIN st.envs[e.at].map -> Ok(st.envs[e.at].map[name], st)
    [] OTHER -> Lookup(name, st.envs[e.at].parent, st)

(* Binding a parameter tree in environment e: names that the environment   *)
(* had are rebound at once, new ones are added if the whole tree matches.  *)
RECURSIVE Match(_, _, _, _, _)
Match(t, v, had, new, st) ==
  CASE t = Const("#ignore") \/ (t = Nil /\ v = Nil) -> [ok |-> TRUE, had |-> had, new |-> new]
    [] t.k = "sym" ->
         IF t.name \in DOMAIN had
         THEN [ok |-> TRUE, had |-> [had EXCEPT ![t.name] = v], new |-> new]
         ELSE [ok |-> TRUE, had |-> had, new |-> (t.name :> v) @@ new]
    [] IsP(t) /\ IsP(v) ->
         LET m == Match(H(t, st), H(v, st), had, new, st)
         IN IF m.ok THEN Match(T(t, st), T(v, st), m.had, m.new, st) ELSE m
    [] OTHER -> [ok |-> FALSE, had |-> had, new |-> new]

RECURSIVE Total(_)
Total(a) == IF a = << >> THEN 0 ELSE Head(a).num + Total(Tail(a))

RECURSIVE Names(_)
Names(t) == CASE t.k = "sym" -> <<t.name>> [] IsP(t) -> Names(t.hd) \o Names(t.tl) [] OTHER -> << >>
Distinct(s) == \A i, j \in DOMAIN s : s[i] = s[j] => i = j

RECURSIVE Value_(_, _, _), Combine(_, _, _, _), Values(_, _, _), InTurn(_, _, _, _), Rows(_, _, _, _)

Value_(x, e, st) ==
  CASE x.k = "sym" -> Lookup(x.name, e, st)
    [] IsP(x) -> Then(Value_(H(x, st), e, st), LAMBDA f, s : Combine(f, T(x, st), e, s))
    [] OTHER -> Ok(x, st)

(* The values of a list of operands, in a new list.                        *)
Values(xs, e, st) ==
  CASE xs = Nil -> Ok(Nil, st)
    [] IsP(xs) -> Then(Value_(H(xs, st), e, st), LAMBDA v, s :
                    Then(Values(T(xs, st), e, s), LAMBDA vs, s2 : NewCons(v, vs, s2)))
    [] OTHER -> Fail(st)

(* The value of the last of a list of expressions.                         *)
InTurn(xs, v, e, st) ==
  CASE xs = Nil -> Ok(v, st)
    [] IsP(xs) -> Then(Value_(H(xs, st), e, st), LAMBDA w, s : InTurn(T(xs, s), w, e, s))
    [] OTHER -> Fail(st)

(* A combiner is applied to the rows of some lists until a list has ended.  *)
Rows(f, lists, e, st) ==
  LET ends == {i \in DOMAIN lists : ~IsP(lists[i])}
      first == CHOOSE i \in ends : \A j \in ends : i <= j
  IN
  IF ends # {} THEN IF lists[first] = Nil THEN Ok(Nil, st) ELSE Fail(st)
  ELSE Then(Combine(f, L([i \in DOMAIN lists |-> H(lists[i], st)]), e, st), LAMBDA v, s :
         Then(Rows(f, [i \in DOMAIN lists |-> T(lists[i], st)], e, s), LAMBDA vs, s2 : NewCons(v, vs, s2)))

Closure(ptree, body, env) == [k |-> "closure", hd |-> ptree, tl |-> body, env |-> env]

Combine(f, xs, e, st) ==
  LET a == Elements(xs, st)
      n == IF IsList(xs, st) THEN Len(a) ELSE -1
      nums == \A i \in DOMAIN a : a[i].k = "num"
      is(name) == f = Prim(name)
  IN
  CASE f.k = "appl" -> Then(Values(xs, e, st), LAMBDA vs, s : Combine(f.comb, vs, e, s))
    [] f.k = "closure" ->
         LET m == Match(f.hd, P(xs, e), << >>, << >>, st)
         IN IF m.ok /\ Distinct(Names(f.hd))
            THEN Then(NewEnv(f.env, m.new, st), LAMBDA l, s : InTurn(f.tl, Inert, l, s))
            ELSE Fail(st)
    [] is("$if") /\ n = 3 ->
         Then(Value_(a[1], e, st), LAMBDA b, s :
           CASE b = Bool(TRUE) -> Value_(a[2], e, s)
             [] b = Bool(FALSE) -> Value_(a[3], e, s)
             [] OTHER -> Fail(s))
    [] is("$define!") /\ n = 2 /\ e.k = "env" ->
         Then(Value_(a[2], e, st), LAMBDA v, s :
           LET m == Match(a[1], v, s.envs[e.at].map, << >>, s)
           IN IF m.ok THEN Ok(Inert, [s EXCEPT !.envs[e.at].map = m.new @@ m.had])
              ELSE Fail([s EXCEPT !.envs[e.at].map = m.had]))
    [] is("$sequence") -> InTurn(xs, Inert, e, st)
    [] is("$vau") /\ Len(a) >= 2 ->
         LET c == Copy(xs, st) IN Ok(Closure(P(c.hd, c.tl.hd), c.tl.tl, e), st)
    [] is("$lambda") /\ Len(a) >= 1 ->
         LET c == Copy(xs, st) IN Ok(Appl(Closure(P(c.hd, Const("#ignore")), c.tl, e)), st)
    [] is("wrap") /\ n = 1 -> Ok(Appl(a[1]), st)
    [] is("unwrap") /\ n = 1 /\ a[1].k = "appl" -> Ok(a[1].comb, st)
    [] is("eval") /\ n = 2 -> Value_(a[1], a[2], st)
    [] is("apply") /\ n = 2 /\ a[1].k = "appl" ->
         Then(NewEnv(Nowhere, << >>, st), LAMBDA l, s : Combine(a[1].comb, a[2], l, s))
    [] is("apply") /\ n = 3 /\ a[1].k = "appl" -> Combine(a[1].comb, a[2], a[3], st)
    [] is("make-environment") /\ n = 0 -> NewEnv(Nowhere, << >>, st)
    [] is("make-environment") /\ n = 1 -> NewEnv(a[1], << >>, st)
    [] is("map") /\ n >= 2 /\ a[1].k = "appl" -> Rows(a[1].comb, Tail(a), e, st)
    [] is("list") -> Ok(xs, st)
    [] is("cons") /\ n = 2 -> NewCons(a[1], a[2], st)
    [] is("car") /\ n = 1 /\ IsP(a[1]) -> Ok(H(a[1], st), st)
    [] is("cdr") /\ n = 1 /\ IsP(a[1]) -> Ok(T(a[1], st), st)
    [] is("set-car!") /\ n = 2 /\ a[1].k = "cons" -> Ok(Inert, [st EXCEPT !.cells[a[1].at].hd = a[2]])
    [] is("set-cdr!") /\ n = 2 /\ a[1].k = "cons" -> Ok(Inert, [st EXCEPT !.cells[a[1].at].tl = a[2]])
    [] is("copy-es-immutable") /\ n = 1 -> Ok(Copy(a[1], st), st)
    [] is("eq?") -> Ok(Bool(\A i \in 1 .. Len(a) - 1 : a[i] = a[i + 1]), st)
    [] is("equal?") -> Ok(Bool(\A i \in 1 .. Len(a) - 1 : Equal(a[i], a[i + 1], st)), st)
    [] is("null?") /\ n >= 0 -> Ok(Bool(\A i \in DOMAIN a : a[i] = Nil), st)
    [] is("pair?") /\ n >= 0 -> Ok(Bool(\A i \in DOMAIN a : IsP(a[i])), st)
    [] is("number?") /\ n >= 0 -> Ok(Bool(nums), st)
    [] is("+") /\ nums -> Ok(Num(Total(a)), st)
    [] is("<?") /\ n = 2 /\ nums -> Ok(Bool(a[1].num < a[2].num), st)
    [] OTHER -> Fail(st)
-----------------------------------------------------------------------------
(* Programs and what they print.                                           *)

OperativeNames == {"$if", "$define!", "$sequence", "$vau", "$lambda"}
ApplicativeNames ==
  {"wrap", "unwrap", "eval", "apply", "make-environment", "map", "list", "cons", "car", "cdr", "set-car!",
   "set-cdr!", "copy-es-immutable", "eq?", "equal?", "null?", "pair?", "number?", "+", "<?"}

Ground ==
  [name \in OperativeNames \cup ApplicativeNames |->
     IF name \in OperativeNames THEN Prim(name) ELSE Appl(Prim(name))]

Start == [cells |-> << >>, envs |-> <<[parent |-> Nowhere, map |-> Ground]>>]

RECURSIVE Show(_, _), ShowTail(_, _)
Show(v, st) ==
  CASE v.k = "num" -> <<ToString(v.num)>>
    [] v.k \in {"sym", "const"} -> <<v.name>>
    [] v.k = "appl" -> <<"#applicative">>
    [] v.k \in {"prim", "closure"} -> <<"#operative">>
    [] v.k = "env" -> <<"#environment">>
    [] IsP(v) -> <<"(">> \o Show(H(v, st), st) \o ShowTail(T(v, st), st)
ShowTail(v, st) ==
  CASE v = Nil -> <<")">>
    [] IsP(v) -> <<" ">> \o Show(H(v, st), st) \o ShowTail(T(v, st), st)
    [] OTHER -> <<" . ">> \o Show(v, st) \o <<")">>

(* What the expressions of a source print, and the store they leave.       *)
RECURSIVE Lines(_, _, _, _)
Lines(program, shown, e, st) ==
  IF program = << >> THEN Ok(<< >>, st)
  ELSE LET r == Value_(Head(program), e, st)
           line == CASE ~r.ok -> <<"FAIL!">>
                     [] r.ok /\ shown -> Show(r.val, r.st) \o <<"\n">>
                     [] OTHER -> << >>
           rest == Lines(Tail(program), shown, e, r.st)
       IN Ok(line \o rest.val, rest.st)

(* Every source has its own environment, on top of that of the one before. *)
RECURSIVE Session(_, _, _)
Session(sources, e, st) ==
  IF sources = << >> THEN << >>
  ELSE Then(NewEnv(e, << >>, st), LAMBDA l, s :
         LET lines == Lines(Head(sources).program, Head(sources).shown, l, s)
         IN <<lines.val>> \o Session(Tail(sources), l, lines.st))

Prints(sources) == Session(sources, EnvAt(1), Start)

(* The tokens that an expression is written with.                          *)
RECURSIVE Text(_), TextTail(_)
Text(x) ==
  CASE x.k = "num" -> <<ToString(x.num)>>
    [] x.k \in {"sym", "const"} /\ x # Nil -> <<x.name>>
    [] x = Nil -> <<"(", ")">>
    [] OTHER -> <<"(">> \o Text(x.hd) \o TextTail(x.tl)
TextTail(x) ==
  CASE x = Nil -> <<")">>
    [] IsP(x) -> Text(x.hd) \o TextTail(x.tl)
    [] OTHER -> <<".">> \o Text(x) \o <<")">>

RECURSIVE Tokens(_)
Tokens(program) == IF program = << >> THEN << >> ELSE Text(Head(program)) \o Tokens(Tail(program))
=============================================================================
