------------------------------ MODULE Programs ------------------------------
(***************************************************************************)
(* Programs that the interpreter is checked with, and what they print: all *)
(* of some shapes, with the lines that module Meaning says, and those that *)
(* test_kernel evaluates, with the values that it expects.                 *)
(***************************************************************************)
EXTENDS Meaning

Call(name, args) == P(Sym(name), L(args))
Define(ptree, x) == Call("$define!", <<ptree, x>>)
Lambda(ptree, body) == Call("$lambda", <<ptree, body>>)

zero == Num(0)
one == Num(1)
two == Num(2)
x == Sym("x")
y == Sym("y")
ignore == Const("#ignore")

(* An operation on a mutable pair x and something else, and x afterwards.  *)
Operands ==
  {zero, x, y, Nil, Call("cons", <<zero, one>>), Call("list", <<one>>),
   Call("car", <<x>>), Call("copy-es-immutable", <<x>>)}

OnPair(op, a, b) == <<Define(x, Call("cons", <<zero, one>>)), Call(op, <<a, b>>), x>>
OnPairs ==
  {OnPair(op, a, b) : op \in {"cons", "eq?", "equal?", "+", "<?"}, a \in Operands, b \in Operands}
    \cup {OnPair(op, a, b) : op \in {"set-car!", "set-cdr!"}, a \in Operands, b \in Operands \ {x}}

(* A parameter tree is matched with the value of a definition, or with the *)
(* operands of a call.                                                     *)
Ptrees ==
  {x, ignore, Nil, one, L(<<x>>), L(<<x, y>>), L(<<y, x>>), P(x, y), L(<<x, x>>), P(ignore, x),
   L(<<x, L(<<y>>)>>), L(<<x, one>>)}
Lists ==
  {<< >>, <<one>>, <<one, two>>, <<one, Call("list", <<two>>)>>}

OnParameters ==
  {<<Define(x, zero), Define(ptree, P(Sym("list"), L(args))), x, y>> : ptree \in Ptrees, args \in Lists}
    \cup {<<Define(x, zero), P(Lambda(ptree, body), L(args)), x>> :
            ptree \in Ptrees, body \in {x, y, Define(y, x)}, args \in Lists}
    \cup {<<P(Call("$vau", <<ptree, e, body>>), L(args))>> :
            ptree \in Ptrees, e \in {y, ignore}, body \in {x, Call("eval", <<x, y>>)}, args \in Lists}

(* Lists are mapped in parallel; some of them are no lists.                *)
ToMap == {Nil, zero, Call("list", <<one>>), Call("list", <<one, two>>), Call("cons", <<one, two>>)}
OnMaps ==
  {<<Call("map", <<f, a, b>>)>> : f \in {Sym("list"), Sym("cons"), Sym("$if"), Lambda(x, x)}, a \in ToMap, b \in ToMap}
    \cup {<<Call("map", <<f, a>>)>> : f \in {Sym("car"), Sym("pair?"), Lambda(L(<<x>>), Call("cons", <<x, x>>))}, a \in ToMap}

quote == Define(Sym("q"), Call("$vau", <<L(<<x>>), ignore, x>>))
Quoted(s) == Call("q", <<s>>)

(* Control, and combiners and environments as values.                      *)
OnControl ==
  {<<Call("$if", <<t, one, y>>)>> : t \in {Bool(TRUE), Bool(FALSE), zero, y, Call("null?", <<Nil>>)}}
    \cup {<<Call("$if", <<t, one, Call("$if", <<t, zero, two>>)>>)>> : t \in {Bool(TRUE), Bool(FALSE)}}
    \cup {<<Call("apply", <<f, a>>)>> : f \in {Sym("list"), Sym("cons"), Sym("null?"), Lambda(x, Call("eq?", <<x, x>>))}, a \in ToMap}
    \cup {<<Define(x, zero), P(f, L(<<x, one>>))>> :
            f \in {Call("unwrap", <<Sym("list")>>), Call("wrap", <<Sym("$sequence")>>), Call("wrap", <<Sym("list")>>),
                   Call("wrap", <<zero>>), Call("unwrap", <<zero>>), Sym("$sequence"), zero}}
    \cup { \* names are looked up where a combiner was made
           <<Define(x, one), Define(Sym("f"), Lambda(Nil, x)), Define(x, two), Define(Sym("g"), Lambda(L(<<x>>), Call("f", << >>))),
             Call("g", <<zero>>), x>>,
           \* an environment of one's own, and one below it
           <<quote, Define(x, zero), Define(y, Call("make-environment", << >>)),
             Call("eval", <<Call("list", <<Sym("$define!"), Quoted(x), one>>), y>>),
             Call("eval", <<Quoted(x), y>>), x,
             Call("eval", <<Quoted(x), Call("make-environment", <<y>>)>>),
             Call("eval", <<Quoted(Sym("z")), Call("make-environment", <<y>>)>>)>>,
           \* a closure made of a list that is changed afterwards
           <<Define(x, Call("list", <<Sym("$lambda"), Nil, one>>)),
             Define(Sym("f"), Call("eval", <<x, Call("make-environment", << >>)>>)),
             Call("set-car!", <<Call("cdr", <<Call("cdr", <<x>>)>>), two>>), Call("f", << >>), Call("eval", <<x, zero>>)>>,
           \* two names for one pair
           <<Define(x, Call("list", <<one, two>>)), Define(y, x), Call("set-car!", <<y, zero>>), x,
             Call("eq?", <<x, Call("apply", <<Sym("list"), x>>)>>), Call("equal?", <<x, Call("list", <<zero, two>>)>>)>>,
           \* the operands of an operative cannot be changed
           <<Define(x, P(Call("$vau", <<y, ignore, y>>), L(<<one, two>>))), Call("set-cdr!", <<x, zero>>), x>>,
           \* the function of test_kernel that calls itself
           <<Define(Sym("f"), Lambda(x, Call("$if", <<Call("null?", <<x>>), Inert,
               Call("cons", <<Call("number?", <<Call("car", <<x>>)>>), Call("apply", <<Sym("f"), Call("cdr", <<x>>)>>)>>)>>))),
             Call("f", <<one, Nil, two>>)>>}

(* Every kind of object is used in every way.                              *)
Kinds ==
  {zero, Inert, ignore, Bool(TRUE), Nil, Sym("$if"), Sym("car"), Lambda(Nil, one), Call("$vau", <<x, y, x>>),
   Call("make-environment", << >>), Call("cons", <<zero, one>>)}
Uses(v) ==
  {Call(op, <<v>>) : op \in
     {"list", "car", "set-car!", "copy-es-immutable", "wrap", "unwrap", "null?", "pair?", "number?", "+", "eval",
      "make-environment", "apply", "map", "$vau", "$lambda", "$define!", "$if"}}
    \cup {Call(op, <<v, v>>) : op \in {"eq?", "equal?", "cons", "eval", "set-cdr!", "cdr", "<?"}}
    \cup {P(v, Nil), P(v, one), Call("$if", <<v, one, two>>), Call("apply", <<Sym("list"), v>>), Call("map", <<Sym("list"), v>>),
          P(Sym("$sequence"), v), P(Sym("list"), v)}
OnKinds == {<<e>> : e \in UNION {Uses(v) : v \in Kinds}}

Generated == OnPairs \cup OnParameters \cup OnMaps \cup OnControl \cup OnKinds

(* A file is loaded before another one.                                    *)
Loaded ==
  {<<[program |-> <<Define(x, zero), Define(Sym("f"), Lambda(Nil, x)), y>>, shown |-> FALSE],
     [program |-> <<Define(x, one), x, Call("f", << >>)>>, shown |-> TRUE]>>,
   <<[program |-> <<Define(Sym("list"), Sym("cons"))>>, shown |-> FALSE],
     [program |-> <<Call("list", <<zero, one>>)>>, shown |-> TRUE]>>}

(* Expressions of test_kernel, and others like them, with what they print. *)
Asks(name, args, answer) == <<Tokens(<<Call(name, args)>>), <<IF answer THEN "#t" ELSE "#f", "\n">> >>

Tested ==
  {Asks("ignore?", <<ignore, Inert>>, FALSE), Asks("inert?", <<Inert, Inert>>, TRUE),
   Asks("boolean?", <<Bool(TRUE), Bool(FALSE)>>, TRUE), Asks("symbol?", <<zero>>, FALSE),
   Asks("operative?", <<Sym("$if"), Sym("$vau"), Call("$vau", <<x, y, x>>)>>, TRUE),
   Asks("applicative?", <<Sym("list"), Sym("$if")>>, FALSE), Asks("environment?", <<Call("make-environment", <<>>)>>, TRUE),
   Asks("=?", <<one, one, two>>, FALSE), Asks("<?", <<zero, one, two>>, TRUE), Asks("<=?", <<one, one, zero, Nil>>, FALSE),
   Asks(">=?", <<one, one, zero>>, TRUE), Asks(">?", <<two, one, one>>, FALSE),
   Asks("number?", <<Call("$timed", <<one>>)>>, TRUE),
   <<Tokens(<<Call(">?", <<one, Nil>>)>>), <<"FAIL!">> >>,
   <<Tokens(<<Call("*", <<two, Num(3), two>>)>>), <<"12", "\n">> >>,
   <<Tokens(<<Call("time-now", << >>), Sym("time-now")>>), <<"#time", "\n", "#applicative", "\n">> >>,
   <<Tokens(<<Call("$sequence", <<Call("write", <<Call("cons", <<L(<<Sym("list"), Bool(TRUE), ignore>>), P(Sym("cons"), L(<<zero, one>>))>>)>>),
                                  Call("newline", << >>)>>)>>),
     <<"(", "(", "#t", " ", "#ignore", ")", " ", "0", " . ", "1", ")", "\n", "#t", "\n">> >>,
   <<Tokens(<<Define(L(<<Sym("seal"), Sym("sealed?"), Sym("unseal")>>), Call("make-encapsulation-type", << >>)),
              Define(x, Call("seal", <<Num(42)>>)),
              Call("$if", <<Call("sealed?", <<x>>), Call("unseal", <<x>>), Bool(FALSE)>>),
              Call("sealed?", <<x, one>>), Call("pair?", <<x>>),
              Call("unseal", <<one>>),
              \* the brand of another type
              Define(P(y, ignore), Call("make-encapsulation-type", << >>)), Call("sealed?", <<Call("y", <<one>>)>>),
              Call("unseal", <<Call("y", <<one>>)>>)>>),
     <<"#inert", "\n", "#inert", "\n", "42", "\n", "#f", "\n", "#f", "\n", "FAIL!", "#inert", "\n", "#f", "\n", "FAIL!">> >>,
   <<Tokens(<<Define(x, Call("cons", <<zero, zero>>)),
              Call("$concurrent", <<Call("set-car!", <<x, one>>), y, Call("set-cdr!", <<x, two>>)>>), x>>),
     <<"#inert", "\n", "#inert", "\n", "FAIL!", "(", "1", " . ", "2", ")", "\n">> >>,
   \* texts that are not a sequence of expressions
   << <<"(", "x", "(", "y">>, << >> >>,
   << <<"1", "[", "2">>, <<"1", "\n">> >>,
   << <<"0", ")", "1">>, <<"0", "\n">> >>,
   << <<".", "1", ")">>, << >> >>,
   << <<"(", ".", "1", ")", "0">>, <<"1", "\n", "0", "\n">> >>,
   << <<"(", ".", ")", ")", "0">>, << >> >>,
   << <<"(", ".", ".", "1", ")", ")", "0">>, << >> >>,
   << <<"(", "list", "1", "(", ".", ")", ")">>, <<"(", "1", ")", "\n">> >>,
   << <<"(", "list", "1", "(", ".", ".", "2", ")", ")", "0">>, <<"FAIL!", "0", "\n">> >>,
   << <<"(", "list", "1", ".", "2", "3", ")">>, << >> >>}
=============================================================================
