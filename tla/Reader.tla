------------------------------- MODULE Reader -------------------------------
(***************************************************************************)
(* read_sexpr: an expression is read from a sequence of tokens and made of *)
(* new actors.  What the characters of a token are is left out, but for    *)
(* the tokens "(" ")" and "."; a token that is none of these nor a numeral *)
(* nor a constant nor illegal is a symbol.                                 *)
(***************************************************************************)
EXTENDS Objects

CONSTANTS
  Numeral,  \* the numbers that some tokens are written for
  Illegal   \* tokens that start no expression

Named == [t \in {"#inert", "#t", "#f", "#ignore"} |->
            CASE t = "#inert" -> a_inert [] t = "#t" -> a_true [] t = "#f" -> a_false [] t = "#ignore" -> a_ignore]

(* A source: the tokens that are left, the actors made while reading from  *)
(* it, and the interned symbols.                                           *)
Source(text, made, symbols) == [text |-> text, made |-> made, symbols |-> symbols]
Skip(src) == [src EXCEPT !.text = Tail(@)]
LastMade(src) == Len(actors) + Len(src.made)
Make(src, b, s) == [src EXCEPT !.made = Append(@, Actor(b, s))]

(* What was read: an actor, ")", the end of a dotted list (val is the kind *)
(* and the val of what follows the dot), the end of the text or something  *)
(* that is no expression.                                                  *)
Got(kind, v, src) == [kind |-> kind, val |-> v, src |-> src]

get_number(n, src) == Got("actor", LastMade(src) + 1, Make(src, "number_type", n))

get_symbol(name, src) ==
  IF name \in DOMAIN src.symbols
  THEN Got("actor", src.symbols[name], src)
  ELSE Got("actor", LastMade(src) + 1,
           [Make(src, "symbol_type", name) EXCEPT !.symbols = (name :> LastMade(src) + 1) @@ @])

RECURSIVE MakeList(_, _, _)
MakeList(y, x, src) ==
  IF y = << >> THEN Got("actor", x, src)
  ELSE MakeList(SubSeq(y, 1, Len(y) - 1), LastMade(src) + 1, Make(src, "pair_type", Halves(y[Len(y)], x)))

(* F(v), where v is evaluated once.                                        *)
With(v, F(_)) == CHOOSE w \in {F(u) : u \in {v}} : TRUE

RECURSIVE read_sexpr(_), ReadList(_, _)

read_sexpr(src) ==
  IF src.text = << >> THEN Got("EOF", NotActor, src)
  ELSE LET c == Head(src.text)
       IN CASE c = "(" -> ReadList(<< >>, Skip(src))
            [] c = ")" -> Got("close", NIL, Skip(src))
            [] c = "." ->
                 With(read_sexpr(Skip(src)), LAMBDA x :
                   With(read_sexpr(x.src), LAMBDA y :
                     IF y.kind = "close"
                     THEN Got("dotted", [kind |-> x.kind, val |-> x.val], y.src)
                     ELSE Got("error", NotActor, y.src)))
            [] c \in Illegal -> Got("error", NotActor, src)
            [] c \in DOMAIN Named -> Got("actor", Named[c], Skip(src))
            [] c \in DOMAIN Numeral -> get_number(Numeral[c], Skip(src))
            [] OTHER -> get_symbol(c, Skip(src))

(* What follows the dot becomes the rest of the last pair, or without one  *)
(* is itself what was read, ")" as much as an actor.                       *)
Dotted(y, x, src) ==
  IF y = << >> THEN Got(x.kind, x.val, src)
  ELSE MakeList(y, IF x.kind \in {"actor", "close"} THEN x.val ELSE NotActor, src)

(* The rest of a list, of which y has been read.                           *)
ReadList(y, src) ==
  With(read_sexpr(src), LAMBDA x :
    CASE x.kind = "actor" -> ReadList(Append(y, x.val), x.src)
      [] x.kind = "close" -> MakeList(y, a_nil, x.src)
      [] x.kind = "dotted" -> Dotted(y, x.val, x.src)
      [] OTHER -> x)
=============================================================================
