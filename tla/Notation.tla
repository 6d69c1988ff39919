------------------------------- MODULE Notation -------------------------------
(***************************************************************************)
(* The textual form of values: str_to_cons of emit.c reads it, emit_cons   *)
(* writes it.  A value is NIL, a number, an atom or a pair.                *)
(*                                                                         *)
(* A text is a sequence of characters, one for each kind that the code     *)
(* tells apart.  N stands for the token NIL, L for the token literal, and  *)
(* # for all that emit_cons writes in place of what it leaves out.  The    *)
(* caller types a text, one character after another, and reads it.         *)
(***************************************************************************)
EXTENDS Integers, Sequences

LOCAL INSTANCE FiniteSetsExt
LOCAL INSTANCE SequencesExt

CONSTANTS
  BufSize,      \* sizeof(buf), which a token has to fit into with a NUL
  TextLimit,    \* characters of an atom that are written
  DepthLimit,   \* EMIT_DEPTH_LIMIT
  LengthLimit,  \* EMIT_LENGTH_LIMIT
  Key,          \* the characters that are typed
  MaxText       \* bound: the length of a text

ASSUME NotationAssumption == {DepthLimit, LengthLimit} \subseteq Nat \ {0} /\ TextLimit < BufSize

VARIABLE input  \* the text typed so far

End == "End"
Blank == " "
Tab == "\t"     \* white space that is not printable
Control == "^"  \* neither printable nor white space
White == {Blank, Tab}  \* isspace
Quote == "\""
Digit == {"0", "1"}
Reserved == {"(", ")", ":", Quote, "'"}  \* is_reserved

Nil == <<"nil">>
Number(w) == <<"number", w>>
AtomOf(w) == IF w \in {<< >>, <<"N">>} THEN Nil ELSE <<"atom", w>>
Pair(a, d) == <<"pair", a, d>>
IsPair(v) == v[1] = "pair"

(* What str_to_cons returns, and nextptr or where it gave up.              *)
Value(v, next) == [ok |-> TRUE, val |-> v, next |-> next]
Fail(next) == [ok |-> FALSE, val |-> Nil, next |-> next]

CharAt(t, p) == IF p > Len(t) THEN End ELSE t[p]

(* The first position from p on with a character in S.                     *)
Find(t, p, S) == Min({q \in p .. Len(t) + 1 : CharAt(t, q) \in S})

AnyChar == Reserved \cup Digit \cup White \cup {End, Control, "-", "a", "N", "L", "#"}

(* The token is a number: state 2 until its end.                           *)
NumberLike(w) ==
  LET digits == IF w # << >> /\ Head(w) = "-" THEN Tail(w) ELSE w
  IN digits # << >> /\ Range(digits) \subseteq Digit

(* A number is its shortest numeral.                                       *)
ValueOf(w) ==
  LET minus == Head(w) = "-"
      digits == IF minus THEN Tail(w) ELSE w
      ones == {i \in DOMAIN digits : digits[i] # "0"}
  IN IF ones = {} THEN <<"0">>
     ELSE (IF minus THEN <<"-">> ELSE << >>) \o SubSeq(digits, Min(ones), Len(digits))

(* A token that is not quoted, from position p on (states 2 and 3).        *)
Token(t, p) ==
  LET end == Find(t, p, Reserved \cup White \cup {End, Control})
      w == SubSeq(t, p, end - 1)
  IN IF CharAt(t, end) = Control THEN Fail(end)
     ELSE IF NumberLike(w) THEN Value(Number(ValueOf(w)), end)
     ELSE IF Len(w) < BufSize THEN Value(AtomOf(w), end)
     ELSE Fail(end)

(* A quoted token with its first quote at position p (state 4): all that   *)
(* is not printable ends it as an error, white space included.             *)
Quoted(t, p) ==
  LET end == Find(t, p + 1, {Quote, End, Tab, Control})
  IN IF CharAt(t, end) = Quote /\ end - p < BufSize
     THEN Value(AtomOf(SubSeq(t, p + 1, end - 1)), end + 1)
     ELSE Fail(end)

RECURSIVE str_to_cons(_, _), Elements(_, _)

(* After a colon one value and the end of the list.                        *)
PairTail(t, p) ==
  LET r == str_to_cons(t, p)
      end == Find(t, r.next, AnyChar \ White)
  IN IF ~r.ok THEN r
     ELSE IF CharAt(t, end) = ")" THEN Value(r.val, end + 1)
     ELSE Fail(end)

(* The rest of a list from position p on.                                  *)
Elements(t, p) ==
  LET start == Find(t, p, AnyChar \ White)
      r == str_to_cons(t, start)
      rest == Elements(t, r.next)
  IN CASE CharAt(t, start) = ")" -> Value(Nil, start + 1)
       [] CharAt(t, start) = ":" -> PairTail(t, start + 1)
       [] OTHER -> IF ~r.ok THEN r
                   ELSE IF ~rest.ok THEN rest
                   ELSE Value(Pair(r.val, rest.val), rest.next)

(* Mutant: reading does not go on behind nextptr.                          *)
Faulty_Literal(t, p) ==
  LET r == str_to_cons(t, p)
  IN IF r.ok THEN Value(Pair(AtomOf(<<"L">>), Pair(r.val, Nil)), p) ELSE r

(* 'x is (literal x).                                                      *)
Literal(t, p) ==
  LET r == str_to_cons(t, p)
  IN IF r.ok THEN Value(Pair(AtomOf(<<"L">>), Pair(r.val, Nil)), r.next) ELSE r

str_to_cons(t, p) ==
  LET start == Find(t, p, AnyChar \ White)
      c == CharAt(t, start)
  IN CASE c \in {End, Control, ")", ":"} -> Fail(start)
       [] c = Quote -> Quoted(t, start)
       [] c = "'" -> Literal(t, start + 1)
       [] c = "(" -> Elements(t, start + 1)
       [] OTHER -> Token(t, start)

-----------------------------------------------------------------------------
(* Mutant: the characters that end a token, but not the colon.             *)
Faulty_NeedsQuotes(w) == Range(w) \cap ((Reserved \ {":"}) \cup {Blank}) # {}

NeedsQuotes(w) == Range(w) \cap (Reserved \cup {Blank}) # {}

EmitAtom(w) ==
  LET quote == IF NeedsQuotes(w) THEN <<Quote>> ELSE << >>
      text == IF Len(w) > TextLimit THEN SubSeq(w, 1, TextLimit) \o <<"#">> ELSE w
  IN quote \o text \o quote

RECURSIVE emit_cons(_, _), EmitElements(_, _, _)

(* The list v from its element number n on, with the bracket that ends it. *)
EmitElements(v, depth, n) ==
  emit_cons(v[2], depth) \o
    CASE v[3] = Nil -> <<")">>
      [] v[3] # Nil /\ ~IsPair(v[3]) -> <<Blank, ":", Blank>> \o emit_cons(v[3], depth) \o <<")">>
      [] IsPair(v[3]) /\ n = LengthLimit -> <<Blank, "#", Blank, ")">>
      [] OTHER -> <<Blank>> \o EmitElements(v[3], depth, n + 1)

(* depth is emit_depth of the caller.                                      *)
emit_cons(v, depth) ==
  CASE v = Nil -> <<"N">>
    [] v[1] = "number" -> v[2]
    [] v[1] = "atom" -> EmitAtom(v[2])
    [] IsPair(v) /\ depth >= DepthLimit -> <<"#">>
    [] OTHER -> <<"(">> \o EmitElements(v, depth + 1, 1)

-----------------------------------------------------------------------------
read(t) == str_to_cons(t, 1)

(* The outcome does not need the end of the text.                          *)
Settled(t) == read(t).next <= Len(t)

NotationInit == input = << >>

(* One character is typed behind a text that settles.                      *)
NotationNext ==
  /\ Len(input) < MaxText
  /\ input = << >> \/ ~Settled(Front(input))
  /\ \E c \in Key : input' = Append(input, c)

-----------------------------------------------------------------------------
(* An atom spelled like a number, which a quoted token can be.             *)
RECURSIVE Confusable(_)
Confusable(v) ==
  \/ v[1] = "atom" /\ NumberLike(v[2])
  \/ IsPair(v) /\ (Confusable(v[2]) \/ Confusable(v[3]))

(* A value that was read, and lists that a program may make of it.         *)
Built(v) == {v, Pair(v, v), Pair(v, Pair(v, Pair(v, Nil))), Pair(Pair(Pair(v, Nil), Nil), Nil)}

(* What is written can be read, all of it, and gives the same value again, *)
(* whatever was typed to make it, unless something is left out or an atom  *)
(* looks like a number (emit.c, test_emit and test_str_to_cons).           *)
RoundTrip ==
  read(input).ok =>
    \A v \in Built(read(input).val) :
      LET out == emit_cons(v, 0)
      IN /\ read(out).ok /\ read(out).next = Len(out) + 1
         /\ "#" \in Range(out) \/ Confusable(v) \/ read(out).val = v

(* A value or a failure that does not need the end of the text stands, so  *)
(* that the caller may read on behind nextptr (emit.c, str_to_cons).       *)
Stands == [][Settled(input) => read(input') = read(input)]_input
=============================================================================
