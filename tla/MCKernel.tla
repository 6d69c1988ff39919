------------------------------ MODULE MCKernel ------------------------------
(***************************************************************************)
(* Module Kernel run on the programs of module Programs.                   *)
(***************************************************************************)
EXTENDS Kernel

LOCAL INSTANCE SequencesExt
LOCAL Ps == INSTANCE Programs

MCNumeral == [t \in {"0", "1", "2", "3", "42"} |->
  CASE t = "0" -> 0 [] t = "1" -> 1 [] t = "2" -> 2 [] t = "3" -> 3 [] t = "42" -> 42]

(* Limits on the messages for one expression: one that none reaches, and   *)
(* one that many do.                                                       *)
Ample == 1000
Scant == 15

Started(files, limit, fails) == [sources |-> files, M_limit |-> limit, sink_fails |-> fails]

(* Sources with what each of them should print.                            *)
Sources(programs) ==
  LET prints == Ps!Prints(programs)
  IN [i \in DOMAIN programs |->
        [text |-> Ps!Tokens(programs[i].program), interactive |-> programs[i].shown, prints |-> prints[i]]]
AmpleInputs ==
  {Started(Sources(<<[program |-> p, shown |-> TRUE]>>), Ample, FALSE) : p \in Ps!Generated}
    \cup {Started(Sources(programs), Ample, FALSE) : programs \in Ps!Loaded}
    \cup {Started(<<[text |-> t[1], interactive |-> TRUE, prints |-> t[2]]>>, Ample, FALSE) : t \in Ps!Tested}

RECURSIVE Collapse(_)
Collapse(s) ==
  IF Len(s) < 2 THEN s
  ELSE IF s[1] = "FAIL!" /\ s[2] = "FAIL!" THEN Collapse(Tail(s))
  ELSE <<s[1]>> \o Collapse(Tail(s))

Expected == FoldLeft(LAMBDA s, source : s \o source.prints, << >>, sources)

(* What was printed when the interpreter has ended is what the programs    *)
(* mean; several failures in a row count as one, for the operands of a     *)
(* combination fail independently of each other.                           *)
OutputAsMeant == Finished /\ M_limit = Ample /\ ~sink_fails => Collapse(out) = Collapse(Expected)

(* Expressions that need more messages than Scant, and then some that    *)
(* need few, during which what is left over is delivered.                  *)
Short == <<"0", "0", "0", "0", "0", "0">>
ScantInputs ==
  {Started(<<[text |-> t \o Short, interactive |-> TRUE]>>, Scant, FALSE) :
     t \in {Ps!Tokens(p) : p \in Ps!OnMaps \cup Ps!OnControl} \cup {t[1] : t \in {t \in Ps!Tested : t[2] # << >>}}}

(* The result of a write is kept; prints has what should be written.       *)
Written ==
  {Ps!zero, Ps!Nil, Ps!L(<<Ps!one>>), Ps!P(Ps!one, Ps!two), Ps!L(<<Ps!one, Ps!two>>),
   Ps!P(Ps!one, Ps!P(Ps!two, Ps!one)), Ps!L(<<Ps!L(<<Ps!one>>), Ps!P(Ps!one, Ps!two)>>)}
WriteInputs ==
  {Started(<<[text |-> Ps!Tokens(<<Ps!quote, Ps!Define(Ps!x, Ps!Call("write", <<Ps!Quoted(v)>>))>>), interactive |-> FALSE,
              prints |-> Ps!Show(v, Ps!Start)]>>, Ample, TRUE) : v \in Written}

(* Limits that leave every expression, all but one or none.                *)
LimitInputs == {Started(<<[text |-> Short, interactive |-> TRUE]>>, limit, FALSE) : limit \in {-1, 0, 1}}

MCInputs == AmpleInputs \cup ScantInputs \cup LimitInputs \cup WriteInputs

(* write answers #t if all of the value was written, and #f otherwise.     *)
WriteIsTrue ==
  Finished /\ sink_fails =>
    LET map == actors[a_ground_env].mine.map
    IN "x" \in DOMAIN map /\ map["x"] = Boolean(out = Expected)

(* Something that is not an applicative is applied.                        *)
ApplyInputs ==
  {Started(<<[text |-> Ps!Tokens(<<Ps!Call("apply", <<Ps!zero, Ps!Nil>>)>>), interactive |-> TRUE]>>, Ample, FALSE)}

(* The interpreter sends messages to actors only (assert in                *)
(* abe__send, actor.c).                                                     *)
TargetsAreActors == ~aborted
=============================================================================
