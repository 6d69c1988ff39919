---------------------------- MODULE Environments ----------------------------
(***************************************************************************)
(* Environments, and parameter trees that are matched with values.  An     *)
(* environment has a map from names to values and a parent, or NIL.        *)
(*                                                                         *)
(* The map is a list of bindings in the C code.  A name that is bound      *)
(* already is rebound in place, at once; a new one makes a longer list,    *)
(* which the environment gets only when the match succeeds.                *)
(***************************************************************************)
EXTENDS Objects

Env(parent, map) == [parent |-> parent, map |-> map]
Empty == [name \in {} |-> NIL]

env_type ==
  /\ Behaves("env_type")
  /\ CASE WHAT.op = "lookup" /\ WHAT.key \in DOMAIN MINE.map -> Reply(MINE.map[WHAT.key])
       [] WHAT.op = "lookup" /\ WHAT.key \notin DOMAIN MINE.map ->
            IF MINE.parent = NIL THEN Throw ELSE Send(MINE.parent, WHAT)
       [] OTHER -> Typed("env_type", "#environment")

(* What a parameter tree asks for, from left to right: bind a name, or     *)
(* fail because the value has not the shape of the tree.                   *)
Binds(name, v) == <<[binds |-> TRUE, name |-> name, val |-> v]>>
Differs == <<[binds |-> FALSE]>>

Deeper(below) ==
  [at \in Int \X Int |->
     LET ptree == at[1]
         value == at[2]
     IN CASE ptree = a_ignore -> << >>
          [] ptree = a_nil -> IF value = a_nil THEN << >> ELSE Differs
          [] IsPair(ptree) ->
               IF IsPair(value) THEN below[<<Hd(ptree), Hd(value)>>] \o below[<<Tl(ptree), Tl(value)>>]
               ELSE Differs
          [] Is("symbol_type", ptree) -> Binds(actors[ptree].mine, value)
          [] OTHER -> Differs]

leavesTo[depth \in Nat] ==
  IF depth = 0 THEN [at \in Int \X Int |-> Differs] ELSE Deeper(leavesTo[depth - 1])

(* No tree is deeper than there are actors, but for one that contains      *)
(* itself, for which the recursion of the C code does not end.             *)
leaves(ptree, value) == leavesTo[Len(actors)][<<ptree, value>>]

(* Binding them in order, into map, until one fails.  kept is what the     *)
(* environment has then: the names it had, rebound if rebind allows.       *)
BindAll(all, map, rebind) ==
  LET Twice(i) == \/ all[i].name \in DOMAIN map
                  \/ \E j \in 1 .. i - 1 : all[j].binds /\ all[j].name = all[i].name
      failing == {i \in DOMAIN all : ~all[i].binds \/ (~rebind /\ Twice(i))}
      bound == {i \in DOMAIN all : \A j \in failing : i < j}
      At(name) == {i \in bound : all[i].name = name}
      After(name) ==
        IF At(name) = {} THEN map[name]
        ELSE all[CHOOSE i \in At(name) : \A j \in At(name) : j <= i].val
  IN [ok |-> failing = {},
      map |-> [name \in DOMAIN map \cup {all[i].name : i \in bound} |-> After(name)],
      kept |-> [name \in DOMAIN map |-> After(name)]]

Faulty_match_ptree(value, ptree, map, rebind) == BindAll(leaves(ptree, value), map, FALSE)

match_ptree(value, ptree, map, rebind) == BindAll(leaves(ptree, value), map, rebind)

(* The value of a definition binds the names of its parameter tree.        *)
define_match_beh ==
  /\ Behaves("define_match_beh")
  /\ IF Is("env_type", MINE.env)
     THEN LET env == actors[MINE.env].mine
              m == match_ptree(WHAT.val, MINE.ptree, env.map, TRUE)
          IN IF m.ok
             THEN Handle(Changed(MINE.env, "env_type", Env(env.parent, m.map)),
                         <<Message(MINE.cust, Value(a_inert))>>, << >>)
             ELSE Handle(Changed(MINE.env, "env_type", Env(env.parent, m.kept))
                           \o <<Actor("throw_beh", NIL)>>,
                         <<Message(New(1), Value(NIL))>>, << >>)
     ELSE Throw

EnvironmentNext == env_type \/ define_match_beh
=============================================================================
