------------------------------ MODULE ForkJoin ------------------------------
(***************************************************************************)
(* The behaviours that evaluate two things at once: a fork asks two actors *)
(* and becomes a join, which sends a customer both answers in their places *)
(* when it has them, whichever comes first.  Answers are told apart by the *)
(* identity of the tag actors that were the customers of the two requests. *)
(***************************************************************************)
EXTENDS Actors

(* A fork is sent the two requests that it passes on.                      *)
ForkRequest(h_req, t_req) == [op |-> "fork", h_req |-> h_req, t_req |-> t_req]

FaultyAsks(k_head, k_tail) ==
  <<Message(MINE.head, For(k_head, WHAT.h_req)), Message(MINE.tail, For(k_head, WHAT.t_req))>>

Asks(k_head, k_tail) ==
  <<Message(MINE.head, For(k_head, WHAT.h_req)), Message(MINE.tail, For(k_tail, WHAT.t_req))>>

fork_beh ==
  /\ Behaves("fork_beh")
  /\ Handle(Changed(SELF, "join_beh", [cust |-> MINE.cust, k_first |-> New(1), k_rest |-> New(2)])
              \o <<Actor("tag_beh", SELF), Actor("tag_beh", SELF)>>,
            Asks(New(1), New(2)), << >>)

tag_beh == Behaves("tag_beh") /\ Send(MINE, Tagged(SELF, WHAT.val))

FirstCame ==
  Become("join_rest_beh", [cust |-> MINE.cust, k_rest |-> MINE.k_rest, first |-> WHAT.val], << >>)
RestCame ==
  Become("join_first_beh", [cust |-> MINE.cust, k_first |-> MINE.k_first, rest |-> WHAT.val], << >>)

(* A message that is not an awaited answer is ignored, here and below.     *)
join_beh ==
  /\ Behaves("join_beh")
  /\ CASE WHAT.tag = MINE.k_first -> FirstCame
       [] WHAT.tag = MINE.k_rest -> RestCame
       [] OTHER -> Ignore

Faulty_join_rest_beh ==
  /\ Behaves("join_rest_beh")
  /\ IF WHAT.tag # MINE.k_rest THEN Send(MINE.cust, Pair(MINE.first, WHAT.val)) ELSE Ignore

join_rest_beh ==
  /\ Behaves("join_rest_beh")
  /\ IF WHAT.tag = MINE.k_rest THEN Send(MINE.cust, Pair(MINE.first, WHAT.val)) ELSE Ignore

Faulty_join_first_beh ==
  /\ Behaves("join_first_beh")
  /\ IF WHAT.tag = MINE.k_first THEN Send(MINE.cust, Pair(MINE.rest, WHAT.val)) ELSE Ignore

join_first_beh ==
  /\ Behaves("join_first_beh")
  /\ IF WHAT.tag = MINE.k_first THEN Send(MINE.cust, Pair(WHAT.val, MINE.rest)) ELSE Ignore

(* Passes a request on to the actor that it is told.                       *)
command_beh == Behaves("command_beh") /\ Send(WHAT.val, MINE)

ForkJoinNext ==
  \/ fork_beh \/ tag_beh
  \/ join_beh \/ join_rest_beh \/ join_first_beh
=============================================================================
