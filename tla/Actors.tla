------------------------------- MODULE Actors -------------------------------
(***************************************************************************)
(* Actors as the interpreter in kernel.c programs them: ACTOR creates one, *)
(* SEND queues a message, BECOME replaces the behaviour and the state of   *)
(* the one that runs.  An actor is its index in the sequence of all actors *)
(* ever created; module ActorConfig models the queue in terms of cells and *)
(* module Treadmill what becomes of actors that nobody refers to.          *)
(*                                                                         *)
(* ABE data is abstracted to records.  A request has fields op and cust; a *)
(* request that is handed around before its customer is known has NIL for  *)
(* a customer.  Any other message is a reply: a value, what as_pair sends, *)
(* the two answers of a join, a tagged answer, or a list of operands.      *)
(***************************************************************************)
EXTENDS Integers, Sequences

VARIABLES
  actors,   \* the behaviour and the state of every actor
  queue,    \* messages sent and not delivered yet, oldest first
  out,      \* what was written to the output file
  aborted,  \* an assertion has ended the process
  turns     \* history: the number of messages that each actor has handled

vars == <<actors, queue, out, aborted, turns>>

NIL == 0        \* the empty ABE list
NotActor == -1  \* any other ABE value that is not an actor

Actor(b, s) == [beh |-> b, mine |-> s]
Message(to, what) == [to |-> to, what |-> what]

Value(v) == [op |-> "value", val |-> v]
Pair(h, t) == [op |-> "pair", hd |-> h, tl |-> t]
Tagged(k, v) == [op |-> "tagged", tag |-> k, val |-> v]
Request(op, k) == [op |-> op, cust |-> k]
For(k, req) == [req EXCEPT !.cust = k]

(* The event that is being handled.                                        *)
SELF == Head(queue).to
WHAT == Head(queue).what
MINE == actors[SELF].mine

(* The behaviour b is called for the oldest message.                       *)
Behaves(b) == ~aborted /\ queue # << >> /\ actors[SELF].beh = b

(* The k-th actor that the running behaviour creates.                      *)
New(k) == Len(actors) + k

(* SEND asserts that its target is an actor.                               *)
Deliverable(m) == m.to \in 1 .. Len(actors')

(* What a behaviour did: all has the actors as it leaves them, new ones at *)
(* the end, sent the messages in the order of SEND.                        *)
Handle(all, sent, tokens) ==
  /\ turns' = [a \in DOMAIN all |->
                 IF a > Len(turns) THEN 0 ELSE IF a = SELF THEN turns[a] + 1 ELSE turns[a]]
  /\ actors' = all
  /\ queue' = Tail(queue) \o sent
  /\ aborted' = \E i \in DOMAIN sent : ~Deliverable(sent[i])
  /\ out' = out \o tokens

React(new, sent) == Handle(actors \o new, sent, << >>)
Send(to, what) == React(<< >>, <<Message(to, what)>>)
Ignore == React(<< >>, << >>)
Changed(a, b, s) == [actors EXCEPT ![a] = Actor(b, s)]
Become(b, s, sent) == Handle(Changed(SELF, b, s), sent, << >>)

(* THROW creates an actor that reports the failure; nobody is answered.    *)
Throw == React(<<Actor("throw_beh", NIL)>>, <<Message(New(1), Value(NIL))>>)

sink_beh == Behaves("sink_beh") /\ Ignore

throw_beh == Behaves("throw_beh") /\ Handle(actors, << >>, <<"FAIL!">>)
=============================================================================
