----------------------------- MODULE MessagePump -----------------------------
(***************************************************************************)
(* What a configuration promises to actors: messages are delivered one at  *)
(* a time, each exactly once and in the order in which they were sent, and *)
(* a delayed message joins the queue no earlier than its delay asks for.   *)
(* Time counts clock ticks.  Module ActorConfig implements it.             *)
(***************************************************************************)
EXTENDS Integers, Sequences

CONSTANTS
  Actor,    \* targets
  Message,  \* contents
  Delay,    \* delays in ticks
  Id        \* names that tell delayed messages with equal contents apart

VARIABLES
  queue,    \* messages to deliver, oldest first
  timers,   \* delayed messages
  now,      \* the clock
  current   \* the message being handled, in a sequence of length one at most

vars == <<queue, timers, now, current>>

Event == [target : Actor, msg : Message]

Init ==
  /\ queue = << >>
  /\ timers = {}
  /\ now \in Nat
  /\ current = << >>

Send ==
  /\ \E e \in Event : queue' = Append(queue, e)
  /\ UNCHANGED <<timers, now, current>>

SendAfter ==
  /\ \E e \in Event, d \in Delay, i \in Id \ {x.id : x \in timers} :
       timers' = timers \cup {[id |-> i, due |-> now + d, event |-> e]}
  /\ UNCHANGED <<queue, now, current>>

(* Another time of day is seen; clocks can be set back.                    *)
SetClock ==
  /\ now' \in Nat
  /\ UNCHANGED <<queue, timers, current>>

Fire ==
  /\ \E x \in timers : /\ x.due <= now
                       /\ timers' = timers \ {x}
                       /\ queue' = Append(queue, x.event)
  /\ UNCHANGED <<now, current>>

Deliver ==
  /\ current = << >>
  /\ queue # << >>
  /\ current' = <<Head(queue)>>
  /\ queue' = Tail(queue)
  /\ UNCHANGED <<timers, now>>

Finish ==
  /\ current # << >>
  /\ current' = << >>
  /\ UNCHANGED <<queue, timers, now>>

Next == Send \/ SendAfter \/ SetClock \/ Fire \/ Deliver \/ Finish

Spec == Init /\ [][Next]_vars
=============================================================================
