-------------------------------- MODULE Sample --------------------------------
(***************************************************************************)
(* The sample program: the hand-coded actors of sample.c, run by the main  *)
(* loop of abe.c (abe -s -n Count).  The clock is real; of a time only     *)
(* whether it is another second than the one before is ever looked at.     *)
(*                                                                         *)
(* Two guards of sample.c ask for an actor that is a cons with a function  *)
(* in front; an actor has a tag of its own (cons.h, BF_ACTOR), so that     *)
(* they find none.  each_second is therefore told nothing and the ticker   *)
(* not to stop: both are here as the code has them, and never run.         *)
(***************************************************************************)
EXTENDS Integers, Sequences, FiniteSets

CONSTANTS
  Count,     \* the counter of option -n, any number
  Naps,      \* sleeps of the main loop (TICK_FREQ / 10) per delay (TICK_FREQ / 3)
  Second     \* the seconds of the clock, over and over

ASSUME SampleAssumption == Count \in Int /\ Naps \in Nat \ {0} /\ Second \subseteq Nat

VARIABLES
  pc,           \* where the main loop is
  queue,        \* messages <<actor, content>>, the oldest first
  nap,          \* sleeps until the delayed tick is due, None without one
  tick,         \* the time in the message of the ticker, re-used for ever
  ticker,       \* the last second that time_ticker has seen
  count,        \* the counter of each_second
  sunk,         \* the actors whose behaviour is sink_beh
  line,         \* what is printed on the current line
  sample_done

sampleVars == <<pc, queue, nap, tick, ticker, count, sunk, line, sample_done>>

None == -1  \* no time seen yet, no delayed message

QueueLimit == 100  \* limit in main

(* The queue after test_sample and start_ticker.                           *)
SampleInit ==
  /\ pc = "clock"
  /\ queue = <<<<"say_hello", "World!">>, <<"say_hello", "42">>, <<"time_ticker", "tick">>>>
  /\ nap = None
  /\ tick \in Second
  /\ ticker = None
  /\ count = Count
  /\ sunk = {}
  /\ line = << >>
  /\ sample_done = FALSE

Greeting == <<"Hello, ", "Actor", " from ">>

(* The tag of an actor.                                                    *)
Actor == {"say_hello", "print_text", "print_line", "each_second", "time_ticker"}
TypeOf == [x \in Actor |-> "BF_ACTOR"]

(* The guards of the two sends: a cons, of a function and a cons.          *)
FoundCons(x) == TypeOf[x] = "BF_CONS"

-----------------------------------------------------------------------------
(* Mutant: the newest message is delivered first (CQ_PUSH).                *)
Faulty_Rest(sent) == [i \in DOMAIN sent |-> sent[Len(sent) + 1 - i]] \o Tail(queue)

(* The message in hand is off the queue; those it makes follow the others. *)
Rest(sent) == Tail(queue) \o sent

say_hello(name) ==
  /\ queue' = Rest([i \in 1 .. 3 |-> <<"print_text", Greeting[i]>>] \o <<<<"print_line", name>>>>)
  /\ UNCHANGED <<nap, tick, ticker, count, sunk, line, sample_done>>

print_text(text) ==
  /\ queue' = Rest(<< >>)
  /\ line' = Append(line, text)
  /\ UNCHANGED <<nap, tick, ticker, count, sunk, sample_done>>

print_line ==
  /\ queue' = Rest(<< >>)
  /\ line' = << >>
  /\ UNCHANGED <<nap, tick, ticker, count, sunk, sample_done>>

(* A line for each second; the last one stops the ticker.                  *)
each_second ==
  /\ queue' = Rest(<<<<"print_line", "second">>>> \o
                   IF count <= 0 /\ FoundCons("time_ticker") THEN <<<<"time_ticker", "stop">>>> ELSE << >>)
  /\ IF count <= 0 THEN sunk' = sunk \cup {"each_second"} /\ UNCHANGED count
     ELSE count' = count - 1 /\ UNCHANGED sunk
  /\ UNCHANGED <<nap, tick, ticker, line, sample_done>>

StopTicker ==
  /\ queue' = Rest(<< >>)
  /\ sunk' = sunk \cup {"time_ticker"}
  /\ sample_done' = TRUE
  /\ UNCHANGED <<nap, tick, ticker, count, line>>

(* The time in the message is replaced and the message delayed.            *)
time_ticker ==
  /\ queue' = Rest(IF ticker # tick /\ FoundCons("each_second") THEN <<<<"each_second", "second">>>> ELSE << >>)
  /\ ticker' = tick
  /\ tick' \in Second
  /\ nap' = Naps
  /\ UNCHANGED <<count, sunk, line, sample_done>>

sink_beh ==
  /\ queue' = Rest(<< >>)
  /\ UNCHANGED <<nap, tick, ticker, count, sunk, line, sample_done>>

Handle(actor, content) ==
  IF actor \in sunk THEN sink_beh
  ELSE CASE actor = "say_hello" -> say_hello(content)
         [] actor = "print_text" -> print_text(content)
         [] actor = "print_line" -> print_line
         [] actor = "each_second" -> each_second
         [] actor = "time_ticker" -> IF content = "stop" THEN StopTicker ELSE time_ticker

-----------------------------------------------------------------------------
(* Mutant: the time is written when the message is sent.                   *)
Faulty_ClockTick ==
  /\ pc = "clock"
  /\ pc' = "dispatch"
  /\ IF nap = 0
     THEN nap' = None /\ queue' = Append(queue, <<"time_ticker", "tick">>) /\ tick' \in Second
     ELSE UNCHANGED <<nap, queue, tick>>
  /\ UNCHANGED <<ticker, count, sunk, line, sample_done>>

(* run_configuration looks at the clock first and, with fewer than 256     *)
(* messages, not again.  A delayed message that is due is sent.            *)
ClockTick ==
  /\ pc = "clock"
  /\ pc' = "dispatch"
  /\ IF nap = 0
     THEN nap' = None /\ queue' = Append(queue, <<"time_ticker", "tick">>)
     ELSE UNCHANGED <<nap, queue>>
  /\ UNCHANGED <<tick, ticker, count, sunk, line, sample_done>>

Dispatch ==
  /\ pc = "dispatch"
  /\ queue # << >>
  /\ Handle(Head(queue)[1], Head(queue)[2])
  /\ UNCHANGED pc

(* The main loop sleeps if a message is delayed; a sleep may take longer.  *)
Sleep ==
  /\ pc = "dispatch"
  /\ queue = << >>
  /\ nap' \in IF nap > 0 THEN 0 .. nap - 1 ELSE {nap}
  /\ pc' = IF Len(queue) < QueueLimit /\ ~sample_done THEN "clock" ELSE "ended"
  /\ UNCHANGED <<queue, tick, ticker, count, sunk, line, sample_done>>

SampleNext == ClockTick \/ Dispatch \/ Sleep

(* The loop runs and its clock does not stand still.                       *)
NextSecond == SampleNext /\ tick' # tick
SampleFairness == WF_sampleVars(SampleNext) /\ SF_sampleVars(NextSecond)

SampleSpec == SampleInit /\ [][SampleNext]_sampleVars /\ SampleFairness

-----------------------------------------------------------------------------
Occurrences(message) == Cardinality({i \in DOMAIN queue : queue[i] = message})
TicksPending == Occurrences(<<"time_ticker", "tick">>) + IF nap = None THEN 0 ELSE 1

(* The message that is re-used is written to only while it is in hand, no  *)
(* other one of the ticker being queued or delayed (sample.c, time_ticker: *)
(* "HACK!!  re-use the message to reduce garbage").                        *)
ContentsKept ==
  [][tick' # tick =>
       /\ TicksPending = 1 /\ pc = "dispatch"
       /\ Head(queue) = <<"time_ticker", "tick">>]_sampleVars

(* Greetings made of several messages are not mixed up with each other: a  *)
(* line ends when the parts of one greeting are on it (sample.c, say_hello *)
(* and print_text).                                                        *)
LinesWhole ==
  /\ line \in {SubSeq(Greeting, 1, n) : n \in 0 .. 3}
  /\ pc = "dispatch" /\ queue # << >> /\ Head(queue)[1] = "print_line" => line = Greeting

(* The counter of the ticker is a number of seconds after which the        *)
(* program ends (abe.c, main: "default 5 second counter for ticker").      *)
SampleEnds == <>sample_done
=============================================================================
