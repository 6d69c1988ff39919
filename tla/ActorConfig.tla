----------------------------- MODULE ActorConfig -----------------------------
(***************************************************************************)
(* The actor runtime of actor.c: the pool of recycled queue cells, the     *)
(* message queue, the timer queue, message dispatch and run_configuration. *)
(*                                                                         *)
(* The cells are those of the pool (cq_cons, cq_free).  A queued message   *)
(* takes two of them, a node (car: entry, cdr: next node) and an entry     *)
(* (car: target, cdr: contents); a delayed message takes three, a node, a  *)
(* timer (car: time, cdr: entry) and an entry.  What a behaviour does      *)
(* besides sending is left open.                                           *)
(***************************************************************************)
EXTENDS Integers, Sequences, FiniteSets

CONSTANTS
  NIL,
  Actor,            \* targets of messages
  Message,          \* contents of messages
  PoolCell,         \* cells that gc_perm can hand to the pool
  Delay,            \* delays that programs ask for, in ticks
  Budget,           \* message limits given to run_configuration
  q_limit,          \* the configuration's limit on waiting messages
  TICK_FREQ,        \* ticks per second
  CLOCK_STEP_SIZE,  \* messages between two clock checks
  INT_MAX,          \* the largest int
  MaxMessages,      \* bound: messages sent in a behaviour of the model
  MaxSecond         \* bound: last second of the clock

(* gc_perm never runs out of cells: PoolCell has enough for MaxMessages     *)
(* delayed messages and for the message that one of them becomes.          *)
ASSUME ConstantsAssumption ==
  /\ NIL \notin PoolCell
  /\ IsFiniteSet(PoolCell)
  /\ Cardinality(PoolCell) >= 3 * MaxMessages + 2
  /\ Delay \subseteq Nat
  /\ Budget \subseteq Nat
  /\ q_limit \in Nat
  /\ TICK_FREQ \in Nat \ {0}
  /\ CLOCK_STEP_SIZE \in Nat \ {0}
  /\ INT_MAX \in Nat
  /\ MaxMessages \in Nat
  /\ MaxSecond \in Nat

VARIABLES
  queue,       \* the first two fields of CONFIG: car (head) and cdr (tail)
  q_count,
  q_entry,     \* the entry of the message being delivered
  t_queue,     \* the first node of the timer queue
  t_count,
  now,         \* <<t_now_s, t_now_us>>
  msg_cnt,     \* <<msg_cnt_hi, msg_cnt_lo>>
  pc,          \* where run_configuration is; "stopped" when not running
  msg_limit,   \* its remaining budget
  clock_step,  \* its messages until the next clock check
  delivered,   \* all messages delivered so far (not in the code)
  pool         \* contents of the pool's cells and its free list

timing == <<t_queue, t_count, now>>
loop == <<pc, msg_limit, clock_step>>
vars == <<delivered, loop, q_count, t_count, now, msg_cnt, q_entry, queue, t_queue, pool>>

-----------------------------------------------------------------------------
(* The pool.  pool.free heads the list of recycled cells, linked by cdr;   *)
(* pool.perm were taken from gc_perm, and pool.cnt is free_config_cnt.     *)

cq_cons(p, a, d) ==
  LET c == IF p.free # NIL THEN p.free ELSE CHOOSE x \in PoolCell \ p.perm : TRUE IN
  [cell |-> c,
   pool |-> [car |-> [p.car EXCEPT ![c] = a],
             cdr |-> [p.cdr EXCEPT ![c] = d],
             free |-> IF p.free # NIL THEN p.cdr[c] ELSE NIL,
             perm |-> p.perm \cup {c},
             cnt |-> p.cnt + 1]]

(* Mutant: the recycled cell keeps its old cdr.                            *)
Faulty_cq_free(p, c) == [p EXCEPT !.car[c] = NIL, !.free = c, !.cnt = @ - 1]

cq_free(p, c) ==
  [p EXCEPT !.car[c] = NIL, !.cdr[c] = p.free, !.free = c, !.cnt = @ - 1]

(* The cells of a list linked by cdr that starts at c.                     *)
Chain(p, c) ==
  LET all == Cardinality(PoolCell) + 1
      walk[n \in 0 .. all] ==
        [d \in PoolCell \cup {NIL} |->
           IF n = 0 \/ d = NIL THEN << >> ELSE <<d>> \o walk[n - 1][p.cdr[d]]]
  IN walk[all][c]

-----------------------------------------------------------------------------
(* Time values <<seconds, ticks>>; both loops subtract while ">" holds.    *)

Excess(us) == IF us > TICK_FREQ THEN (us - 1) \div TICK_FREQ ELSE 0

tv_create(s, us) == <<s + Excess(us), us - TICK_FREQ * Excess(us)>>

tv_increment(s, us, d) == tv_create(s + Excess(d), us + d - TICK_FREQ * Excess(d))

Later(t, u) == t[1] > u[1] \/ (t[1] = u[1] /\ t[2] > u[2])

Ticks(t) == t[1] * TICK_FREQ + t[2]

-----------------------------------------------------------------------------
(* CQ_PUT at the end of the queue: the tail is trusted only if the head is *)
(* not NIL, since CQ_POP leaves it pointing to the node it removed.        *)

PutNode(p, e) ==
  IF queue.head = NIL THEN p ELSE [p EXCEPT !.cdr[queue.tail] = e]

(* Mutant: emptiness is judged by the tail, which CQ_POP leaves behind.    *)
FaultyPutQueue(e) ==
  [head |-> IF queue.tail = NIL THEN e ELSE queue.head, tail |-> e]

PutQueue(e) == [head |-> IF queue.head = NIL THEN e ELSE queue.head, tail |-> e]

abe__send(target, msg) ==
  LET entry == cq_cons(pool, target, msg)
      node == cq_cons(entry.pool, entry.cell, NIL)
  IN [pool |-> PutNode(node.pool, node.cell), queue |-> PutQueue(node.cell)]

TimeOf(p, node) == p.car[p.car[node]]

(* Insertion walks past the nodes that are not earlier than the new time.  *)
t_queue_insert(p, timer, time) ==
  LET nodes == Chain(p, t_queue)
      earlier == {k \in DOMAIN nodes : Later(time, TimeOf(p, nodes[k]))}
      at == IF earlier = {} THEN Len(nodes) + 1
            ELSE CHOOSE k \in earlier : \A j \in earlier : k <= j
      node == cq_cons(p, timer, IF at > Len(nodes) THEN NIL ELSE nodes[at])
  IN IF at = 1
     THEN [pool |-> node.pool, t_queue |-> node.cell]
     ELSE [pool |-> [node.pool EXCEPT !.cdr[nodes[at - 1]] = node.cell],
           t_queue |-> t_queue]

abe__send_after(delay, target, msg) ==
  LET time == tv_increment(now[1], now[2], delay)
      entry == cq_cons(pool, target, msg)
      timer == cq_cons(entry.pool, time, entry.cell)
  IN t_queue_insert(timer.pool, timer.cell, time)

-----------------------------------------------------------------------------
Init ==
  /\ pool = [car |-> [c \in PoolCell |-> NIL], cdr |-> [c \in PoolCell |-> NIL],
             free |-> NIL, perm |-> {}, cnt |-> 0]
  /\ queue = [head |-> NIL, tail |-> NIL]
  /\ q_count = 0
  /\ q_entry = NIL
  /\ t_queue = NIL
  /\ t_count = 0
  /\ now \in {0} \X (0 .. TICK_FREQ - 1)
  /\ msg_cnt = <<0, 0>>
  /\ pc = "stopped"
  /\ msg_limit = 0
  /\ clock_step = 0
  /\ delivered = 0

(* Programs send from a behaviour or from C code between two runs.         *)
MaySend ==
  /\ pc \in {"stopped", "behaviour"}
  /\ delivered + q_count + t_count + Cardinality({q_entry} \ {NIL}) < MaxMessages

Send ==
  /\ MaySend
  /\ \E target \in Actor, msg \in Message :
       LET s == abe__send(target, msg) IN pool' = s.pool /\ queue' = s.queue
  /\ q_count' = q_count + 1
  /\ UNCHANGED <<q_entry, timing, msg_cnt, loop, delivered>>

(* The model's clock ends at MaxSecond, and no message is delayed past it. *)
SendAfter ==
  /\ MaySend
  /\ \E delay \in Delay, target \in Actor, msg \in Message :
       /\ ~Later(tv_increment(now[1], now[2], delay), <<MaxSecond, TICK_FREQ - 1>>)
       /\ LET s == abe__send_after(delay, target, msg)
          IN pool' = s.pool /\ t_queue' = s.t_queue
  /\ t_count' = t_count + 1
  /\ UNCHANGED <<queue, q_count, q_entry, now, msg_cnt, loop, delivered>>

(* run_configuration is called.                                            *)
RunConfiguration ==
  /\ pc = "stopped"
  /\ pc' = "loop"
  /\ msg_limit' \in Budget
  /\ clock_step' = 0
  /\ UNCHANGED <<pool, queue, q_count, q_entry, timing, msg_cnt, delivered>>

(* Its while condition fails and it returns.                               *)
BudgetSpent ==
  /\ pc = "loop"
  /\ msg_limit <= 0
  /\ pc' = "stopped"
  /\ UNCHANGED <<pool, queue, q_count, q_entry, timing, msg_cnt, msg_limit,
                 clock_step, delivered>>

NoClockCheck ==
  /\ pc = "loop"
  /\ msg_limit > 0
  /\ clock_step - 1 > 0
  /\ clock_step' = clock_step - 1
  /\ pc' = "dispatch"
  /\ UNCHANGED <<pool, queue, q_count, q_entry, timing, msg_cnt, msg_limit, delivered>>

(* abe__clock_tick reads the clock, which may have been set back, ...      *)
ReadClock ==
  /\ pc = "loop"
  /\ msg_limit > 0
  /\ clock_step - 1 <= 0
  /\ clock_step' = CLOCK_STEP_SIZE
  /\ now' \in (0 .. MaxSecond) \X (0 .. TICK_FREQ - 1)
  /\ pc' = "tick"
  /\ UNCHANGED <<pool, queue, q_count, q_entry, t_queue, t_count, msg_cnt,
                 msg_limit, delivered>>

(* Mutant: only the seconds are compared.                                  *)
FaultyNothingDue ==
  IF t_queue = NIL THEN TRUE ELSE TimeOf(pool, t_queue)[1] > now[1]

NothingDue == IF t_queue = NIL THEN TRUE ELSE Later(TimeOf(pool, t_queue), now)

(* ... sends the first delayed message while that one is due, ...          *)
FireTimer ==
  /\ pc = "tick"
  /\ ~NothingDue
  /\ LET timer == pool.car[t_queue]
         entry == pool.cdr[timer]
         s == abe__send(pool.car[entry], pool.cdr[entry])
     IN /\ pool' = cq_free(cq_free(cq_free(s.pool, entry), timer), t_queue)
        /\ queue' = s.queue
        /\ t_queue' = pool.cdr[t_queue]
  /\ q_count' = q_count + 1
  /\ t_count' = t_count - 1
  /\ UNCHANGED <<q_entry, now, msg_cnt, loop, delivered>>

(* ... and stops at the first one that is not.                             *)
TickDone ==
  /\ pc = "tick"
  /\ NothingDue
  /\ pc' = "dispatch"
  /\ UNCHANGED <<pool, queue, q_count, q_entry, timing, msg_cnt, msg_limit,
                 clock_step, delivered>>

(* Mutant: an empty queue waits for more messages.                         *)
FaultyQueueEmpty ==
  /\ pc = "dispatch"
  /\ queue.head = NIL
  /\ pc' = "loop"
  /\ UNCHANGED <<pool, queue, q_count, q_entry, timing, msg_cnt, msg_limit,
                 clock_step, delivered>>

QueueEmpty ==
  /\ pc = "dispatch"
  /\ queue.head = NIL
  /\ pc' = "stopped"
  /\ UNCHANGED <<pool, queue, q_count, q_entry, timing, msg_cnt, msg_limit,
                 clock_step, delivered>>

(* Mutant: the entry is recycled together with its node.                   *)
FaultyDispatch ==
  /\ pc = "dispatch"
  /\ queue.head # NIL
  /\ q_entry' = pool.car[queue.head]
  /\ queue' = [queue EXCEPT !.head = pool.cdr[queue.head]]
  /\ pool' = cq_free(cq_free(pool, queue.head), pool.car[queue.head])
  /\ q_count' = q_count - 1
  /\ pc' = "behaviour"
  /\ UNCHANGED <<timing, msg_cnt, msg_limit, clock_step, delivered>>

(* abe__dispatch pops a node, recycles it and calls the behaviour.         *)
Dispatch ==
  /\ pc = "dispatch"
  /\ queue.head # NIL
  /\ q_entry' = pool.car[queue.head]
  /\ queue' = [queue EXCEPT !.head = pool.cdr[queue.head]]
  /\ pool' = cq_free(pool, queue.head)
  /\ q_count' = q_count - 1
  /\ pc' = "behaviour"
  /\ UNCHANGED <<timing, msg_cnt, msg_limit, clock_step, delivered>>

(* Mutant: the low half wraps one message early.                           *)
FaultyCountMessage ==
  IF msg_cnt[2] + 1 >= INT_MAX THEN <<msg_cnt[1] + 1, 0>>
  ELSE <<msg_cnt[1], msg_cnt[2] + 1>>

(* An int that is incremented past INT_MAX is negative in this build.      *)
CountMessage ==
  IF msg_cnt[2] + 1 > INT_MAX THEN <<msg_cnt[1] + 1, 0>>
  ELSE <<msg_cnt[1], msg_cnt[2] + 1>>

(* The behaviour returns: the entry is recycled, the message is counted,   *)
(* and the run is aborted if too many messages wait.                       *)
BehaviourReturns ==
  /\ pc = "behaviour"
  /\ pool' = cq_free(pool, q_entry)
  /\ q_entry' = NIL
  /\ msg_cnt' = CountMessage
  /\ delivered' = delivered + 1
  /\ \/ q_count > q_limit /\ msg_limit' = -1 /\ pc' = "stopped"
     \/ q_count <= q_limit /\ msg_limit' = msg_limit - 1 /\ pc' = "loop"
  /\ UNCHANGED <<queue, q_count, timing, clock_step>>

Run ==
  \/ BudgetSpent \/ NoClockCheck \/ ReadClock \/ FireTimer \/ TickDone
  \/ QueueEmpty \/ Dispatch \/ BehaviourReturns

Next == Send \/ SendAfter \/ RunConfiguration \/ Run

(***************************************************************************)
(* run_configuration and the behaviours it calls are C code that goes on   *)
(* until it returns; the main program calls it again and again (abe.c,     *)
(* main), and time passes.                                                 *)
(***************************************************************************)
ClockReachesEnd == ReadClock /\ now' = <<MaxSecond, TICK_FREQ - 1>>

Fairness == WF_vars(Run) /\ WF_vars(RunConfiguration) /\ SF_vars(ClockReachesEnd)

Spec == Init /\ [][Next]_vars
FairSpec == Spec /\ Fairness

-----------------------------------------------------------------------------
QueueNodes == Chain(pool, queue.head)
TimerNodes == Chain(pool, t_queue)
FreeCells == Chain(pool, pool.free)

Elements(s) == {s[k] : k \in DOMAIN s}

TypeOK ==
  /\ DOMAIN pool.car = PoolCell /\ DOMAIN pool.cdr = PoolCell
  /\ pool.free \in PoolCell \cup {NIL}
  /\ pool.perm \subseteq PoolCell
  /\ queue \in [head : PoolCell \cup {NIL}, tail : PoolCell \cup {NIL}]
  /\ q_entry \in PoolCell \cup {NIL}
  /\ t_queue \in PoolCell \cup {NIL}
  /\ now \in (0 .. MaxSecond) \X (0 .. TICK_FREQ - 1)
  /\ msg_cnt \in Nat \X (0 .. INT_MAX)
  /\ pc \in {"stopped", "loop", "tick", "dispatch", "behaviour"}

(* The counters that cfg_gather_roots asserts are exact, and the tail that *)
(* CQ_PUT writes through is the last node whenever the queue has one.      *)
QueuesExact ==
  /\ q_count = Len(QueueNodes)
  /\ t_count = Len(TimerNodes)
  /\ queue.head # NIL => queue.tail = QueueNodes[Len(QueueNodes)]

(* Every pool cell that was ever allocated has exactly one use: it is free *)
(* or part of one message, queued, delayed or being delivered (cq_free is  *)
(* called once per cq_cons), and free_config_cnt counts those in use.      *)
QueueEntries == {pool.car[n] : n \in Elements(QueueNodes)}
TimerCells == {pool.car[n] : n \in Elements(TimerNodes)}
TimerEntries == {pool.cdr[c] : c \in TimerCells}

InUse == Elements(QueueNodes) \cup QueueEntries \cup Elements(TimerNodes)
           \cup TimerCells \cup TimerEntries \cup ({q_entry} \ {NIL})

PoolExact ==
  /\ InUse \cap Elements(FreeCells) = {}
  /\ InUse \cup Elements(FreeCells) = pool.perm
  /\ Cardinality(InUse) = 2 * q_count + 3 * t_count + Cardinality({q_entry} \ {NIL})
  /\ pool.cnt = Cardinality(InUse)

(* SELF and WHAT do not change under a behaviour: what it sends never      *)
(* reuses the entry of the message it is handling.                         *)
EventStable ==
  [][q_entry # NIL /\ q_entry' = q_entry =>
       /\ pool'.car[q_entry] = pool.car[q_entry]
       /\ pool'.cdr[q_entry] = pool.cdr[q_entry]]_vars

(* The two halves of the message counter never lose a message.             *)
MessageCountExact == delivered = msg_cnt[1] * (INT_MAX + 1) + msg_cnt[2]

(* A run returns, and with runs repeated and time passing every message,   *)
(* delayed or not, is handled.                                             *)
RunReturns == pc # "stopped" ~> pc = "stopped"
AllHandled == q_count + t_count > 0 ~> q_count + t_count = 0

(* abe__clock_tick leaves no delayed message behind whose time has come.   *)
DueMessagesSent ==
  [][TickDone => \A n \in Elements(TimerNodes) : Later(TimeOf(pool, n), now)]_vars

(* Cells implement messages: first come, first served, once, never early.  *)
EventAt(entry) == [target |-> pool.car[entry], msg |-> pool.cdr[entry]]

Pump == INSTANCE MessagePump WITH
  Id <- PoolCell,
  queue <- [k \in DOMAIN QueueNodes |-> EventAt(pool.car[QueueNodes[k]])],
  timers <- {[id |-> n, due |-> Ticks(TimeOf(pool, n)),
              event |-> EventAt(pool.cdr[pool.car[n]])] : n \in Elements(TimerNodes)},
  now <- Ticks(now),
  current <- IF q_entry = NIL THEN << >> ELSE <<EventAt(q_entry)>>
ImplementsPump == Pump!Spec

=============================================================================
