-------------------------------- MODULE Heap --------------------------------
(***************************************************************************)
(* What the cell allocator promises to the programs that run on it: cells  *)
(* come from outside the set in use, reading and writing a cell in use     *)
(* gives what was stored, and only cells that the program cannot reach any *)
(* more are taken back.  Module Treadmill implements it.                   *)
(***************************************************************************)
CONSTANTS
  Cell,   \* all cells
  NIL     \* a field that refers to no cell

VARIABLES
  used,     \* the cells in use
  first,    \* their fields
  rest,
  running,  \* is the program executing a behaviour
  regs,     \* the cells it holds in variables
  pending,  \* the cells in undelivered messages
  timers,   \* the cells with the times of those that are delayed
  globals   \* the cells protected for ever

vars == <<used, first, rest, running, regs, pending, timers, globals>>

Children(c) == {first[c], rest[c]} \ {NIL}

Closed(K) == \A c \in K : Children(c) \subseteq K
Reach(S) == {c \in Cell : \A K \in SUBSET Cell : S \subseteq K /\ Closed(K) => c \in K}

Init ==
  /\ used = {}
  /\ first = [c \in Cell |-> NIL]
  /\ rest = [c \in Cell |-> NIL]
  /\ running = FALSE
  /\ regs = {}
  /\ pending = {}
  /\ timers = {}
  /\ globals = {}

Allocate(a, d) ==
  /\ running
  /\ \E p \in Cell \ used :
       /\ used' = used \cup {p}
       /\ first' = [first EXCEPT ![p] = a]
       /\ rest' = [rest EXCEPT ![p] = d]
       /\ regs' = regs \cup {p}
  /\ UNCHANGED <<running, pending, timers, globals>>

Read(c) ==
  /\ running
  /\ \E v \in Children(c) : regs' = regs \cup {v}
  /\ UNCHANGED <<used, first, rest, running, pending, timers, globals>>

Write(c, v) ==
  /\ running
  /\ \/ first' = [first EXCEPT ![c] = v] /\ UNCHANGED rest
     \/ rest' = [rest EXCEPT ![c] = v] /\ UNCHANGED first
  /\ UNCHANGED <<used, running, regs, pending, timers, globals>>

Send(v) ==
  /\ running
  /\ pending' = pending \cup {v}
  /\ UNCHANGED <<used, first, rest, running, regs, timers, globals>>

SendAfter(t, v) ==
  /\ running
  /\ timers' = timers \cup {t}
  /\ pending' = pending \cup {v}
  /\ UNCHANGED <<used, first, rest, running, regs, globals>>

Fire(t) ==
  /\ ~running
  /\ timers' = timers \ {t}
  /\ UNCHANGED <<used, first, rest, running, regs, pending, globals>>

Protect(v) ==
  /\ running
  /\ globals' = globals \cup {v}
  /\ UNCHANGED <<used, first, rest, running, regs, pending, timers>>

Deliver(S) ==
  /\ ~running
  /\ running' = TRUE
  /\ regs' = S \cup globals
  /\ \E T \in SUBSET S : pending' = pending \ T
  /\ UNCHANGED <<used, first, rest, timers, globals>>

Return ==
  /\ running
  /\ running' = FALSE
  /\ regs' = {}
  /\ UNCHANGED <<used, first, rest, pending, timers, globals>>

Reclaim ==
  /\ \E G \in SUBSET (used \ Reach(regs \cup pending \cup timers \cup globals)) : used' = used \ G
  /\ UNCHANGED <<first, rest, running, regs, pending, timers, globals>>

Next ==
  \/ \E a, d \in regs \cup {NIL} : Allocate(a, d)
  \/ \E c \in regs : Read(c)
  \/ \E c \in regs, v \in regs \cup {NIL} : Write(c, v)
  \/ \E v \in regs : Send(v) \/ Protect(v)
  \/ \E t, v \in regs : SendAfter(t, v)
  \/ \E t \in timers : Fire(t)
  \/ \E S \in SUBSET pending : Deliver(S)
  \/ Return
  \/ Reclaim

Spec == Init /\ [][Next]_vars
=============================================================================
