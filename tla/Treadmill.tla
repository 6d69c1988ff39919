------------------------------ MODULE Treadmill ------------------------------
(***************************************************************************)
(* The garbage collector of gc.c, a variant of Baker's treadmill, together *)
(* with the mutator that drives it: actor behaviours (and top-level C      *)
(* code) that allocate, read and overwrite cells, and the configuration    *)
(* that keeps the persistent roots.                                        *)
(*                                                                         *)
(* Every collectable cell is on exactly one of four doubly linked lists.   *)
(* Here a list is the set of its cells (module GcLists models the links    *)
(* and the order) next to the size the list head caches, which the code    *)
(* tests instead of the list itself.  A field that holds an atom, a        *)
(* number, a code pointer or NIL is NIL here: none of them is scanned.     *)
(*                                                                         *)
(* A behaviour runs to completion between two deliveries, so a step of the *)
(* scanning actor never happens inside one.                                *)
(***************************************************************************)
EXTENDS Integers, FiniteSets

CONSTANTS
  Cell,        \* the collectable cells the process can obtain from malloc
  NIL,         \* a field that refers to no collectable cell
  BlockSize,   \* cells per malloc'ed block (GC_CELLS_ALLOCATED)
  Overwrite,   \* are cells overwritten (rplaca, BECOME) while a collection runs
  Delayed,     \* does a collection start while messages are delayed
  MaxPasses,   \* collections under way at once (1: callers never overlap them)
  MaxPending,  \* bound: cells that queued messages refer to
  MaxTimers,   \* bound: delayed messages
  MaxGlobals   \* bound: protected roots

ASSUME ConstantsAssumption ==
  /\ NIL \notin Cell
  /\ IsFiniteSet(Cell)
  /\ BlockSize \in Nat \ {0}
  /\ Overwrite \in BOOLEAN
  /\ Delayed \in BOOLEAN
  /\ MaxPasses \in Nat \ {0}
  /\ MaxPending \in Nat
  /\ MaxTimers \in Nat
  /\ MaxGlobals \in Nat

VARIABLES
  where,    \* the list each cell is on, "NONE" before its block is malloc'ed
  mark,     \* the phase marker in the low bits of _prev
  size,     \* the length cached in the head of each list
  phase,    \* gc_phase__mark
  first,    \* the user-visible fields of each cell
  rest,
  todo,     \* gathered roots that the running pass has not scanned yet
  passes,   \* collections under way
  full,     \* is gc_full_collection on the C stack
  running,  \* is a behaviour (or top-level C code) executing
  regs,     \* the cells its C variables refer to
  pending,  \* targets and contents of the queued and the delayed messages
  timers,   \* the time tuples of the delayed messages
  globals   \* the cells protected with cfg_add_gc_root

heap == <<where, mark, size, phase>>
fields == <<first, rest>>
pass == <<todo, passes, full>>
program == <<running, regs, pending, timers, globals>>
vars == <<heap, fields, pass, program>>

ListName == {"AGED", "SCAN", "FRESH", "FREE"}
Phase == {"0", "1"}

(***************************************************************************)
(* Operators named Faulty... are not part of the model: each is a mistake  *)
(* one could make in the definition of the same name, and the properties   *)
(* are validated by putting it in the place of that definition.            *)
(***************************************************************************)

(* gc_phase__prev is always the other phase marker. *)
Flip(m) == IF m = "0" THEN "1" ELSE "0"
prev == Flip(phase)

On(l) == {c \in Cell : where[c] = l}

(* The cells that the fields of cell c refer to. *)
Children(c) == {first[c], rest[c]} \ {NIL}

Faulty_cfg_gather_roots == globals

(***************************************************************************)
(* What cfg_gather_roots collects: protected cells, and the targets and    *)
(* contents of queued and of delayed messages, but not the time tuples.    *)
(***************************************************************************)
cfg_gather_roots == globals \cup pending

Init ==
  /\ where = [c \in Cell |-> "NONE"]
  /\ mark = [c \in Cell |-> "Z"]
  /\ size = [l \in ListName |-> 0]
  /\ phase = "1"
  /\ first = [c \in Cell |-> NIL]
  /\ rest = [c \in Cell |-> NIL]
  /\ todo = {}
  /\ passes = 0
  /\ full = FALSE
  /\ running = FALSE
  /\ regs = {}
  /\ pending = {}
  /\ timers = {}
  /\ globals = {}

(***************************************************************************)
(* gc_scan_cell on every cell of S: a cell that bears the current marker   *)
(* was seen in this pass; any other is assumed to be on AGED, whose size   *)
(* is decremented wherever the cell is.                                    *)
(***************************************************************************)
Unseen(S) == {c \in S : mark[c] # phase}

FaultyScannedSize(n) == [size EXCEPT !["SCAN"] = @ + n]
ScannedSize(n) == [size EXCEPT !["AGED"] = @ - n, !["SCAN"] = @ + n]

gc_scan_cell(S) ==
  LET U == Unseen(S) IN
  /\ where' = [c \in Cell |-> IF c \in U THEN "SCAN" ELSE where[c]]
  /\ mark' = [c \in Cell |-> IF c \in U THEN phase ELSE mark[c]]
  /\ size' = ScannedSize(Cardinality(U))
  /\ UNCHANGED phase

(* The read and write barrier: an accessed cell of the last phase is live. *)
gc_check_access(c) ==
  gc_scan_cell({d \in {c} : mark[d] = prev})

-----------------------------------------------------------------------------
(***************************************************************************)
(* The mutator.                                                            *)
(***************************************************************************)
Executing == running /\ ~full

(* The blocks gc_allocate_cells may obtain: none unless FREE is empty. *)
NewBlocks ==
  IF size["FREE"] = 0
  THEN {B \in SUBSET On("NONE") : Cardinality(B) = BlockSize}
  ELSE {{}}

FaultyAllocationMark == prev
AllocationMark == phase

(* Block B is put on FREE, and p is moved from there to FRESH. *)
gc_allocate(B, p) ==
  /\ where' = [c \in Cell |-> IF c = p THEN "FRESH"
                              ELSE IF c \in B THEN "FREE" ELSE where[c]]
  /\ mark' = [c \in Cell |-> IF c = p THEN AllocationMark
                             ELSE IF c \in B THEN "Z" ELSE mark[c]]
  /\ size' = [size EXCEPT !["FREE"] = @ + Cardinality(B) - 1,
                          !["FRESH"] = @ + 1]
  /\ UNCHANGED phase

gc_cons(a, d) ==
  /\ Executing
  /\ \E B \in NewBlocks : \E p \in On("FREE") \cup B :
       /\ gc_allocate(B, p)
       /\ first' = [first EXCEPT ![p] = a]
       /\ rest' = [rest EXCEPT ![p] = d]
       /\ regs' = regs \cup {p}
  /\ UNCHANGED <<pass, running, pending, timers, globals>>

gc_first(c) ==
  /\ Executing
  /\ gc_check_access(c)
  /\ regs' = regs \cup ({first[c]} \ {NIL})
  /\ UNCHANGED <<fields, pass, running, pending, timers, globals>>

gc_rest(c) ==
  /\ Executing
  /\ gc_check_access(c)
  /\ regs' = regs \cup ({rest[c]} \ {NIL})
  /\ UNCHANGED <<fields, pass, running, pending, timers, globals>>

gc_set_first(c, v) ==
  /\ Executing
  /\ Overwrite \/ passes = 0
  /\ gc_check_access(c)
  /\ first' = [first EXCEPT ![c] = v]
  /\ UNCHANGED <<rest, pass, program>>

gc_set_rest(c, v) ==
  /\ Executing
  /\ Overwrite \/ passes = 0
  /\ gc_check_access(c)
  /\ rest' = [rest EXCEPT ![c] = v]
  /\ UNCHANGED <<first, pass, program>>

(* abe__send: v is the target or the contents of a message put in the queue. *)
abe__send(v) ==
  /\ Executing
  /\ pending' = pending \cup {v}
  /\ Cardinality(pending') <= MaxPending
  /\ UNCHANGED <<heap, fields, pass, running, regs, timers, globals>>

(***************************************************************************)
(* abe__send_after: t is the time tuple that tv_increment has just made of *)
(* collectable cells (one cell here: it refers to no other).  The entry of *)
(* the timer queue that refers to it is a permanent cell.                  *)
(***************************************************************************)
abe__send_after(t, v) ==
  /\ Executing
  /\ Children(t) = {}
  /\ timers' = timers \cup {t}
  /\ Cardinality(timers') <= MaxTimers
  /\ pending' = pending \cup {v}
  /\ Cardinality(pending') <= MaxPending
  /\ UNCHANGED <<heap, fields, pass, running, regs, globals>>

(* The time of an earlier delayed message is compared with the new one.    *)
t_queue_insert ==
  /\ Executing
  /\ \E t \in timers : gc_check_access(t)
  /\ UNCHANGED <<fields, pass, program>>

(* Between two messages the clock is read: the time of the first delayed   *)
(* message is looked at, and the message is queued if it is due.           *)
abe__clock_tick ==
  /\ ~running
  /\ ~full
  /\ \E t \in timers :
       /\ gc_check_access(t)
       /\ timers' \in {timers, timers \ {t}}
  /\ UNCHANGED <<fields, pass, running, regs, pending, globals>>

cfg_add_gc_root(v) ==
  /\ Executing
  /\ globals' = globals \cup {v}
  /\ Cardinality(globals') <= MaxGlobals
  /\ UNCHANGED <<heap, fields, pass, running, regs, pending, timers>>

(***************************************************************************)
(* A message leaves the queue and its behaviour starts.  Its target and    *)
(* contents S stay pending if another message refers to them.  S is empty  *)
(* when top-level C code takes over between two runs.                      *)
(***************************************************************************)
abe__dispatch(S) ==
  /\ ~running
  /\ ~full
  /\ Cardinality(S) <= 2
  /\ running' = TRUE
  /\ regs' = S \cup globals
  /\ \E T \in SUBSET S : pending' = pending \ T
  /\ UNCHANGED <<heap, fields, pass, timers, globals>>

EndBehaviour ==
  /\ Executing
  /\ running' = FALSE
  /\ regs' = {}
  /\ UNCHANGED <<heap, fields, pass, pending, timers, globals>>

Mutator ==
  \/ \E a, d \in regs \cup {NIL} : gc_cons(a, d)
  \/ \E c \in regs : gc_first(c) \/ gc_rest(c)
  \/ \E c \in regs, v \in regs \cup {NIL} : gc_set_first(c, v) \/ gc_set_rest(c, v)
  \/ \E v \in regs : abe__send(v) \/ cfg_add_gc_root(v)
  \/ \E t, v \in regs : abe__send_after(t, v)
  \/ t_queue_insert
  \/ abe__clock_tick
  \/ \E S \in SUBSET pending : abe__dispatch(S)
  \/ EndBehaviour

-----------------------------------------------------------------------------
(***************************************************************************)
(* The collector.                                                          *)
(***************************************************************************)

(* Every fresh cell becomes a candidate and the markers change roles. *)
gc_age_cells ==
  /\ where' = [c \in Cell |-> IF where[c] = "FRESH" THEN "AGED" ELSE where[c]]
  /\ size' = [size EXCEPT !["AGED"] = @ + size["FRESH"], !["FRESH"] = 0]
  /\ phase' = prev
  /\ UNCHANGED mark

(***************************************************************************)
(* The gathered roots form a chain of cells that the pass scans one by     *)
(* one, each greying one root and the next link.  Only one link of a chain *)
(* is on SCAN at a time; the links behind it stay AGED and bear what the   *)
(* next pass takes for the current marker, so a pass that starts before    *)
(* this one ended loses the roots behind it (and gathers its own).         *)
(***************************************************************************)
StartPass ==
  /\ ~running
  /\ ~full
  /\ passes < MaxPasses
  /\ Delayed \/ timers = {}
  /\ gc_age_cells
  /\ passes' = passes + 1
  /\ \E T \in {U \in SUBSET todo : Cardinality(U) <= 1 /\ (U = {} => todo = {})} :
       todo' = cfg_gather_roots \cup T
  /\ UNCHANGED <<fields, program>>

cfg_force_gc == StartPass /\ full' = TRUE

cfg_start_gc == StartPass /\ UNCHANGED full

FaultyScanRoot == \E r \in todo : gc_scan_cell({r}) /\ UNCHANGED todo

(* A link of the chain of roots is popped from SCAN. *)
ScanRoot ==
  \E r \in todo :
    /\ todo' = todo \ {r}
    /\ gc_scan_cell({r})

(* Cell p is popped from SCAN, its fields are scanned, and it is FRESH. *)
ScanFields(p) ==
  LET U == Unseen(Children(p)) IN
  /\ where' = [c \in Cell |-> IF c = p THEN "FRESH"
                              ELSE IF c \in U THEN "SCAN" ELSE where[c]]
  /\ mark' = [c \in Cell |-> IF c \in U THEN phase ELSE mark[c]]
  /\ size' = [ScannedSize(Cardinality(U)) EXCEPT !["SCAN"] = @ - 1,
                                                 !["FRESH"] = @ + 1]
  /\ UNCHANGED <<phase, todo>>

ScanCell == \E p \in On("SCAN") : ScanFields(p)

gc_refresh_cell ==
  /\ passes > 0
  /\ ~running
  /\ ScanRoot \/ (size["SCAN"] # 0 /\ ScanCell)
  /\ UNCHANGED <<fields, passes, full, program>>

FaultyUnreached == {}
Unreached == On("AGED")

(* gc_append_list leaves the sizes alone when AGED has no cell. *)
gc_free_cells ==
  /\ passes > 0
  /\ ~running
  /\ size["SCAN"] = 0
  /\ todo = {}
  /\ where' = [c \in Cell |-> IF c \in Unreached THEN "FREE" ELSE where[c]]
  /\ size' = IF Unreached = {} THEN size
             ELSE [size EXCEPT !["FREE"] = @ + size["AGED"], !["AGED"] = 0]
  /\ passes' = passes - 1
  /\ full' = FALSE
  /\ UNCHANGED <<mark, phase, fields, todo, program>>

Collector == cfg_force_gc \/ cfg_start_gc \/ gc_refresh_cell \/ gc_free_cells

Next == Mutator \/ Collector

(***************************************************************************)
(* A behaviour is a C function that returns.  The loop of a full           *)
(* collection is plain C; the scanning actor sends itself a message at     *)
(* every step and run_configuration delivers messages in order, so its     *)
(* next step comes although other behaviours run in between: strong        *)
(* fairness.  Nothing makes a program start a collection.                  *)
(***************************************************************************)
Fairness ==
  /\ WF_vars(EndBehaviour)
  /\ SF_vars(gc_refresh_cell)
  /\ SF_vars(gc_free_cells)

Spec == Init /\ [][Next]_vars
FairSpec == Spec /\ Fairness

-----------------------------------------------------------------------------
(***************************************************************************)
(* Properties.                                                             *)
(***************************************************************************)
FieldValue == Cell \cup {NIL}

TypeOK ==
  /\ where \in [Cell -> ListName \cup {"NONE"}]
  /\ mark \in [Cell -> Phase \cup {"Z"}]
  /\ size \in [ListName -> Int]
  /\ phase \in Phase
  /\ first \in [Cell -> FieldValue]
  /\ rest \in [Cell -> FieldValue]
  /\ todo \in SUBSET Cell
  /\ passes \in 0 .. MaxPasses
  /\ full \in BOOLEAN
  /\ running \in BOOLEAN
  /\ regs \in SUBSET Cell
  /\ pending \in SUBSET Cell
  /\ timers \in SUBSET Cell
  /\ globals \in SUBSET Cell

(* The cells that can be reached from S: the least closed set around S. *)
Closed(K) == \A c \in K : Children(c) \subseteq K
Reach(S) == {c \in Cell : \A K \in SUBSET Cell : S \subseteq K /\ Closed(K) => c \in K}

Held == regs \cup pending \cup timers \cup globals
Live == Reach(Held)
Allocated == On("AGED") \cup On("SCAN") \cup On("FRESH")

(* The allocator never takes back, or hands out again, a cell that the     *)
(* program can still reach from a C variable of the running behaviour, a   *)
(* queued or delayed message, its time included, or a protected root (gc.c: *)
(* gc_free_cells, gc_cons).                                                *)
LiveCellsKept == Live \subseteq Allocated

(* The length cached in every list head is the number of cells on the list *)
(* (gc.c: the last assertion of gc_sanity_check).                          *)
SizesExact == \A l \in ListName : size[l] = Cardinality(On(l))

(* A cell with the previous phase marker that the program can reach is on  *)
(* AGED, so gc_scan_cell takes it from the list whose size it decrements.  *)
PreviousMarkIsAged == \A c \in Live : mark[c] = prev => where[c] = "AGED"

(***************************************************************************)
(* Why the three invariants hold if collections do not overlap and cells   *)
(* are not overwritten during one.  Kept is what the running pass, left    *)
(* alone, would not free: FRESH, what is on SCAN or waits as a root, and   *)
(* what these reach through cells that are still to be scanned.            *)
(***************************************************************************)
Roots == On("FRESH") \cup On("SCAN") \cup todo

ScanClosed(K) == \A c \in K : where[c] # "FRESH" => Children(c) \subseteq K

Kept == {c \in Cell : \A K \in SUBSET Cell : Roots \subseteq K /\ ScanClosed(K) => c \in K}

MarksExact ==
  /\ \A c \in On("FRESH") \cup On("SCAN") : mark[c] = phase
  /\ \A c \in On("AGED") : mark[c] = prev

PassState ==
  /\ passes = 0 => On("AGED") = {} /\ On("SCAN") = {} /\ todo = {}
  /\ full => passes = 1 /\ ~running
  /\ ~running => regs = {}

KeptIsSafe ==
  /\ Closed(Kept)
  /\ Kept \subseteq Allocated
  /\ Held \subseteq Kept

(* The collector would free nothing the program can reach if it went on    *)
(* without it: the inductive invariant of the proofs, one conjunct per     *)
(* argument (gc.c: the invariants gc_sanity_check asserts, and the roots). *)
CollectorInv == TypeOK /\ SizesExact /\ MarksExact /\ PassState /\ KeptIsSafe

(* A full collection keeps what the roots reach and nothing else.          *)
FullCollectionExact ==
  [][gc_free_cells /\ full => On("FRESH") = Reach(cfg_gather_roots)]_vars

(* A collection that has started ends, whatever the program does in        *)
(* between: accesses can only delay it by the cells they move to SCAN.     *)
PassEnds == passes > 0 ~> passes = 0

(* A candidate c that neither the program nor a cell still to be scanned can *)
(* reach is free again when the pass is over.                              *)
ReclaimedFor(c) ==
  where[c] = "AGED" /\ c \notin Reach(Held \cup todo \cup On("SCAN"))
    ~> where[c] = "FREE"

(* The collector implements the abstract heap: the cells in use are those  *)
(* on AGED, SCAN and FRESH; scanning and ageing are invisible.             *)
H == INSTANCE Heap WITH used <- Allocated
ImplementsHeap == H!Spec

=============================================================================
