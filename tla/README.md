# A TLA+ verification of the ABE kernel

The repository is an actor runtime in C (ABE: cells, garbage collector, message
and timer queues) and an interpreter of a Kernel-like language whose evaluator
is written as actors. This directory holds TLA+ models of the runtime, the
model-checking runs, and proofs about them.

## 1. Inventory

| Component | Source | State | Operations |
|---|---|---|---|
| Collector lists | gc.c 14-192, gc.h | five circular doubly linked lists through `_prev`/`_next`, a cached size in each head | insert, extract, push, pop, put, pull, append, count, sanity check |
| Collector | gc.c 194-466 | phase marker, marker of each cell, the lists AGED, SCAN, FRESH, FREE, PERM | `gc_cons`, `gc_perm`, access with barrier, overwrite, full collection, the scanning actor |
| Actor configuration | actor.c, actor.h, types.h, CQ macros of cons.h | queue of messages, timer queue, counters, clock, entry being handled, pool of recycled cells, registered roots | send, send after, become, create, dispatch, clock tick, `run_configuration`, force and start collection |
| Cons maps | cons.c | none of its own: lists and association maps share cells | equal, append, reverse, replace, map find/get/put/put_all/def/remove/cut |
| Atom table | atom.c | trie of interned names | spell a name, name of an atom |
| Kernel evaluator | kernel.c 61-3982 | actors: objects, environments, combiners, customers | eval, apply, define, match, fork/join, encapsulation, map, concurrent, timed |
| Reader, REPL, tests | kernel.c 3985-5031 | input stream, ground environment | `read_sexpr`, `run_repl`, `run_test`, REPL behaviours |
| Text | emit.c, sbuf.c | position behind what was read (`nextptr`), depth of writing; a bounded buffer | read and write values, append to a buffer |
| Sample program | sample.c, abe.c | actors that greet and count down, `sample_done`, the message that the ticker re-uses | the actors, the main loop |
| Debugging | dbug.c | trace settings | tracing |
| `.knl` files | *.knl | | programs in the interpreted language |

How they interact. Every value is a cell of the collector. A behaviour is a C
function that `abe__dispatch` calls with the configuration; it allocates with
`gc_cons`, reads through the barrier (`car`, `cdr`), overwrites itself
(`BECOME`, two `gc_set_*`), and sends, which takes pool cells that are never
collected. Behaviours are not pre-empted: everything that is concurrent is so
between two deliveries. The collector needs from the configuration the roots
(registered cells, queued and delayed messages); in concurrent mode the
collector is itself an actor of the configuration. The evaluator's requests and
replies are messages between actors, in an order that the program does not
control.

What is hard: a collection spread over many deliveries while behaviours change
the heap; recycled queue cells with more than one possible owner; a timer queue
compared with a clock that can be set back; runs cut off by a budget or by the
queue limit; two replies that arrive in either order; a request that fails
without a reply; cells that several maps share and one of them cuts; a text
whose end decides what it means; a message that is used again while it may be
under way. PROJECT.json lists these hazards with their lines.

What makes each component correct:

- lists: links inverse, size exact, each operation the sequence operation it is
  named for, no effect on other lists;
- collector: nothing reachable is freed or handed out again, everything
  unreachable is freed in the end, markers and sizes agree with the lists, a
  collection ends, programs cannot observe it;
- configuration: every message delivered once, in order, never early, in the
  end; every pool cell has one use; the message under a behaviour is stable;
  counters exact;
- maps, atoms, text: each operation is the one on sequences, names or values
  that it is named for, also when cells are shared; a name has one atom; what is
  written is read again;
- sample program: one tick is under way at a time, lines are whole, the
  program ends when its counter says so (it does not, see 4);
- evaluator: every request is answered at most once, and once if nothing fails;
  a join pairs its two answers in their places; environments bind in order.

## 2. Modules

| Module | Models | Role |
|---|---|---|
| `Treadmill` | gc.c collector and its mutator | detailed specification |
| `Heap` | | what a program may rely on: cells, fields, roots, reclaiming of unreachable cells only |
| `MCTreadmill` | | symmetry, liveness over all cells |
| `TreadmillProofs` | | proofs |
| `GcLists` | gc.c lists, pointer by pointer | detailed specification |
| `Deques` | | the sequences they implement |
| `GcListsProofs` | | proofs |
| `ConsMaps` | cons.c lists and maps, cell by cell | detailed specification |
| `AssocLists` | | the maps they implement |
| `AtomTable` | atom.c | detailed specification |
| `Notation` | emit.c: `str_to_cons`, `emit_cons` | operators, a caller that types |
| `Sbuf` | sbuf.c | detailed specification |
| `TextProofs` | | proofs about `AtomTable`, `Sbuf` and `Sample` |
| `Sample` | sample.c, the loop of abe.c | detailed specification |
| `MCLibrary` | `GcLists` to `Sample`, one at a time | inputs of the run `library` |
| `ActorConfig` | actor.c runtime | detailed specification |
| `MessagePump` | | messages delivered in order, timers never early |
| `ActorConfigProofs` | | proofs |
| `Inductions` | | induction over numbers and what comes of following a link again and again, for both proofs about links |
| `Actors` | the actor primitives as kernel.c uses them | base of the interpreter's modules |
| `ForkJoin` | kernel.c 355-531: tags, forks and joins | behaviours |
| `ForkClients` | | forks with clients and slow services around them, refines `Pairing` |
| `Pairing` | | what a fork promises |
| `ForkClientsProofs` | | proofs |
| `Objects` | constants, symbols, booleans, pairs and their customers | behaviours |
| `Environments` | environments, parameter trees | behaviours |
| `Combiners` | operatives, applicatives, closures, predicates | behaviours |
| `KernelMap` | `map` | behaviours |
| `Encapsulation` | encapsulation types, arithmetic, time | behaviours |
| `Evaluator` | all of these together, `newline_beh`, `report_beh` | next-state relation |
| `Customers` | | who waits for what in the interpreter, and who may answer: the invariant of the proofs |
| `EvaluatorProofs`, `BehaviourProofs` | | proofs |
| `Reader` | `read_sexpr` on tokens, interning | operators |
| `Kernel` | `init_kernel`, the read-eval-print loop, `run_repl` | detailed specification |
| `Meaning` | | a recursive reference evaluator |
| `Programs` | programs of given shapes; expressions of `test_kernel` | inputs |
| `MCKernel` | | inputs and properties of the runs |

Each of `Actors`, `ForkJoin`, `Objects`, `Environments`, `Combiners`,
`KernelMap`, `Encapsulation`, `Evaluator` and `Kernel` extends the one before
it; `Kernel` extends `Reader` too.

### Treadmill

`where` gives the list a cell is on (the set of its cells; order and links are
the matter of `GcLists`), `size` the lengths the heads cache, which the code
tests in their place. A field that is no collectable cell is `NIL`. `regs` are
the C variables of the code that runs now: the target and contents of the
message, what it read or allocated. `todo` stands for the chain of root cells
that `cfg_gather_roots` builds: the chain is made of cells itself, of which
only one link is on SCAN at a time, so the model keeps the roots that are not
scanned yet and a step scans one of them (`ScanRoot`). When passes overlap, the
chain of the older one loses what is behind its link, which `StartPass` models
by keeping at most one of its roots.

`gc_full_collection` is `cfg_force_gc` followed by `gc_refresh_cell` steps and
`gc_free_cells`, with `full` true so that nothing runs in between.
`gc_actor_collection` is `cfg_start_gc` and the same steps, one per message of
the scanning actor. Collections start between behaviours (the only call in the
repository, kernel.c:4961, is made between runs).

A delayed message has a time tuple, which `tv_increment` makes of collectable
cells (`timers`); `t_queue_insert` and `abe__clock_tick` read the tuples. The
constants `Overwrite`, `Delayed` and `MaxPasses` say what a program may do that
the collector does not bear: overwrite cells while a concurrent collection runs,
start a collection while messages are delayed, start one while another is under
way. Without any of them a program is `Disciplined`; one run each shows what
goes wrong if one of them is allowed.

### GcLists

`next`, `prev` and `size` are GC_NEXT, GC_PREV and GC_SIZE. An insertion,
extraction or appending is a sequence of assignments, in the order of the code:
each one reads the links as the assignments before it have left them (`next1`,
`prev1`, ...). `TakeFrom` is the extraction from the middle that `gc_scan_cell`
does.

### ActorConfig

`pool` holds the cells of `cq_cons`/`cq_free` with their car and cdr and the
free list, `queue` the two fields of the CONFIG cell, `t_queue` the first timer
node. `pc` is where `run_configuration` is: in its loop, in the clock tick, in
the dispatch, in a behaviour, or not running. A behaviour is any number of
`Send` and `SendAfter` steps ended by `BehaviourReturns`; C code between runs
may send too. `ReadClock` takes any time, earlier ones included.
`TICK_FREQ`, `CLOCK_STEP_SIZE`, `INT_MAX` and `q_limit` are constants to make
the boundaries reachable.

### ConsMaps, AtomTable, Notation, Sbuf

The functions of `ConsMaps` take a store of cells and return a store and a
value, as the C functions do with the heap. A client keeps maps in variables and
makes new ones of them, so that maps share cells in every way that the
operations allow, are shadowed, empty, or the same map twice; what it does not
reach any more is dropped (`Store`), which `Treadmill` justifies. `AssocLists`
states maps as sequences of bindings. That `map_put_all` adds the bindings of a
map from its front, so that of two bindings of one key in it the older one
counts afterwards, is stated there as the code has it (`WithAll`).

`AtomTable` is the trie, `lu_extend_atom` on one character at a time; `spelled`
is a history variable. `Notation` has one character for each kind that the code
tells apart; of white space that is the blank, which a quoted token may have,
and the tab, which ends it with an error. The state machine of `str_to_cons` appears as what its states
recognise: a token is a longest run of characters, a number if it has the form
of one. `nextptr` is part of what a reader returns: every call that returns a
value has set it last. `sbuf_emits` has a length besides its text: it refuses a
length that would just fit, and writes as much of the text as the length allows
(`Prefix`).

### Sample

The main loop is `ClockTick`, `Dispatch` of all messages, `Sleep`. The times in
messages matter in one way: `time_ticker` asks whether a second is another one.
`tick` is the contents of the one message that the ticker uses again and again.
The guards of `time_ticker` and `each_second` ask whether an actor is a cons;
`TypeOf` gives an actor the tag that the code gives it, and they find none
(`FoundCons`, see 4). `each_second` and `StopTicker` are therefore never
delivered anything: they are modelled as the code has them, and no run enters
them.

### The interpreter

`ActorConfig` shows that messages are delivered once and in order and `Treadmill`
that actors in use are kept, so the interpreter is modelled on top of that:
`actors` is the sequence of all actors ever created (behaviour `beh`, state
`mine`), `queue` the messages waiting. One action is one behaviour run to its
end. ABE data is abstracted to records: `pr(cust, pr(ATOM("eval"), env))` is
`Eval(cust, env)`. `Throw` is ENSURE and THROW, a message to a new actor that
prints `FAIL!`; whoever waited for an answer is told nothing. `Deliverable` is
the assertion on the target in `abe__send`.

The value of the map of an environment is a function. What matters of the C
list is kept: a name that is bound already is overwritten in place, at once, and
a new one is in a longer list that the environment gets only if the match
succeeds (`BindAll`, with `kept` for the map after a failure). Pairs that C code
looks at without messages (`cons_value`) are the operators `Hd`, `Tl`,
`elements`, `eq`.

`Kernel` reads a source, makes its expressions of new actors, sends each `eval`
and delivers messages until none is left or the limit `M_limit` is reached; what
is left is delivered with the next expression, as `run_repl` does (no evaluator
behaviour sends delayed messages, so it never waits for timers). The limit is
whatever the option `-M` says: with 0 nothing is ever delivered, and a negative
one `run_repl` takes for a queue overrun and aborts. A list of nothing but a
dot and something after it is that something to `read_sexpr`, even if it is a
closing parenthesis, which then closes the list around (`Dotted`). A source is
the arguments' files or, `interactive`, the terminal. `sink_fails` says whether
writing to the output may fail.

Left out: requests that only other settings of the optimization switches send,
the width of C integers, the representation of times (`Times` gives what NOW
may be), the contents of failure messages, characters within tokens, the prompt.
`abort_beh`, which ends the process, has no action: `AnsweredOnce` says that no
message is sent to it. In `Reader`, `With` evaluates its argument once, where a
LET would evaluate it at every use.

`Meaning` is not translated from the code. It is the meaning of the language in
direct style: values are terms, only mutable pairs and environments have a
place in a store, operands are evaluated left to right, nothing is concurrent,
failure is a result. `Programs` has the inputs; what they should print is either
computed by `Meaning` or, for what `Meaning` leaves out, written down as the test
of kernel.c has it.

## 3. Runs

| Run | Shows | Instance |
|---|---|---|
| `gc_concurrent` | full and concurrent collections of disciplined programs: nothing reachable is freed, sizes exact, full collections exact | 3 cells allocated one by one, 1 pending |
| `gc_progress` | with delayed messages too: collections are invisible (refines `Heap`), end, and free garbage | 2 cells allocated one by one, 1 pending, 1 delayed, 1 global |
| `gc_overwrite` | violation: overwriting during a concurrent collection frees a reachable cell | 3 cells in one block |
| `gc_overlap` | violation: overlapping collections break the rule on previous markers | 3 cells in one block |
| `gc_delayed` | violation: a collection frees the time of a delayed message | 2 cells |
| `cfg_safety` | pool, queues, counters, refinement of `MessagePump`; runs return, all messages are handled | 1 actor, 2 contents, 3 messages, 11 pool cells, clock up to 1 second and a tick |
| `cfg_timers` | violation: a due message waits behind one that is not | as `cfg_safety` |
| `fork_join` | no two messages about one tag, joins match answers, forks implement `Pairing` | 3 clients, services that answer after up to 2 messages to themselves |
| `kernel_programs` | what programs print is what they mean; nothing is lost or answered twice, not even when evaluation is cut off; immutable objects stay; `write` tells whether everything was written; the loop ends | about 1350 programs with ample messages, 175 of them again with 15 messages per expression, limits of -1, 0 and 1, 7 writes that may fail |
| `kernel_apply` | violation: a message to no actor | `(apply 0 ())` |
| `library` | links, sizes and refinement of `Deques`; maps, atoms, text, buffers; the messages of the sample program | 3 lists, 4 cells; 2 variables, 6 cells in use, 2 keys and values; 6 nodes; texts of 5 characters of 13 kinds, a token buffer of 4; a buffer of 4, lengths 0 to 4; a counter of 2 |
| `sample_ends` | violation: the sample program does not end | a counter of 5, the default |

Bounds. Three cells are enough for the interesting shapes: a holder, a held
cell, and one that is allocated meanwhile; cycles of length one to three; a
block size of 1 makes every allocation reach malloc, a larger one leaves cells
on FREE. Three messages give a queue with a first, a middle and a last one, a
timer queue with an insertion at each of its places, and a queue limit of 1
that is exceeded. `TICK_FREQ = 2` with delays 1 and 3 gives times with and
without a carry, among them the unnormalised one of exactly `TICK_FREQ` ticks;
`INT_MAX = 1` makes the low half of the message counter overflow into the high
one within three messages. `PoolCell` holds as many
cells as the bounded messages can need (the assumption says so), so that no
behaviour is cut off for the lack of one.

Six cells make a map of three bindings, two maps that share their end, or a
copy beside the original; the trie of six nodes has names that extend, share
and differ in their first character. Texts of five characters reach every state
of the reader and every way it fails; `RoundTrip` makes lists of what was typed,
so that the limits of writing (two elements, two levels, two characters in
place of 9, 6 and 250) are passed. The reader's buffer of 4 takes a token of
three characters, a quoted one of two (the code counts the first quote), and
neither of one more; five characters are enough to type all of these. The components of `MCLibrary` have no state
in common and run one at a time.

The interpreter has one queue, first in, first out, and so one behaviour for
each program, but for time and failing writes. What matters is therefore the
programs, and `Programs` takes all of a family: each of 7 operations on a
mutable pair with two of 8 operands; 12 parameter trees (empty, dotted, nested,
with repeated names, not trees at all) with 4 lists, in definitions, `$lambda`
and `$vau`; `map` of 4 combiners over two of 5 lists, of different lengths and
improper; each of 11 kinds of object used in each of 32 ways; and single programs
about scope, aliasing, closures whose code is changed afterwards, loading one
file before another. Operands of a combination fail independently of each
other, so several `FAIL!` in a row count as one. The limit is an option
of the program (`-M`), so it is part of an input. A limit of 15 messages cuts off
most of these programs in different places; the six numerals that follow give
what is left the messages that it needs to finish. The limit of 1000 waiting
messages is the one of the program; none of the inputs reaches it.
`OutputAsMeant` is about the inputs with ample messages and a sound output,
`WriteIsTrue` about those with a failing one, the others about all. A failed
ENSURE leaves customers waiting for ever, which `NothingLost` therefore excuses;
that the failure is then what is printed, and that the expressions after it are
evaluated all the same, is in `OutputAsMeant` and `Ends`. `Ends` excuses a
negative limit.

Deadlock is checked in every run but `library` and `sample_ends`, where bounded
components stop and the program may end.

Fairness. `Treadmill`: a behaviour returns (weak), and the scanning actor's next
message is delivered although behaviours run in between (strong, because the
step is disabled while one runs; the queue is first in, first out). Nothing
makes a program start a collection. `ActorConfig`: the C code of a run goes on
(weak), the main program calls `run_configuration` again (weak), and a clock
check finds the late time again and again (strong): time passes. `ForkClients` and
`Kernel`: the process goes on (weak fairness of the next-state relation): both
are one loop that is never blocked. `Sample`: the main loop runs (weak), and
readings of the clock in the ticker, a third of a second apart, see another
second again and again (strong).

## 4. Divergences found

1. `gc_overwrite`: ABE.md:565 promises a collection concurrent with message
   delivery; an actor that does `BECOME` with its old state inside a new cell,
   while a pass runs, loses that state. The barrier greys the cell that is
   accessed, not the value stored, and new cells are born scanned. Nothing in
   the repository calls `cfg_start_gc`; `cfg_force_gc` is not affected.
2. `gc_overlap`: ABE.md:501 does not hold if a collection starts while another
   is under way; the code does not forbid it.
3. `cfg_timers`: due messages stay in the timer queue behind later ones, against
   the comment at actor.c:470-471.
4. `kernel_apply`: `apply_args_beh` (kernel.c:2280) sends to the result of
   `appl_unwrap` without testing it, as `unwrap_args_beh` does; applying
   something that is not an applicative ends the interpreter at the assertion
   in actor.c:361 in place of reporting an error.

5. `gc_delayed`: `cfg_gather_roots` protects target and contents of delayed
   messages, under the comment "protect delayed messages" (actor.c:275), but not
   their time tuples, which a collection frees; `cfg_force_gc` is affected too.
6. `sample_ends`: the guards of sample.c:74 and sample.c:110 ask whether an actor
   is a cons, but actors have a tag of their own. The ticker never tells
   `each_second`, nobody stops the ticker, and the countdown of abe.c:103 never
   starts: `abe -s` prints its greetings and runs for ever.

## 5. Proofs

TLAPS checks, for every value of the constants that satisfies the named
assumption of the module:

- `TreadmillProofs!TypeCorrect`: types, without further assumption.
- `TreadmillProofs!CollectorInvariant`, for a program that is `Disciplined`:
  `MaxPasses = 1`, neither `Overwrite` nor `Delayed`. The inductive
  invariant is `CollectorInv`. `LiveCellsKept` is not inductive: between two
  steps of a scan most reachable cells are on AGED, whence `gc_free_cells` would
  take them. The strengthening is `Kept`, the least set that contains FRESH,
  SCAN and the waiting roots and is closed under the fields of cells that are
  not FRESH: what the running pass, left alone, would keep. The argument is that
  every step keeps `Kept` closed under all fields and keeps in it what the
  program holds. Scanning does not shrink it, since a scanned cell's children
  enter SCAN; allocation adds a cell whose children are in it; the barrier only
  adds to SCAN; when the scan is over, `Kept` is FRESH, so AGED holds nothing
  that is reachable. Overwriting a FRESH cell breaks the first part, which is why
  the proof asks for it to happen outside concurrent passes only, and the run
  `gc_overwrite` shows that it cannot be otherwise. `MarksExact` relates markers
  to lists, `PassState` what is empty between passes.
- From it: `LiveCellsAreKept`, `SizesAreExact`, `PreviousMarksAreAged`,
  `FullCollectionsAreExact` and `HeapIsImplemented` (the refinement: every step
  of the collector is a step of `Heap` or changes nothing of it).
- `GcListsProofs!LinksStayInverse`: the two directions of the lists are inverse
  under every operation; inductive with the type invariant.
- `GcListsProofs!ListsInvariant`: `ListsInv` adds to this that the links lead from
  every head round the cells of a sequence (`Ring`) and that no cell is on two
  lists or twice on one (`Apart`). `gc_sanity_check` is not inductive: pulling the
  last cell is an extraction on the right list only because the rings do not meet.
  `ThreadInsert`, `ThreadRemove` and `ThreadAppend` say what a change of two or
  three links does to all rings, `InsertedFirst` to `RemovedAt` that it is the
  operation on sequences. The assignments of an operation read what those before
  them wrote; `InsertBeforeWrites`, `ExtractWrites` and their likes prove what
  links they leave in the end. From it `SizesAreTrue`, `ListOperationsAreNamed` and
  `DequesAreImplemented`, for any set of heads and any finite set of cells
  (`ListItemAssumption`: a head is no cell).
- `TextProofs!TrieInvariant`, for any set of characters: every node but the
  root is on the suffix list of a node whose name is its own without the last
  character (`Listed`, `Longer`), so a search that follows a name finds its node
  if there is one. From it `AtomsAreUnique`, `SpellingFindsAtom` and
  `AtomsAreForEver`. Uniqueness alone is not inductive: a node that is on no
  list would be made a second time.
- `TextProofs!StringsAreNames`: what `atom_str` returns is the name of an atom
  even if its buffer is too short. `Shorter` is inductive with the above: of every
  text in the table each end is the text of a node too, since a node is made below
  the one that it extends.
- `ForkClientsProofs!JoinInvariant`, for any number of clients and any delays:
  that a client gets its own pair is not inductive, since a join sends whatever
  it is brought, and goes on waiting after it has sent. `JoinInv` says what each
  message on its way is about: a request, the value for a tag and the tagged
  answer are about that tag, anything else about its target. No two messages are
  about the same (`OneEach`), each brings what the join behind its tag awaits, or
  nothing it awaits (`MessagesExpected`), and while the fork or something the join
  still awaits is under way, its client has no answer (`AnswersOutstanding`). A
  handler replaces the message it takes by at most one about the same; a fork
  replaces its request by two about tags that did not exist; a join that has the
  second answer replaces it by the one for its client.
  From it `JoinsMatch` and `ForksServeOnce`: every step serves one client or none,
  the safety half of `Pairing`. The run `fork_join` checks `JoinInv` and the whole
  of `Pairing`, with liveness.
- `ActorConfigProofs!RuntimeInvariant`, from `ConstantsAssumption` only (the pool
  can grow to what the bounded messages need; ticks, limits and delays are
  numbers). `QueuesExact` and `PoolExact` are not inductive: both are about what
  walks find, and a walk in the next state is what it was only if no link of it
  was written. `RuntimeInv` says how the cells lie: the queue, the timer queue
  and the free list are sequences of cells linked to NIL (`Linked`); a cell in use
  is part of exactly one message - node and entry in the queue, node, time and
  entry of a delayed one, the entry in hand (`Uses`); the free list has the rest
  of what was taken from `gc_perm` (`PoolOf`); and cells are left for every
  message that may still be sent (`Room`, three for each). An operation is a few
  calls of `cq_cons`, `cq_free` and writes of one link, each with its lemma
  (`ConsPool`, `FreePool`, `LinkPool`); `InsertLinks` and its likes say what they
  do to a list. Walks are brought in last: `ChainOfLinked` shows that following
  the links finds the sequence.
  From it `QueuesAreExact`, `PoolIsExact`, `EventsAreStable` (no step writes the
  entry under a behaviour) and `PumpIsImplemented`: sending appends to the queue
  of `MessagePump`, the clock tick moves a message there only when it is due,
  dispatch takes the first.
- `ActorConfigProofs!MessageCountIsExact`: the two halves of the message counter
  are exact for every `INT_MAX`.
- `TextProofs!BufferInvariant` and `BuffersHoldAccepted`, for any size, any texts
  of C strings and any lengths (`SbufAssumption`). `HoldsAccepted` is not inductive: that there is a
  NUL somewhere does not say that the next character is written over the first one.
  `SbufInv` says that it is at `offset`, and that `offset` is never beyond `limit`.
  What `sbuf_emits` writes is no longer than the length it is given (`PrefixIs`).
- `TextProofs!SampleInvariant`, for any counter, delay and clock. `LinesWhole` and
  `ContentsKept` depend on which messages can be queued together, of which neither
  says anything. `SampleInv` says it: at the start the queue is a part, from the next
  message to the last one sent, of one fixed sequence (`Script`), which tells what the
  line in hand is; no reading of the clock changes that, since none is taken until
  the queue is empty. Afterwards there is the tick and nothing else, queued or delayed
  (`Ticking`). A step moves the window on (`NextWindow`, `StartStep`) or takes the
  tick from one place to the other. From it `LinesAreWhole`, `ContentsAreKept` and
  `NeverDone`: the counterexample of the run `sample_ends` is one for every counter,
  since the guards find nobody to count (`NoneFound`).
- `EvaluatorProofs!ObjectsStay`: every behaviour of the interpreter leaves immutable
  objects as they are, and a pair or environment remains one (`ImmutableStay`).
  `EvaluatorSpec` is open: it starts as `init_kernel` leaves the program, and between
  deliveries any code may read an expression, or as much of one as there is, have it
  evaluated in any environment, with or without a report (`Reads`), and make a new
  environment on top of another one (`Opens`). `Kernel` is such a program, for any
  sources and any limit; the run `kernel_programs` checks that it is (`EvaluatorSpec`
  is one of its properties), a proof would reach the recursive reader. `Legible` says
  what the text of an expression may stand for: new numbers, symbols and immutable
  pairs, old symbols and the constants. The argument goes over all behaviours, one
  step for each: new actors come behind the others (`NewOnes`), and where an actor is
  changed (`OneChanged`) it is no object, as those of forks, joins, `map` and the
  report (`Becomes`), or a mutable pair asked to change (`PairKeeps`), or an
  environment that a definition extends. `pair_type` shares the code of `cons_type`,
  whose last case it must not reach with `set_car` or `set_cdr`.
- `BehaviourProofs!AlwaysOrderly`, for every program: some set `open` of customers and
  some function `row` make the state `Orderly` (module `Customers`). From it
  `AllAnsweredOnce`, `NothingIsLost` and `AllCopiesAreDeep`. None of the three is
  inductive: whether a customer is answered twice depends on who else was told of it,
  whether a report is lost on every customer between it and what is evaluated, and
  whether a copy is deep on what the fork behind it was sent. `Orderly` has these parts.
  `Shape` and `StatesOK` say how actors behave and what their states refer to, and
  `MessageOK` what each message must be for the behaviour that it is sent to: a request
  for an object names a customer of the right kind, a join is sent what is tagged with
  one of its own tags, a customer behind a copy is sent what is fixed (`IsFixed`).
  `Unshared` is the core: the right to answer a customer is held by one message
  (`Held`), which answers the customer, is a request for it, or carries its tag, or
  kept by one other customer, which will answer it (`Keeps`), never by two. All actors
  of one `(map ...)` share the right of one of them, which `row` names, and `Rows` says
  which of them wait for what while a message holds it. `Unanswered` says that a right
  that is held or kept has not been used, `Remembered` that no right in `open` is
  dropped unless something fails, `Joined` that a join in `open` waits for just the tags
  in `open`, `Told` that reports still to be made are in `open`.
  `EvaluatorProofs!Step` says what a step must do with the rights it has so that
  all this holds afterwards, with one lemma for each part (`UnsharedStep`,
  `UnansweredStep`, ...), and most behaviours are instances of a few forms of steps: an
  answer (`Replies`), a request sent on (`Sends`), an object made (`Makes`), a customer
  put before another one (`AsksFor`, `AskingTwo`), a failure (`Throws`). Then there is a
  lemma for each behaviour, and one for `Reads` and `Opens`, which are steps of the sink
  in disguise (`OutsideStep`). `InitIsOrderly` needs all 43 primitives of `init_kernel`.
  What `elements` and `leaves` collect from operands and parameter trees are values
  (`TupleIs`, `LeavesAre`, by induction over the steps of the walk).
  Nothing is lost: if no message is left and nothing failed, every customer in `open` is
  kept by a younger one in `open`, or is a join that awaits a younger tag in `open` (an
  actor of `(map ...)` keeps none while it is kept itself), so `open` would have no last
  member.

Induction over numbers is used as a fact about sets: a set of numbers with 0 and
with the successor of each of its numbers has them all (`Inductions!NatSetInduction`,
proved by counting, from the theorems on finite sets). It is enough for recursive
functions on numbers such as walks along links (`OrbitDef`, `ChainOfLinked`).

Only model-checked: all liveness, the fair half of `Pairing` and the ends of
collections, runs and the sample program included; `DueMessagesSent` and the other
violations; what `ConsMaps` and `Notation` compute, whose operators recur over cells
and texts, which would be induction over data; and what programs of the interpreter
print: `OutputAsMeant` and `WriteIsTrue` compare it with a recursive evaluator, and
`Reader`, which `Kernel` extends, is recursive too. That every program ends or waits
(`Ends`) is liveness.

## 6. Not modelled

- `dbug.c` (trace macros without effect on the program), the reporting functions
  of all files, the C test drivers, the command line;
- the `.knl` programs, which are inputs of the interpreter;
- `cons_to_str` of emit.c, which prints values for debugging and cuts them off
  anywhere, and the indentation of `emit_cons`;
- of kernel.c what section 2 names as left out;
- the width of C integers but for the message counter.

`gc_perm` appears as `cq_cons` taking a cell that was never in the pool.

What would extend this: `Reader` as recursive functions on numbers, so that `Kernel`
could be proved to be a program of `EvaluatorSpec`, and a statement that evaluation
without failures agrees with `Meaning` which does not recur over terms.
