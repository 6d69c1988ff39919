--------------------------- MODULE TreadmillProofs ---------------------------
(***************************************************************************)
(* Proofs about the collector of module Treadmill: it keeps its state well *)
(* typed, its cached list lengths exact, and every cell the program can    *)
(* reach, for any number of cells and roots.                               *)
(***************************************************************************)
EXTENDS Treadmill, FiniteSetTheorems, TLAPS

-----------------------------------------------------------------------------
(* Sets of cells are finite, and their cardinalities are numbers.          *)
LEMMA CellSets ==
  ASSUME NEW S \in SUBSET Cell
  PROVE  IsFiniteSet(S) /\ Cardinality(S) \in Nat
  BY ConstantsAssumption, FS_Subset, FS_CardinalityType DEF ConstantsAssumption

(* What the definitions of the state say about the operators on it.        *)
LEMMA ScannedSizeType ==
  ASSUME TypeOK, NEW n \in Int
  PROVE  ScannedSize(n) \in [ListName -> Int]
  BY DEF ScannedSize, TypeOK, ListName

LEMMA ScanType ==
  ASSUME TypeOK, NEW S \in SUBSET Cell, gc_scan_cell(S)
  PROVE  /\ where' \in [Cell -> ListName \cup {"NONE"}]
         /\ mark' \in [Cell -> Phase \cup {"Z"}]
         /\ size' \in [ListName -> Int]
         /\ phase' = phase
<1> Unseen(S) \in SUBSET Cell
  BY DEF Unseen
<1>1. size' \in [ListName -> Int]
  BY CellSets, ScannedSizeType DEF gc_scan_cell
<1> QED
  BY <1>1 DEF gc_scan_cell, TypeOK, ListName

LEMMA AccessType ==
  ASSUME TypeOK, NEW c \in Cell, gc_check_access(c)
  PROVE  /\ where' \in [Cell -> ListName \cup {"NONE"}]
         /\ mark' \in [Cell -> Phase \cup {"Z"}]
         /\ size' \in [ListName -> Int]
         /\ phase' = phase
<1> {d \in {c} : mark[d] = prev} \in SUBSET Cell
  OBVIOUS
<1> QED
  BY ScanType DEF gc_check_access

LEMMA PassType ==
  ASSUME TypeOK, StartPass
  PROVE  /\ heap' = <<where', mark, size', prev>>
         /\ where' \in [Cell -> ListName \cup {"NONE"}]
         /\ size' \in [ListName -> Int]
         /\ prev \in Phase
         /\ todo' \in SUBSET Cell
         /\ passes' \in 0 .. MaxPasses
<1>1. /\ heap' = <<where', mark, size', prev>>
      /\ where' \in [Cell -> ListName \cup {"NONE"}]
      /\ size' \in [ListName -> Int]
  BY DEF StartPass, gc_age_cells, heap, TypeOK, ListName
<1>2. prev \in Phase
  BY DEF prev, Flip, Phase
<1>3. todo' \in SUBSET Cell
  BY DEF StartPass, cfg_gather_roots, TypeOK
<1>4. passes' \in 0 .. MaxPasses
  BY ConstantsAssumption DEF StartPass, TypeOK, ConstantsAssumption
<1> QED
  BY <1>1, <1>2, <1>3, <1>4

(* Every step keeps the state well typed.                                  *)
LEMMA TypeStep ==
  ASSUME TypeOK, [Next]_vars
  PROVE  TypeOK'
<1> USE DEF TypeOK
<1>1. ASSUME NEW a \in regs \cup {NIL}, NEW d \in regs \cup {NIL}, gc_cons(a, d)
      PROVE  TypeOK'
  <2>1. PICK B \in NewBlocks :
          \E p \in On("FREE") \cup B :
             gc_allocate(B, p) /\ first' = [first EXCEPT ![p] = a]
               /\ rest' = [rest EXCEPT ![p] = d] /\ regs' = regs \cup {p}
    BY <1>1 DEF gc_cons
  <2>2. B \in SUBSET Cell
    BY DEF NewBlocks, On
  <2> PICK p \in On("FREE") \cup B :
             gc_allocate(B, p) /\ first' = [first EXCEPT ![p] = a]
               /\ rest' = [rest EXCEPT ![p] = d] /\ regs' = regs \cup {p}
    BY <2>1
  <2>3. p \in Cell
    BY <2>2 DEF On
  <2>4. Cardinality(B) \in Int
    BY <2>2, CellSets
  <2>5. size' \in [ListName -> Int]
    BY <2>4 DEF ListName, gc_allocate
  <2>6. where' \in [Cell -> ListName \cup {"NONE"}] /\ mark' \in [Cell -> Phase \cup {"Z"}]
    BY DEF AllocationMark, ListName, gc_allocate
  <2>7. first' \in [Cell -> FieldValue] /\ rest' \in [Cell -> FieldValue]
    BY <2>3 DEF FieldValue
  <2> QED
    BY <1>1, <2>3, <2>5, <2>6, <2>7 DEF gc_cons, pass, gc_allocate
<1>2. ASSUME NEW c \in regs, gc_first(c) \/ gc_rest(c)
      PROVE  TypeOK'
  BY <1>2, AccessType DEF gc_first, gc_rest, fields, pass, FieldValue
<1>3. ASSUME NEW c \in regs, NEW v \in regs \cup {NIL},
             gc_set_first(c, v) \/ gc_set_rest(c, v)
      PROVE  TypeOK'
  BY <1>3, AccessType DEF gc_set_first, gc_set_rest, pass, program, FieldValue
<1>4. ASSUME NEW v \in regs, abe__send(v) \/ cfg_add_gc_root(v)
      PROVE  TypeOK'
  BY <1>4 DEF abe__send, cfg_add_gc_root, heap, fields, pass
<1>5. ASSUME NEW S \in SUBSET pending, abe__dispatch(S)
      PROVE  TypeOK'
  BY <1>5 DEF abe__dispatch, heap, fields, pass
<1>6. CASE EndBehaviour
  BY <1>6 DEF EndBehaviour, heap, fields, pass
<1>12. ASSUME NEW t \in regs, NEW v \in regs, abe__send_after(t, v)
       PROVE  TypeOK'
  BY <1>12 DEF abe__send_after, heap, fields, pass
<1>13. CASE t_queue_insert
  BY <1>13, AccessType DEF t_queue_insert, fields, pass, program
<1>14. CASE abe__clock_tick
  BY <1>14, AccessType DEF abe__clock_tick, fields, pass
<1>7. CASE cfg_force_gc
  BY <1>7, PassType DEF cfg_force_gc, StartPass, heap, fields, program
<1>8. CASE cfg_start_gc
  BY <1>8, PassType DEF cfg_start_gc, StartPass, heap, fields, program
<1>9. CASE gc_refresh_cell
  <2>1. CASE ScanRoot
    <3>1. PICK r \in todo : todo' = todo \ {r} /\ gc_scan_cell({r})
      BY <2>1 DEF ScanRoot
    <3>2. {r} \in SUBSET Cell
      OBVIOUS
    <3> QED
      BY <1>9, <3>1, <3>2, ScanType DEF gc_refresh_cell, fields, program
  <2>2. CASE ScanCell
    <3>1. PICK p \in On("SCAN") : ScanFields(p)
      BY <2>2 DEF ScanCell
    <3> DEFINE U == Unseen(Children(p))
    <3>2. U \in SUBSET Cell
      BY DEF Unseen, Children, On, FieldValue
    <3>3. ScannedSize(Cardinality(U)) \in [ListName -> Int]
      BY <3>2, CellSets, ScannedSizeType
    <3>4. size' \in [ListName -> Int]
      BY <3>1, <3>3 DEF ScanFields, ListName
    <3> QED
      BY <1>9, <3>1, <3>4 DEF ScanFields, gc_refresh_cell, fields, program, ListName
  <2> QED
    BY <1>9, <2>1, <2>2 DEF gc_refresh_cell
<1>10. CASE gc_free_cells
  <2>1. passes' \in 0 .. MaxPasses
    BY <1>10, ConstantsAssumption DEF gc_free_cells, ConstantsAssumption
  <2>2. size' \in [ListName -> Int]
    BY <1>10 DEF gc_free_cells, ListName
  <2> QED
    BY <1>10, <2>1, <2>2 DEF gc_free_cells, fields, program, ListName
<1>11. CASE UNCHANGED vars
  BY <1>11 DEF vars, heap, fields, pass, program
<1> QED
  BY <1>1, <1>2, <1>3, <1>4, <1>5, <1>6, <1>7, <1>8, <1>9, <1>10, <1>11,
     <1>12, <1>13, <1>14
     DEF Next, Mutator, Collector

LEMMA TypeCorrectInit == Init => TypeOK
<1> SUFFICES ASSUME Init PROVE TypeOK
  OBVIOUS
<1>1. 0 \in 0 .. MaxPasses
  BY ConstantsAssumption DEF ConstantsAssumption
<1>2. where \in [Cell -> ListName \cup {"NONE"}] /\ mark \in [Cell -> Phase \cup {"Z"}]
  BY DEF Init
<1>3. size \in [ListName -> Int] /\ phase \in Phase
  BY DEF Init, Phase
<1>4. first \in [Cell -> FieldValue] /\ rest \in [Cell -> FieldValue]
  BY DEF Init, FieldValue
<1> QED
  BY <1>1, <1>2, <1>3, <1>4 DEF Init, TypeOK

(* The state of the collector and of the program is always well typed:     *)
(* list heads hold integers, fields hold cells or NIL, and the markers are *)
(* the two phases or the marker of a free cell.                            *)
THEOREM TypeCorrect == Spec => []TypeOK
<1>1. Init => TypeOK
  BY TypeCorrectInit
<1>2. TypeOK /\ [Next]_vars => TypeOK'
  BY TypeStep
<1> QED
  BY <1>1, <1>2, PTL DEF Spec

-----------------------------------------------------------------------------
(* Facts about Kept: it contains Roots and is closed, and it is the least  *)
(* such set.                                                               *)
KeptIsClosed == Roots \subseteq Kept /\ ScanClosed(Kept) /\ Kept \subseteq Cell

KeptIsLeast ==
  \A K \in SUBSET Cell : Roots \subseteq K /\ ScanClosed(K) => Kept \subseteq K

LEMMA KeptClosed == TypeOK => KeptIsClosed
<1> SUFFICES ASSUME TypeOK PROVE KeptIsClosed
  OBVIOUS
<1>1. Roots \in SUBSET Cell /\ \A c \in Cell : Children(c) \in SUBSET Cell
  BY DEF Roots, On, TypeOK, Children, FieldValue
<1>2. Roots \subseteq Kept
  BY <1>1 DEF Kept
<1>3. ScanClosed(Kept)
  <2> SUFFICES ASSUME NEW c \in Kept, where[c] # "FRESH", NEW d \in Children(c),
                      NEW K \in SUBSET Cell, Roots \subseteq K, ScanClosed(K)
               PROVE  d \in K
    BY <1>1 DEF ScanClosed, Kept
  <2>1. c \in K
    BY DEF Kept
  <2> QED
    BY <2>1 DEF ScanClosed
<1> QED
  BY <1>2, <1>3 DEF KeptIsClosed, Kept

LEMMA KeptLeast == KeptIsLeast
  BY DEF KeptIsLeast, Kept

(* Between two passes everything kept is FRESH.                            *)
KeptWhenIdle == On("SCAN") = {} /\ todo = {} => Kept = On("FRESH")

LEMMA KeptIdle == TypeOK => KeptWhenIdle
<1> SUFFICES ASSUME TypeOK, On("SCAN") = {}, todo = {} PROVE Kept = On("FRESH")
  BY DEF KeptWhenIdle
<1>1. Roots = On("FRESH") /\ On("FRESH") \in SUBSET Cell
  BY DEF Roots, On
<1>2. ScanClosed(On("FRESH"))
  BY DEF ScanClosed, On
<1> QED
  BY <1>1, <1>2, KeptClosed, KeptLeast DEF KeptIsClosed, KeptIsLeast

(* The same facts about the next state.                                    *)
LEMMA KeptNext ==
  TypeOK' => KeptIsClosed' /\ KeptIsLeast' /\ KeptWhenIdle'
  BY KeptClosed, KeptLeast, KeptIdle, PTL

(* A cell the pass still has to see is on AGED and has the previous marker.*)
LEMMA UnseenAged ==
  ASSUME TypeOK, MarksExact, NEW c \in Allocated
  PROVE  /\ mark[c] # phase <=> where[c] = "AGED"
         /\ mark[c] = prev <=> where[c] = "AGED"
         /\ mark[c] = phase <=> where[c] \in {"FRESH", "SCAN"}
<1>1. phase # prev
  BY DEF TypeOK, prev, Flip, Phase
<1>2. c \in On("AGED") => where[c] = "AGED" /\ mark[c] = prev
  BY DEF MarksExact, On
<1>3. c \in On("FRESH") \cup On("SCAN") => where[c] \in {"FRESH", "SCAN"} /\ mark[c] = phase
  BY DEF MarksExact, On
<1> QED
  BY <1>1, <1>2, <1>3 DEF Allocated

(* Greying cells the pass keeps does not change what it keeps.             *)
LEMMA SameKept ==
  ASSUME TypeOK, TypeOK', On("FRESH")' = On("FRESH"), UNCHANGED fields,
         Roots \subseteq Roots', Roots' \subseteq Kept
  PROVE  Kept' = Kept
<1>1. \A K \in SUBSET Cell : ScanClosed(K)' <=> ScanClosed(K)
  BY DEF ScanClosed, On, Children, fields
<1>2. KeptIsClosed /\ KeptIsLeast /\ KeptIsClosed' /\ KeptIsLeast'
  BY KeptClosed, KeptLeast, KeptNext
<1>3. Kept' \subseteq Kept
  BY <1>1, <1>2 DEF KeptIsClosed, KeptIsLeast
<1>4. Kept \subseteq Kept'
  BY <1>1, <1>2 DEF KeptIsClosed, KeptIsLeast
<1> QED
  BY <1>3, <1>4

-----------------------------------------------------------------------------
(* Moving cells between lists and counting them.                           *)
LEMMA CardJoin ==
  ASSUME NEW S \in SUBSET Cell, NEW T \in SUBSET Cell, S \cap T = {}
  PROVE  Cardinality(S \cup T) = Cardinality(S) + Cardinality(T)
<1>1. Cardinality(S \cup T) = Cardinality(S) + Cardinality(T) - Cardinality(S \cap T)
  BY CellSets, FS_Union
<1>2. Cardinality(S \cap T) = 0
  BY FS_EmptySet
<1> QED
  BY <1>1, <1>2, CellSets

LEMMA CardTake ==
  ASSUME NEW S \in SUBSET Cell, NEW T \in SUBSET S
  PROVE  Cardinality(S \ T) = Cardinality(S) - Cardinality(T)
<1>1. S \cap T = T
  OBVIOUS
<1> QED
  BY <1>1, CellSets, FS_Difference

LEMMA CardOne ==
  ASSUME NEW c \in Cell
  PROVE  Cardinality({c}) = 1
  BY FS_Singleton

(* What gc_scan_cell does to allocated cells: those with the other marker  *)
(* move from AGED to SCAN, and the books are kept.                         *)
LEMMA ScanEffect ==
  ASSUME TypeOK, SizesExact, MarksExact,
         NEW S \in SUBSET Allocated, gc_scan_cell(S)
  PROVE  /\ On("AGED")' = On("AGED") \ Unseen(S)
         /\ On("SCAN")' = On("SCAN") \cup Unseen(S)
         /\ On("FRESH")' = On("FRESH")
         /\ Allocated' = Allocated
         /\ SizesExact'
         /\ MarksExact'
<1> DEFINE U == Unseen(S)
<1>1. U \subseteq On("AGED") /\ U \in SUBSET Cell
  BY UnseenAged DEF Unseen, On, Allocated
<1>2. /\ where' = [c \in Cell |-> IF c \in U THEN "SCAN" ELSE where[c]]
      /\ mark' = [c \in Cell |-> IF c \in U THEN phase ELSE mark[c]]
      /\ size' = ScannedSize(Cardinality(U))
      /\ phase' = phase
  BY DEF gc_scan_cell
<1> HIDE DEF U
<1>3. /\ On("AGED")' = On("AGED") \ U
      /\ On("SCAN")' = On("SCAN") \cup U
      /\ On("FRESH")' = On("FRESH")
      /\ On("FREE")' = On("FREE")
  BY <1>1, <1>2 DEF On
<1>4. SizesExact'
  <2>1. Cardinality(On("AGED") \ U) = Cardinality(On("AGED")) - Cardinality(U)
    BY <1>1, CardTake DEF On
  <2>2. Cardinality(On("SCAN") \cup U) = Cardinality(On("SCAN")) + Cardinality(U)
    <3>1. On("SCAN") \cap U = {}
      BY <1>1 DEF On
    <3> QED
      BY <1>1, <3>1, CardJoin DEF On
  <2>3. Cardinality(U) \in Int
    BY <1>1, CellSets
  <2>4. /\ size'["AGED"] = size["AGED"] - Cardinality(U)
        /\ size'["SCAN"] = size["SCAN"] + Cardinality(U)
        /\ size'["FRESH"] = size["FRESH"] /\ size'["FREE"] = size["FREE"]
    BY <1>2, <2>3 DEF ScannedSize, TypeOK, ListName
  <2> QED
    BY <1>3, <2>1, <2>2, <2>4 DEF SizesExact, ListName
<1>5. MarksExact'
  BY <1>1, <1>2, <1>3 DEF MarksExact, prev, Flip, On
<1>6. Allocated' = Allocated
  BY <1>1, <1>3 DEF Allocated
<1> QED
  BY <1>3, <1>4, <1>5, <1>6 DEF U

-----------------------------------------------------------------------------
(***************************************************************************)
(* Each action preserves CollectorInv if collections do not overlap, none  *)
(* starts while messages are delayed, and no cell is overwritten during a  *)
(* collection that runs concurrently.                                      *)
(***************************************************************************)
Disciplined == MaxPasses = 1 /\ ~Overwrite /\ ~Delayed

(* The barrier greys a cell that the pass keeps anyway.                    *)
LEMMA AccessEffect ==
  ASSUME CollectorInv, NEW c \in Kept, gc_check_access(c), UNCHANGED todo
  PROVE  /\ SizesExact' /\ MarksExact'
         /\ Allocated' = Allocated
         /\ On("FRESH")' = On("FRESH")
         /\ Roots \subseteq Roots' /\ Roots' \subseteq Kept
         /\ On("AGED") = {} => On("AGED")' = {} /\ On("SCAN")' = On("SCAN")
<1> DEFINE S == {d \in {c} : mark[d] = prev}
<1>1. S \in SUBSET Kept /\ S \in SUBSET Allocated
  BY DEF CollectorInv, KeptIsSafe, Held
<1>2. gc_scan_cell(S)
  BY DEF gc_check_access
<1>3. Unseen(S) \subseteq S /\ Unseen(S) \subseteq On("AGED")
  BY <1>1, UnseenAged DEF Unseen, CollectorInv, On, Allocated
<1> HIDE DEF S
<1>4. Roots \subseteq Kept
  BY KeptClosed DEF KeptIsClosed, CollectorInv
<1>5. /\ On("AGED")' = On("AGED") \ Unseen(S)
      /\ On("SCAN")' = On("SCAN") \cup Unseen(S)
      /\ On("FRESH")' = On("FRESH")
      /\ Allocated' = Allocated /\ SizesExact' /\ MarksExact'
  BY <1>1, <1>2, ScanEffect DEF CollectorInv
<1>6. Roots' = Roots \cup Unseen(S)
  BY <1>5 DEF Roots
<1> QED
  BY <1>1, <1>3, <1>4, <1>5, <1>6

LEMMA ConsKeeps ==
  ASSUME CollectorInv, TypeOK',
         NEW a \in regs \cup {NIL}, NEW d \in regs \cup {NIL}, gc_cons(a, d)
  PROVE  CollectorInv'
<1> USE DEF CollectorInv
<1>1. PICK B \in NewBlocks :
        \E p \in On("FREE") \cup B :
           gc_allocate(B, p) /\ first' = [first EXCEPT ![p] = a]
             /\ rest' = [rest EXCEPT ![p] = d] /\ regs' = regs \cup {p}
  BY DEF gc_cons
<1> PICK p \in On("FREE") \cup B :
           gc_allocate(B, p) /\ first' = [first EXCEPT ![p] = a]
             /\ rest' = [rest EXCEPT ![p] = d] /\ regs' = regs \cup {p}
  BY <1>1
<1>2. B \subseteq On("NONE") /\ p \in Cell /\ p \notin Allocated /\ B \cap Allocated = {}
  BY DEF NewBlocks, On, Allocated
<1>3. /\ On("FRESH")' = On("FRESH") \cup {p}
      /\ On("SCAN")' = On("SCAN")
      /\ On("AGED")' = On("AGED")
      /\ On("FREE")' = (On("FREE") \cup B) \ {p}
  BY <1>2 DEF gc_allocate, On, Allocated
<1>4. Allocated' = Allocated \cup {p} /\ Roots' = Roots \cup {p}
  BY <1>3 DEF Allocated, Roots, gc_cons, pass
<1>5. SizesExact'
  <2>1. Cardinality(On("FREE") \cup B) = Cardinality(On("FREE")) + Cardinality(B)
    BY <1>2, CardJoin DEF On
  <2>2. Cardinality((On("FREE") \cup B) \ {p}) = Cardinality(On("FREE") \cup B) - 1
    BY <1>2, CardTake, CardOne DEF On
  <2>3. Cardinality(On("FRESH") \cup {p}) = Cardinality(On("FRESH")) + 1
    BY <1>2, CardJoin, CardOne DEF On, Allocated
  <2>4. Cardinality(B) \in Int
    BY <1>2, CellSets DEF On
  <2>5. /\ size'["FREE"] = size["FREE"] + Cardinality(B) - 1
        /\ size'["FRESH"] = size["FRESH"] + 1
        /\ size'["AGED"] = size["AGED"] /\ size'["SCAN"] = size["SCAN"]
    BY <2>4 DEF gc_allocate, TypeOK, ListName
  <2>6. /\ \A l \in ListName : Cardinality(On(l)) = size[l]
        /\ size["FREE"] \in Int
    BY DEF SizesExact, TypeOK, ListName
  <2>7. size'["FREE"] = Cardinality(On("FREE")')
    <3>1. Cardinality(On("FREE")') = Cardinality(On("FREE") \cup B) - 1
      BY <1>3, <2>2
    <3>2. Cardinality(On("FREE")) = size["FREE"]
      BY <2>6 DEF ListName
    <3> QED
      BY <2>1, <2>4, <2>5, <2>6, <3>1, <3>2
  <2>8. size'["FRESH"] = Cardinality(On("FRESH")')
    BY <1>3, <2>3, <2>5, <2>6 DEF ListName
  <2>9. size'["AGED"] = Cardinality(On("AGED")') /\ size'["SCAN"] = Cardinality(On("SCAN")')
    BY <1>3, <2>5, <2>6 DEF ListName
  <2> QED
    BY <2>7, <2>8, <2>9 DEF SizesExact, ListName
<1>6. MarksExact'
  BY <1>2, <1>3 DEF MarksExact, gc_allocate, AllocationMark, prev, Flip, On, Allocated
<1>7. PassState'
  BY <1>3 DEF PassState, gc_cons, Executing, pass
<1>8. KeptIsSafe'
  <2>1. KeptIsClosed /\ KeptIsLeast /\ KeptIsClosed' /\ KeptIsLeast'
    BY KeptClosed, KeptLeast, KeptNext
  <2>2. p \notin Kept /\ Kept \in SUBSET Cell
    BY <1>2, <2>1 DEF KeptIsSafe, Held, KeptIsClosed
  <2>3. \A c \in Cell \ {p} : Children(c)' = Children(c)
    BY <1>2 DEF Children, TypeOK
  <2>4. Children(p)' \subseteq Kept
    <3>1. first'[p] = a /\ rest'[p] = d
      BY <1>2 DEF TypeOK
    <3> QED
      BY <3>1 DEF Children, KeptIsSafe, Held
  <2>5. \A c \in Cell : where'[c] # "FRESH" => c # p /\ where[c] # "FRESH"
    BY <1>2, <1>3 DEF On
  <2>6. Kept' \subseteq Kept \cup {p}
    <3> PICK K \in SUBSET Cell : K = Kept \cup {p}
      BY <1>2, <2>2
    <3>1. ScanClosed(K)'
      BY <2>1, <2>2, <2>3, <2>5 DEF ScanClosed, KeptIsClosed
    <3>2. Roots' \subseteq K
      BY <1>4, <2>1 DEF KeptIsClosed
    <3> QED
      BY <2>1, <3>1, <3>2 DEF KeptIsLeast
  <2>7. Kept \subseteq Kept'
    <3> DEFINE K == Kept \cap Kept'
    <3>1. K \in SUBSET Cell /\ Roots \subseteq K
      BY <1>4, <2>1, <2>2 DEF KeptIsClosed
    <3>2. \A c \in Cell \ {p} : where[c] # "FRESH" => where'[c] # "FRESH"
      BY <1>2, <1>3 DEF On
    <3>3. ScanClosed(K)
      BY <2>1, <2>2, <2>3, <3>2 DEF ScanClosed, KeptIsClosed
    <3> QED
      BY <2>1, <3>1, <3>3 DEF KeptIsLeast
  <2>8. p \in Kept'
    BY <1>4, <2>1 DEF KeptIsClosed
  <2>9. Closed(Kept)'
    BY <2>2, <2>3, <2>4, <2>6, <2>7 DEF Closed, KeptIsSafe, Held
  <2>10. Kept' \subseteq Allocated'
    BY <1>4, <2>6 DEF KeptIsSafe, Held
  <2> QED
    BY <2>7, <2>8, <2>9, <2>10 DEF KeptIsSafe, Held, gc_cons
<1> QED
  BY <1>5, <1>6, <1>7, <1>8

LEMMA ReadKeeps ==
  ASSUME CollectorInv, TypeOK', NEW c \in regs, gc_first(c) \/ gc_rest(c)
  PROVE  CollectorInv'
<1>1. gc_check_access(c) /\ UNCHANGED <<fields, pass, running, pending, timers, globals>>
  BY DEF gc_first, gc_rest
<1>2. /\ SizesExact' /\ MarksExact' /\ Allocated' = Allocated
      /\ On("FRESH")' = On("FRESH")
      /\ Roots \subseteq Roots' /\ Roots' \subseteq Kept
      /\ On("AGED") = {} => On("AGED")' = {} /\ On("SCAN")' = On("SCAN")
  BY <1>1, AccessEffect DEF pass, CollectorInv, KeptIsSafe, Held
<1>3. Kept' = Kept
  BY <1>1, <1>2, SameKept DEF CollectorInv
<1>4. PassState'
  BY <1>1, <1>2 DEF CollectorInv, PassState, pass, gc_first, gc_rest, Executing
<1>5. regs' \subseteq Kept
  <2>1. Children(c) \subseteq Kept
    BY DEF CollectorInv, KeptIsSafe, Held, Closed
  <2> QED
    BY <2>1 DEF gc_first, gc_rest, Children, CollectorInv, KeptIsSafe, Held
<1>6. Closed(Kept)'
  BY <1>1, <1>3 DEF CollectorInv, KeptIsSafe, Held, Closed, Children, fields
<1> QED
  BY <1>1, <1>2, <1>3, <1>4, <1>5, <1>6 DEF CollectorInv, KeptIsSafe, Held

(* A disciplined program overwrites cells only between two collections,    *)
(* when the cells that are kept are those on FRESH.                        *)
LEMMA OverwriteKeeps ==
  ASSUME Disciplined, CollectorInv, TypeOK', NEW c \in regs, NEW v \in regs \cup {NIL},
         gc_set_first(c, v) \/ gc_set_rest(c, v)
  PROVE  CollectorInv'
<1>1. /\ gc_check_access(c) /\ (Overwrite \/ passes = 0)
      /\ UNCHANGED <<pass, program>>
  BY DEF gc_set_first, gc_set_rest
<1>2. /\ SizesExact' /\ MarksExact' /\ Allocated' = Allocated
      /\ On("FRESH")' = On("FRESH")
      /\ On("AGED") = {} => On("AGED")' = {} /\ On("SCAN")' = On("SCAN")
  BY <1>1, AccessEffect DEF pass, CollectorInv, KeptIsSafe, Held
<1>3. passes = 0
  BY <1>1 DEF Disciplined
<1>4. On("AGED") = {} /\ On("SCAN") = {} /\ todo = {}
  BY <1>3 DEF CollectorInv, PassState
<1>5. On("AGED")' = {} /\ On("SCAN")' = {} /\ todo' = {}
  BY <1>1, <1>2, <1>4 DEF pass
<1>6. PassState'
  BY <1>1, <1>5 DEF CollectorInv, PassState, pass, program
<1>7. Kept = On("FRESH") /\ Kept' = Kept
  BY <1>2, <1>4, <1>5, KeptIdle, KeptNext DEF KeptWhenIdle, CollectorInv
<1>8. Closed(Kept)'
  <2>1. \A d \in Cell : Children(d)' \subseteq Children(d) \cup ({v} \ {NIL})
    BY DEF gc_set_first, gc_set_rest, Children, CollectorInv, TypeOK
  <2>2. v \in Kept \cup {NIL} /\ Kept \subseteq Cell
    BY KeptClosed DEF CollectorInv, KeptIsSafe, Held, KeptIsClosed
  <2> QED
    BY <1>7, <2>1, <2>2 DEF Closed, CollectorInv, KeptIsSafe, Held
<1> QED
  BY <1>1, <1>2, <1>6, <1>7, <1>8 DEF CollectorInv, KeptIsSafe, Held, program

(* Sending, protecting, delivering and returning leave the heap alone.     *)
LEMMA SameHeap ==
  ASSUME TypeOK, TypeOK', SizesExact, MarksExact, UNCHANGED <<heap, fields, todo>>
  PROVE  /\ SizesExact' /\ MarksExact' /\ Kept' = Kept /\ Allocated' = Allocated
         /\ On("SCAN")' = On("SCAN") /\ On("AGED")' = On("AGED")
         /\ Closed(Kept) => Closed(Kept)'
<1>1. \A l : On(l)' = On(l)
  BY DEF On, heap
<1>2. Roots' = Roots /\ Allocated' = Allocated
  BY <1>1 DEF Roots, Allocated
<1>3. Roots \subseteq Kept
  BY KeptClosed DEF KeptIsClosed
<1>4. Kept' = Kept
  BY <1>1, <1>2, <1>3, SameKept
<1>5. SizesExact' /\ MarksExact'
  BY <1>1 DEF SizesExact, MarksExact, heap, prev
<1>6. Closed(Kept) => Closed(Kept)'
  BY <1>4 DEF Closed, Children, fields
<1> QED
  BY <1>1, <1>2, <1>4, <1>5, <1>6

LEMMA ProgramKeeps ==
  ASSUME CollectorInv, TypeOK',
         \/ \E v \in regs : abe__send(v) \/ cfg_add_gc_root(v)
         \/ \E t, v \in regs : abe__send_after(t, v)
         \/ \E S \in SUBSET pending : abe__dispatch(S)
         \/ EndBehaviour
         \/ UNCHANGED vars
  PROVE  CollectorInv'
<1>1. UNCHANGED <<heap, fields, pass>>
  BY DEF abe__send, abe__send_after, cfg_add_gc_root, abe__dispatch, EndBehaviour, vars
<1>2. /\ SizesExact' /\ MarksExact' /\ Kept' = Kept /\ Allocated' = Allocated
      /\ On("SCAN")' = On("SCAN") /\ On("AGED")' = On("AGED")
      /\ Closed(Kept) => Closed(Kept)'
  BY <1>1, SameHeap DEF CollectorInv, pass
<1>3. Held' \subseteq Held
  BY DEF Held, abe__send, abe__send_after, cfg_add_gc_root, abe__dispatch,
     EndBehaviour, vars, program
<1>4. PassState'
  BY <1>1, <1>2 DEF CollectorInv, PassState, pass, Executing,
     abe__send, abe__send_after, cfg_add_gc_root, abe__dispatch, EndBehaviour, vars, program
<1> QED
  BY <1>2, <1>3, <1>4 DEF CollectorInv, KeptIsSafe, Held

(* The time of a delayed message is read, which greys its cells; when the  *)
(* message is due they are let go.                                         *)
LEMMA TimerKeeps ==
  ASSUME CollectorInv, TypeOK', t_queue_insert \/ abe__clock_tick
  PROVE  CollectorInv'
<1>1. PICK t \in timers : gc_check_access(t)
  BY DEF t_queue_insert, abe__clock_tick
<1>2. UNCHANGED <<fields, pass, running, regs>> /\ Held' \subseteq Held
  BY DEF t_queue_insert, abe__clock_tick, program, Held
<1>3. t \in Kept
  BY DEF CollectorInv, KeptIsSafe, Held
<1>4. /\ SizesExact' /\ MarksExact' /\ Allocated' = Allocated
      /\ On("FRESH")' = On("FRESH")
      /\ Roots \subseteq Roots' /\ Roots' \subseteq Kept
      /\ On("AGED") = {} => On("AGED")' = {} /\ On("SCAN")' = On("SCAN")
  BY <1>1, <1>2, <1>3, AccessEffect DEF pass
<1>5. Kept' = Kept
  BY <1>2, <1>4, SameKept DEF CollectorInv
<1>6. PassState'
  BY <1>2, <1>4 DEF CollectorInv, PassState, pass
<1>7. Closed(Kept)'
  BY <1>2, <1>5 DEF CollectorInv, KeptIsSafe, Closed, Children, fields
<1> QED
  BY <1>2, <1>4, <1>5, <1>6, <1>7 DEF CollectorInv, KeptIsSafe

(* A pass starts with every allocated cell on AGED and the roots to scan.  *)
LEMMA StartKeeps ==
  ASSUME Disciplined, CollectorInv, TypeOK', cfg_force_gc \/ cfg_start_gc
  PROVE  CollectorInv'
<1> USE DEF CollectorInv
<1>1. StartPass /\ ~running
  BY DEF cfg_force_gc, cfg_start_gc, StartPass
<1>2. passes = 0 /\ passes' = 1
  BY <1>1 DEF StartPass, Disciplined, TypeOK
<1>3. On("AGED") = {} /\ On("SCAN") = {} /\ todo = {}
  BY <1>2 DEF PassState
<1>4. todo' = cfg_gather_roots
  BY <1>1, <1>3 DEF StartPass
<1>5. /\ where' = [c \in Cell |-> IF where[c] = "FRESH" THEN "AGED" ELSE where[c]]
      /\ size' = [size EXCEPT !["AGED"] = @ + size["FRESH"], !["FRESH"] = 0]
      /\ phase' = prev
      /\ UNCHANGED <<mark, fields, program>>
  BY <1>1 DEF StartPass, gc_age_cells
<1>6. /\ On("AGED")' = On("FRESH") /\ On("SCAN")' = {}
      /\ On("FRESH")' = {} /\ On("FREE")' = On("FREE")
  BY <1>3, <1>5 DEF On
<1>7. SizesExact'
  <2>1. /\ size'["AGED"] = size["AGED"] + size["FRESH"]
        /\ size'["FRESH"] = 0
        /\ size'["SCAN"] = size["SCAN"] /\ size'["FREE"] = size["FREE"]
    BY <1>5 DEF TypeOK, ListName
  <2>2. /\ size["AGED"] = 0 /\ size["SCAN"] = 0
        /\ size["FRESH"] = Cardinality(On("FRESH")) /\ size["FRESH"] \in Int
        /\ size["FREE"] = Cardinality(On("FREE"))
    BY <1>3, FS_EmptySet DEF SizesExact, TypeOK, ListName
  <2>3. /\ size'["AGED"] = Cardinality(On("AGED")')
        /\ size'["FREE"] = Cardinality(On("FREE")')
    BY <1>6, <2>1, <2>2
  <2>4. /\ size'["SCAN"] = Cardinality(On("SCAN")')
        /\ size'["FRESH"] = Cardinality(On("FRESH")')
    BY <1>6, <2>1, <2>2, FS_EmptySet
  <2> QED
    BY <2>3, <2>4 DEF SizesExact, ListName
<1>8. MarksExact'
  <2>1. prev' = phase
    BY <1>5 DEF prev, Flip, TypeOK, Phase
  <2> QED
    BY <1>5, <1>6, <2>1 DEF MarksExact
<1>9. PassState'
  BY <1>1, <1>2, <1>5 DEF PassState, cfg_force_gc, cfg_start_gc, Disciplined, program
<1>10. KeptIsSafe'
  <2>1. KeptIsClosed' /\ KeptIsLeast'
    BY KeptNext
  <2>2. Kept = On("FRESH") /\ Kept \in SUBSET Cell
    BY <1>3, KeptIdle DEF KeptWhenIdle, On
  <2>3. \A c \in Cell : Children(c)' = Children(c)
    BY <1>5 DEF Children, fields
  <2>4. Roots' = globals \cup pending
    BY <1>4, <1>6 DEF Roots, cfg_gather_roots
  <2>5. Kept' \subseteq On("FRESH")
    <3> PICK K \in SUBSET Cell : K = Kept
      BY <2>2
    <3>1. ScanClosed(K)'
      BY <2>3 DEF ScanClosed, KeptIsSafe, Held, Closed
    <3>2. Roots' \subseteq K
      BY <2>4 DEF KeptIsSafe, Held
    <3> QED
      BY <2>1, <2>2, <3>1, <3>2 DEF KeptIsLeast
  <2>6. Closed(Kept)'
    BY <1>6, <2>1 DEF KeptIsClosed, ScanClosed, Closed, On
  <2>7. Kept' \subseteq Allocated'
    BY <1>6, <2>5 DEF Allocated
  <2>8. Held' \subseteq Kept'
    <3>1. regs' = {} /\ timers' = {} /\ pending' = pending /\ globals' = globals
      BY <1>1, <1>5 DEF PassState, program, StartPass, Disciplined
    <3> QED
      BY <2>1, <2>4, <3>1 DEF KeptIsClosed, Held
  <2> QED
    BY <2>6, <2>7, <2>8 DEF KeptIsSafe, Held
<1> QED
  BY <1>7, <1>8, <1>9, <1>10

LEMMA ScanRootKeeps ==
  ASSUME CollectorInv, TypeOK', ScanRoot,
         passes > 0, ~running, UNCHANGED <<fields, passes, full, program>>
  PROVE  CollectorInv'
<1> USE DEF CollectorInv
<1>1. PICK r \in todo : todo' = todo \ {r} /\ gc_scan_cell({r})
  BY DEF ScanRoot
<1>2. Roots \subseteq Kept
  BY KeptClosed DEF KeptIsClosed
<1>3. {r} \in SUBSET Allocated
  BY <1>2 DEF Roots, KeptIsSafe, Held
<1>4. /\ On("SCAN")' = On("SCAN") \cup Unseen({r})
      /\ On("FRESH")' = On("FRESH")
      /\ Allocated' = Allocated /\ SizesExact' /\ MarksExact'
  BY <1>1, <1>3, ScanEffect
<1>5. r \in Unseen({r}) \/ r \in On("FRESH") \cup On("SCAN")
  BY <1>3, UnseenAged DEF Unseen, Allocated, On
<1>6. Unseen({r}) \subseteq {r}
  BY DEF Unseen
<1>7. Roots' = Roots
  BY <1>1, <1>4, <1>5, <1>6 DEF Roots
<1>8. Kept' = Kept
  BY <1>2, <1>4, <1>7, SameKept
<1>9. PassState'
  BY DEF PassState, TypeOK, program
<1>10. Closed(Kept)'
  BY <1>8 DEF KeptIsSafe, Held, Closed, Children, fields
<1> QED
  BY <1>4, <1>8, <1>9, <1>10 DEF KeptIsSafe, Held, program

LEMMA ScanCellKeeps ==
  ASSUME CollectorInv, TypeOK', ScanCell,
         passes > 0, ~running, UNCHANGED <<fields, passes, full, program>>
  PROVE  CollectorInv'
<1> USE DEF CollectorInv
<1>1. PICK p \in On("SCAN") : ScanFields(p)
  BY DEF ScanCell
<1> DEFINE U == Unseen(Children(p))
<1>2. KeptIsClosed /\ KeptIsLeast /\ KeptIsClosed' /\ KeptIsLeast'
  BY KeptClosed, KeptLeast, KeptNext
<1>3. p \in Kept /\ Children(p) \subseteq Kept
  BY <1>2 DEF KeptIsClosed, Roots, KeptIsSafe, Held, Closed
<1>4. U \subseteq Children(p) /\ U \subseteq On("AGED") /\ U \in SUBSET Cell
  BY <1>3, UnseenAged DEF Unseen, KeptIsSafe, Held, On, Allocated
<1>5. Children(p) \ U \subseteq On("FRESH") \cup On("SCAN")
  BY <1>3, UnseenAged DEF Unseen, KeptIsSafe, Held, On, Allocated
<1>6. /\ where' = [c \in Cell |-> IF c = p THEN "FRESH"
                                  ELSE IF c \in U THEN "SCAN" ELSE where[c]]
      /\ mark' = [c \in Cell |-> IF c \in U THEN phase ELSE mark[c]]
      /\ size' = [ScannedSize(Cardinality(U)) EXCEPT !["SCAN"] = @ - 1,
                                                     !["FRESH"] = @ + 1]
      /\ UNCHANGED <<phase, todo>>
  BY <1>1 DEF ScanFields
<1> HIDE DEF U
<1>7. /\ On("AGED")' = On("AGED") \ U
      /\ On("SCAN")' = (On("SCAN") \cup U) \ {p}
      /\ On("FRESH")' = On("FRESH") \cup {p}
      /\ On("FREE")' = On("FREE")
  BY <1>4, <1>6 DEF On
<1>8. SizesExact'
  <2>1. Cardinality(On("AGED") \ U) = Cardinality(On("AGED")) - Cardinality(U)
    BY <1>4, CardTake DEF On
  <2>2. Cardinality(On("SCAN") \cup U) = Cardinality(On("SCAN")) + Cardinality(U)
    <3>1. On("SCAN") \cap U = {}
      BY <1>4 DEF On
    <3> QED
      BY <1>4, <3>1, CardJoin DEF On
  <2>3. Cardinality((On("SCAN") \cup U) \ {p}) = Cardinality(On("SCAN") \cup U) - 1
    BY <1>4, CardTake, CardOne DEF On
  <2>4. Cardinality(On("FRESH") \cup {p}) = Cardinality(On("FRESH")) + 1
    BY CardJoin, CardOne DEF On
  <2>5. Cardinality(U) \in Int
    BY <1>4, CellSets
  <2>6. /\ size'["AGED"] = size["AGED"] - Cardinality(U)
        /\ size'["SCAN"] = size["SCAN"] + Cardinality(U) - 1
        /\ size'["FRESH"] = size["FRESH"] + 1 /\ size'["FREE"] = size["FREE"]
    BY <1>6, <2>5 DEF ScannedSize, TypeOK, ListName
  <2>7. \A l \in ListName : size[l] = Cardinality(On(l)) /\ size[l] \in Int
    BY DEF SizesExact, TypeOK
  <2>8. size'["AGED"] = Cardinality(On("AGED")') /\ size'["FREE"] = Cardinality(On("FREE")')
    BY <1>7, <2>1, <2>6, <2>7 DEF ListName
  <2>9. size'["FRESH"] = Cardinality(On("FRESH")')
    BY <1>7, <2>4, <2>6, <2>7 DEF ListName
  <2>10. size'["SCAN"] = Cardinality(On("SCAN")')
    <3>1. Cardinality(On("SCAN")') = Cardinality((On("SCAN") \cup U) \ {p})
      BY <1>7
    <3>2. Cardinality(On("SCAN")) = size["SCAN"] /\ size["SCAN"] \in Int
      BY <2>7 DEF ListName
    <3> QED
      BY <2>2, <2>3, <2>5, <2>6, <3>1, <3>2
  <2> QED
    BY <2>8, <2>9, <2>10 DEF SizesExact, ListName
<1>9. MarksExact'
  <2>1. mark[p] = phase /\ p \in Cell
    BY DEF MarksExact, On
  <2> QED
    BY <1>4, <1>6, <1>7, <2>1 DEF MarksExact, prev, On
<1>10. PassState'
  BY DEF PassState, TypeOK, program
<1>11. Roots' = Roots \cup U /\ Allocated' = Allocated
  BY <1>4, <1>6, <1>7 DEF Roots, Allocated
<1>12. \A c \in Cell : Children(c)' = Children(c)
  BY DEF Children, fields
<1>13. Kept' = Kept
  <2>1. Kept' \subseteq Kept
    <3> PICK K \in SUBSET Cell : K = Kept
      BY <1>2 DEF KeptIsClosed
    <3>1. ScanClosed(K)'
      BY <1>12 DEF ScanClosed, KeptIsSafe, Held, Closed
    <3>2. Roots' \subseteq K
      BY <1>2, <1>3, <1>4, <1>11 DEF KeptIsClosed
    <3> QED
      BY <1>2, <3>1, <3>2 DEF KeptIsLeast
  <2>2. Kept \subseteq Kept'
    <3>1. Children(p) \subseteq Roots'
      BY <1>5, <1>11 DEF Roots
    <3>2. \A c \in Cell \ {p} : where[c] # "FRESH" => where'[c] # "FRESH"
      BY <1>6
    <3>3. ScanClosed(Kept')
      BY <1>2, <1>12, <3>1, <3>2 DEF ScanClosed, KeptIsClosed
    <3> QED
      BY <1>2, <1>11, <3>3 DEF KeptIsLeast, KeptIsClosed
  <2> QED
    BY <2>1, <2>2
<1>14. Closed(Kept)'
  BY <1>2, <1>12, <1>13 DEF KeptIsSafe, Held, Closed, KeptIsClosed
<1> QED
  BY <1>8, <1>9, <1>10, <1>11, <1>13, <1>14 DEF KeptIsSafe, Held, program

(* When a pass ends nothing is left to scan, so FRESH is all that is kept. *)
LEMMA FreeKeeps ==
  ASSUME Disciplined, CollectorInv, TypeOK', gc_free_cells
  PROVE  CollectorInv'
<1> USE DEF CollectorInv
<1>1. On("SCAN") = {}
  <2>1. Cardinality(On("SCAN")) = 0
    BY DEF gc_free_cells, SizesExact, ListName
  <2> QED
    BY <2>1, CellSets, FS_EmptySet DEF On
<1>2. todo = {} /\ todo' = {} /\ passes' = 0 /\ full' = FALSE
  BY DEF gc_free_cells, Disciplined, TypeOK
<1>3. /\ where' = [c \in Cell |-> IF c \in On("AGED") THEN "FREE" ELSE where[c]]
      /\ UNCHANGED <<mark, phase, fields, program>> /\ ~running
  BY DEF gc_free_cells, Unreached
<1>4. /\ On("AGED")' = {} /\ On("SCAN")' = {}
      /\ On("FRESH")' = On("FRESH") /\ On("FREE")' = On("FREE") \cup On("AGED")
  BY <1>1, <1>3 DEF On
<1>5. SizesExact'
  <2>1. \A l \in ListName : size[l] = Cardinality(On(l)) /\ size[l] \in Int
    BY DEF SizesExact, TypeOK
  <2>2. Cardinality(On("FREE") \cup On("AGED")) = Cardinality(On("FREE")) + Cardinality(On("AGED"))
    <3>1. On("FREE") \cap On("AGED") = {}
      BY DEF On
    <3> QED
      BY <3>1, CardJoin DEF On
  <2>3. Cardinality({}) = 0
    BY FS_EmptySet
  <2>4. CASE On("AGED") = {}
    <3>1. size' = size
      BY <2>4 DEF gc_free_cells, Unreached
    <3>2. \A l \in ListName : On(l)' = On(l)
      BY <1>1, <1>4, <2>4 DEF ListName
    <3> QED
      BY <2>1, <3>1, <3>2 DEF SizesExact
  <2>5. CASE On("AGED") # {}
    <3>1. /\ size'["FREE"] = size["FREE"] + size["AGED"] /\ size'["AGED"] = 0
          /\ size'["SCAN"] = size["SCAN"] /\ size'["FRESH"] = size["FRESH"]
      BY <2>5 DEF gc_free_cells, Unreached, TypeOK, ListName
    <3>2. size'["FREE"] = Cardinality(On("FREE")')
      BY <1>4, <2>1, <2>2, <3>1 DEF ListName
    <3>3. /\ size'["AGED"] = Cardinality(On("AGED")')
          /\ size'["SCAN"] = Cardinality(On("SCAN")')
          /\ size'["FRESH"] = Cardinality(On("FRESH")')
      BY <1>1, <1>4, <2>1, <2>3, <3>1 DEF ListName
    <3> QED
      BY <3>2, <3>3 DEF SizesExact, ListName
  <2> QED
    BY <2>4, <2>5
<1>6. MarksExact'
  BY <1>3, <1>4 DEF MarksExact
<1>7. PassState'
  BY <1>2, <1>3, <1>4 DEF PassState, program
<1>8. Kept = On("FRESH") /\ Kept' = Kept
  BY <1>1, <1>2, <1>4, KeptIdle, KeptNext DEF KeptWhenIdle
<1>9. Closed(Kept)'
  BY <1>3, <1>8 DEF KeptIsSafe, Held, Closed, Children, fields
<1> QED
  BY <1>3, <1>4, <1>5, <1>6, <1>7, <1>8, <1>9 DEF KeptIsSafe, Held, Allocated, program

-----------------------------------------------------------------------------
LEMMA CollectorStep ==
  ASSUME Disciplined, CollectorInv, [Next]_vars
  PROVE  CollectorInv'
<1>1. TypeOK'
  BY TypeStep DEF CollectorInv
<1>2. ASSUME NEW a \in regs \cup {NIL}, NEW d \in regs \cup {NIL}, gc_cons(a, d)
      PROVE  CollectorInv'
  BY <1>1, <1>2, ConsKeeps
<1>3. ASSUME NEW c \in regs, gc_first(c) \/ gc_rest(c)
      PROVE  CollectorInv'
  BY <1>1, <1>3, ReadKeeps
<1>4. ASSUME NEW c \in regs, NEW v \in regs \cup {NIL},
             gc_set_first(c, v) \/ gc_set_rest(c, v)
      PROVE  CollectorInv'
  BY <1>1, <1>4, OverwriteKeeps
<1>9. CASE t_queue_insert \/ abe__clock_tick
  BY <1>1, <1>9, TimerKeeps
<1>5. CASE \/ \E v \in regs : abe__send(v) \/ cfg_add_gc_root(v)
           \/ \E t, v \in regs : abe__send_after(t, v)
           \/ \E S \in SUBSET pending : abe__dispatch(S)
           \/ EndBehaviour
           \/ UNCHANGED vars
  BY <1>1, <1>5, ProgramKeeps
<1>6. CASE cfg_force_gc \/ cfg_start_gc
  BY <1>1, <1>6, StartKeeps
<1>7. CASE gc_refresh_cell
  BY <1>1, <1>7, ScanRootKeeps, ScanCellKeeps DEF gc_refresh_cell
<1>8. CASE gc_free_cells
  BY <1>1, <1>8, FreeKeeps
<1> QED
  BY <1>2, <1>3, <1>4, <1>5, <1>6, <1>7, <1>8, <1>9 DEF Next, Mutator, Collector

LEMMA CollectorInit ==
  ASSUME Init, TypeOK
  PROVE  CollectorInv
<1>1. \A l \in ListName : On(l) = {}
  BY DEF Init, On, ListName
<1>2. On("AGED") = {} /\ On("SCAN") = {} /\ On("FRESH") = {} /\ todo = {}
  BY <1>1 DEF Init, ListName
<1>3. SizesExact
  BY <1>1, FS_EmptySet DEF SizesExact, Init, ListName
<1>4. MarksExact
  BY <1>2 DEF MarksExact
<1>5. PassState
  BY <1>2 DEF PassState, Init
<1>6. Kept = {}
  BY <1>2, KeptIdle DEF KeptWhenIdle
<1>7. KeptIsSafe
  BY <1>6 DEF KeptIsSafe, Held, Closed, Init
<1> QED
  BY <1>3, <1>4, <1>5, <1>7 DEF CollectorInv

(* The inductive invariant holds in every reachable state of a disciplined *)
(* system: what the running pass would keep is allocated and closed under  *)
(* references, and contains whatever the program can get at.               *)
THEOREM CollectorInvariant ==
  ASSUME Disciplined
  PROVE  Spec => []CollectorInv
<1>1. Init => CollectorInv
  BY TypeCorrectInit, CollectorInit
<1>2. CollectorInv /\ [Next]_vars => CollectorInv'
  BY CollectorStep
<1> QED
  BY <1>1, <1>2, PTL DEF Spec

(* What the program can reach is kept.                                     *)
LEMMA LiveIsKept ==
  ASSUME CollectorInv
  PROVE  Live \subseteq Kept
<1>1. Kept \in SUBSET Cell
  BY KeptClosed DEF CollectorInv, KeptIsClosed
<1> QED
  BY <1>1 DEF CollectorInv, KeptIsSafe, Held, Live, Reach

(* For every number of cells, roots and messages: if collections never     *)
(* overlap or start while messages are delayed, and the program overwrites *)
(* no cell while one runs between its behaviours, no cell that the program *)
(* can reach is ever freed.                                                *)
THEOREM LiveCellsAreKept ==
  ASSUME Disciplined
  PROVE  Spec => []LiveCellsKept
<1>1. CollectorInv => LiveCellsKept
  BY LiveIsKept DEF LiveCellsKept, CollectorInv, KeptIsSafe, Held
<1> QED
  BY <1>1, CollectorInvariant, PTL

(* Under the same conditions the length cached in each list head is right, *)
(* so a pass ends exactly when nothing is left to scan, and a new block is *)
(* obtained exactly when no free cell is left.                             *)
THEOREM SizesAreExact ==
  ASSUME Disciplined
  PROVE  Spec => []SizesExact
<1>1. CollectorInv => SizesExact
  BY DEF CollectorInv
<1> QED
  BY <1>1, CollectorInvariant, PTL

(* And gc_scan_cell, which takes a cell with the other marker for a cell   *)
(* on AGED, is right about every cell the program can reach.               *)
THEOREM PreviousMarksAreAged ==
  ASSUME Disciplined
  PROVE  Spec => []PreviousMarkIsAged
<1>1. ASSUME CollectorInv
      PROVE  PreviousMarkIsAged
  <2>1. Live \subseteq Allocated
    BY <1>1, LiveIsKept DEF CollectorInv, KeptIsSafe, Held
  <2> QED
    BY <1>1, <2>1, UnseenAged DEF PreviousMarkIsAged, CollectorInv
<1> QED
  BY <1>1, CollectorInvariant, PTL

-----------------------------------------------------------------------------
(***************************************************************************)
(* A full collection is exact: while gc_full_collection runs, whatever was *)
(* scanned or waits to be scanned can be reached from the roots.           *)
(***************************************************************************)
FullInv == full => Roots \subseteq Reach(cfg_gather_roots)

LEMMA ReachClosed ==
  ASSUME TypeOK, NEW S \in SUBSET Cell
  PROVE  S \subseteq Reach(S) /\ Closed(Reach(S)) /\ Reach(S) \in SUBSET Cell
<1>1. \A c \in Cell : Children(c) \in SUBSET Cell
  BY DEF TypeOK, Children, FieldValue
<1>2. Closed(Reach(S))
  <2> SUFFICES ASSUME NEW c \in Reach(S), NEW d \in Children(c),
                      NEW K \in SUBSET Cell, S \subseteq K, Closed(K)
               PROVE  d \in K
    BY <1>1 DEF Closed, Reach
  <2>1. c \in K
    BY DEF Reach
  <2> QED
    BY <2>1 DEF Closed
<1> QED
  BY <1>2 DEF Reach

LEMMA FullStep ==
  ASSUME Disciplined, CollectorInv, FullInv, [Next]_vars
  PROVE  FullInv'
<1> USE DEF CollectorInv
<1> SUFFICES ASSUME full'
             PROVE  Roots' \subseteq Reach(cfg_gather_roots)'
  BY DEF FullInv
<1>1. CollectorInv' /\ TypeOK'
  BY CollectorStep
<1>2. CASE full
  <2>1. ~running /\ Roots \subseteq Reach(cfg_gather_roots)
    BY <1>2 DEF PassState, FullInv
  <2>2. gc_refresh_cell \/ UNCHANGED vars
    BY <1>2, <2>1 DEF Next, Mutator, Collector, gc_cons, gc_first, gc_rest, gc_set_first,
       gc_set_rest, abe__send, abe__send_after, t_queue_insert, abe__clock_tick,
       cfg_add_gc_root, abe__dispatch, EndBehaviour, Executing,
       cfg_force_gc, cfg_start_gc, StartPass, gc_free_cells
  <2>3. UNCHANGED <<fields, globals, pending>>
    BY <2>2 DEF gc_refresh_cell, vars, program
  <2>4. Reach(cfg_gather_roots)' = Reach(cfg_gather_roots)
    BY <2>3 DEF Reach, Closed, Children, fields, cfg_gather_roots
  <2>5. cfg_gather_roots \in SUBSET Cell
    BY DEF cfg_gather_roots, TypeOK
  <2>6. CASE ScanRoot
    <3>1. PICK r \in todo : todo' = todo \ {r} /\ gc_scan_cell({r})
      BY <2>6 DEF ScanRoot
    <3>2. Roots' \subseteq Roots
      BY <3>1 DEF Roots, On, gc_scan_cell, Unseen
    <3> QED
      BY <2>1, <2>4, <3>2
  <2>7. CASE ScanCell
    <3>1. PICK p \in On("SCAN") : ScanFields(p)
      BY <2>7 DEF ScanCell
    <3>2. Roots' \subseteq Roots \cup Children(p)
      BY <3>1 DEF Roots, On, ScanFields, Unseen
    <3>3. Children(p) \subseteq Reach(cfg_gather_roots)
      BY <2>1, <2>5, ReachClosed DEF Roots, Closed
    <3> QED
      BY <2>1, <2>4, <3>2, <3>3
  <2>8. CASE UNCHANGED vars
    <3>1. Roots' = Roots
      BY <2>8 DEF vars, heap, pass, Roots, On
    <3> QED
      BY <2>1, <2>4, <3>1
  <2> QED
    BY <2>2, <2>6, <2>7, <2>8 DEF gc_refresh_cell
<1>3. CASE ~full
  <2>1. cfg_force_gc
    BY <1>3 DEF Next, Mutator, Collector, gc_cons, gc_first, gc_rest, gc_set_first,
       gc_set_rest, abe__send, abe__send_after, t_queue_insert, abe__clock_tick,
       cfg_add_gc_root, abe__dispatch, EndBehaviour, cfg_start_gc, gc_refresh_cell, gc_free_cells, vars, pass
  <2>2. passes = 0
    BY <2>1 DEF cfg_force_gc, StartPass, Disciplined, TypeOK
  <2>3. On("SCAN") = {} /\ todo = {}
    BY <2>2 DEF PassState
  <2>4. todo' = cfg_gather_roots /\ UNCHANGED program
    BY <2>1, <2>3 DEF cfg_force_gc, StartPass
  <2>5. On("SCAN")' = {} /\ On("FRESH")' = {}
    BY <2>1, <2>3 DEF cfg_force_gc, StartPass, gc_age_cells, On
  <2>6. cfg_gather_roots' = cfg_gather_roots
    BY <2>4 DEF cfg_gather_roots, program
  <2>7. Roots' \subseteq cfg_gather_roots'
    BY <2>4, <2>5, <2>6 DEF Roots
  <2>8. cfg_gather_roots' \subseteq Reach(cfg_gather_roots)'
    BY <1>1 DEF Reach, cfg_gather_roots, TypeOK
  <2> QED
    BY <2>7, <2>8
<1> QED
  BY <1>2, <1>3

(* When gc_full_collection frees what is left on AGED, the cells it keeps  *)
(* are those that the protected roots and the queued messages reach: it    *)
(* takes back every garbage cell and nothing else.                         *)
THEOREM FullCollectionsAreExact ==
  ASSUME Disciplined
  PROVE  Spec => FullCollectionExact
<1>1. Init => FullInv
  BY DEF Init, FullInv
<1>2. CollectorInv /\ FullInv /\ [Next]_vars => FullInv'
  BY FullStep
<1>3. ASSUME CollectorInv, FullInv, gc_free_cells, full
      PROVE  On("FRESH") = Reach(cfg_gather_roots)
  <2>1. Cardinality(On("SCAN")) = 0 /\ todo = {}
    BY <1>3 DEF gc_free_cells, CollectorInv, SizesExact, ListName
  <2>2. On("SCAN") = {}
    BY <2>1, CellSets, FS_EmptySet DEF On
  <2>3. On("FRESH") \subseteq Reach(cfg_gather_roots)
    BY <1>3 DEF FullInv, Roots
  <2>4. Kept = On("FRESH")
    BY <1>3, <2>1, <2>2, KeptIdle DEF KeptWhenIdle, CollectorInv
  <2>5. Reach(cfg_gather_roots) \subseteq On("FRESH")
    BY <1>3, <2>4 DEF CollectorInv, KeptIsSafe, Held, Reach, cfg_gather_roots, On
  <2> QED
    BY <2>3, <2>5
<1>4. CollectorInv /\ FullInv =>
        [gc_free_cells /\ full => On("FRESH") = Reach(cfg_gather_roots)]_vars
  BY <1>3
<1> QED
  BY <1>1, <1>2, <1>4, CollectorInvariant, PTL DEF Spec, FullCollectionExact

-----------------------------------------------------------------------------
(***************************************************************************)
(* The collector implements the abstract heap.                             *)
(***************************************************************************)
LEMMA HeapReach ==
  ASSUME NEW S
  PROVE  H!Reach(S) = Reach(S)
  BY DEF H!Reach, H!Closed, H!Children, Reach, Closed, Children

LEMMA HeapStep ==
  ASSUME Disciplined, CollectorInv, [Next]_vars
  PROVE  [H!Next]_(H!vars)
<1> USE DEF CollectorInv
<1> DEFINE stutter == UNCHANGED <<Allocated, first, rest, running, regs, pending, timers, globals>>
<1>1. ASSUME NEW a \in regs \cup {NIL}, NEW d \in regs \cup {NIL}, gc_cons(a, d)
      PROVE  H!Allocate(a, d)
  <2>1. PICK B \in NewBlocks :
          \E p \in On("FREE") \cup B :
             gc_allocate(B, p) /\ first' = [first EXCEPT ![p] = a]
               /\ rest' = [rest EXCEPT ![p] = d] /\ regs' = regs \cup {p}
    BY <1>1 DEF gc_cons
  <2> PICK p \in On("FREE") \cup B :
             gc_allocate(B, p) /\ first' = [first EXCEPT ![p] = a]
               /\ rest' = [rest EXCEPT ![p] = d] /\ regs' = regs \cup {p}
    BY <2>1
  <2>2. B \subseteq On("NONE") /\ p \in Cell \ Allocated
    BY DEF NewBlocks, On, Allocated
  <2>3. Allocated' = Allocated \cup {p}
    BY <2>2 DEF gc_allocate, On, Allocated
  <2> QED
    BY <1>1, <2>2, <2>3 DEF H!Allocate, gc_cons, Executing
<1>2. ASSUME NEW c \in regs, gc_first(c) \/ gc_rest(c)
      PROVE  H!Read(c) \/ stutter
  <2>1. Allocated' = Allocated
    BY <1>2, AccessEffect DEF gc_first, gc_rest, pass, KeptIsSafe, Held
  <2> QED
    BY <1>2, <2>1 DEF gc_first, gc_rest, Executing, fields, H!Read, H!Children
<1>3. ASSUME NEW c \in regs, NEW v \in regs \cup {NIL},
             gc_set_first(c, v) \/ gc_set_rest(c, v)
      PROVE  H!Write(c, v)
  <2>1. Allocated' = Allocated
    BY <1>3, AccessEffect DEF gc_set_first, gc_set_rest, pass, KeptIsSafe, Held
  <2> QED
    BY <1>3, <2>1 DEF gc_set_first, gc_set_rest, Executing, program, H!Write
<1>4. ASSUME NEW v \in regs, abe__send(v) \/ cfg_add_gc_root(v)
      PROVE  H!Send(v) \/ H!Protect(v)
  BY <1>4 DEF abe__send, cfg_add_gc_root, Executing, heap, fields, Allocated, On,
     H!Send, H!Protect
<1>12. ASSUME NEW t \in regs, NEW v \in regs, abe__send_after(t, v)
       PROVE  H!SendAfter(t, v)
  BY <1>12 DEF abe__send_after, Executing, heap, fields, Allocated, On, H!SendAfter
<1>13. CASE t_queue_insert \/ abe__clock_tick
  <2>1. PICK t \in timers :
          /\ gc_check_access(t)
          /\ UNCHANGED timers \/ (~running /\ timers' = timers \ {t})
    BY <1>13 DEF t_queue_insert, abe__clock_tick, program
  <2>2. UNCHANGED <<first, rest, todo, running, regs, pending, globals>>
    BY <1>13 DEF t_queue_insert, abe__clock_tick, program, fields, pass
  <2>3. Allocated' = Allocated
    BY <2>1, <2>2, AccessEffect DEF KeptIsSafe, Held
  <2>4. stutter \/ H!Fire(t)
    BY <2>1, <2>2, <2>3 DEF H!Fire
  <2> QED
    BY <2>4 DEF H!Next, H!vars
<1>5. ASSUME NEW S \in SUBSET pending, abe__dispatch(S)
      PROVE  H!Deliver(S)
  BY <1>5 DEF abe__dispatch, heap, fields, Allocated, On, H!Deliver
<1>6. CASE EndBehaviour
  <2>1. H!Return
    BY <1>6 DEF EndBehaviour, Executing, heap, fields, Allocated, On, H!Return
  <2> QED
    BY <2>1 DEF H!Next
<1>7. CASE cfg_force_gc \/ cfg_start_gc
  <2>1. StartPass
    BY <1>7 DEF cfg_force_gc, cfg_start_gc
  <2>2. Allocated' = Allocated
    BY <2>1 DEF StartPass, gc_age_cells, Allocated, On
  <2>3. stutter
    BY <2>1, <2>2 DEF StartPass, fields, program
  <2> QED
    BY <2>3 DEF H!vars
<1>8. CASE gc_refresh_cell
  <2>1. Allocated' = Allocated
    <3>1. CASE ScanRoot
      <4>1. PICK r \in todo : gc_scan_cell({r})
        BY <3>1 DEF ScanRoot
      <4>2. Roots \subseteq Kept
        BY KeptClosed DEF KeptIsClosed
      <4>3. {r} \in SUBSET Allocated
        BY <4>2 DEF Roots, KeptIsSafe, Held
      <4> QED
        BY <4>1, <4>3, ScanEffect
    <3>2. CASE ScanCell
      <4>1. PICK p \in On("SCAN") : ScanFields(p)
        BY <3>2 DEF ScanCell
      <4>2. p \in Kept
        BY KeptClosed DEF KeptIsClosed, Roots
      <4>3. Children(p) \subseteq Allocated
        BY <4>2 DEF KeptIsSafe, Held, Closed
      <4>4. Unseen(Children(p)) \subseteq Allocated
        BY <4>3 DEF Unseen
      <4> QED
        BY <4>1, <4>4 DEF ScanFields, Allocated, On
    <3> QED
      BY <1>8, <3>1, <3>2 DEF gc_refresh_cell
  <2>2. stutter
    BY <1>8, <2>1 DEF gc_refresh_cell, fields, program
  <2> QED
    BY <2>2 DEF H!vars
<1>9. CASE gc_free_cells
  <2>1. On("SCAN") = {} /\ todo = {}
    <3>1. Cardinality(On("SCAN")) = 0 /\ todo = {}
      BY <1>9 DEF gc_free_cells, SizesExact, ListName
    <3> QED
      BY <3>1, CellSets, FS_EmptySet DEF On
  <2>2. Live \subseteq On("FRESH")
    BY <2>1, LiveIsKept, KeptIdle DEF KeptWhenIdle
  <2>3. On("AGED") \in SUBSET (Allocated \ H!Reach(regs \cup pending \cup timers \cup globals))
    BY <2>2, HeapReach DEF Live, Held, Allocated, On
  <2>4. Allocated' = Allocated \ On("AGED")
    BY <1>9 DEF gc_free_cells, Unreached, Allocated, On
  <2>5. H!Reclaim
    BY <1>9, <2>3, <2>4 DEF H!Reclaim, gc_free_cells, fields, program
  <2> QED
    BY <2>5 DEF H!Next
<1>10. CASE UNCHANGED vars
  BY <1>10 DEF vars, heap, fields, program, Allocated, On, H!vars
<1>11. stutter => UNCHANGED H!vars
  BY DEF H!vars
<1> HIDE DEF stutter
<1> QED
  BY <1>1, <1>2, <1>3, <1>4, <1>5, <1>6, <1>7, <1>8, <1>9, <1>10, <1>11, <1>12, <1>13
     DEF Next, Mutator, Collector, H!Next

(* The collector implements the heap a programmer reasons about, in which  *)
(* only unreachable cells ever disappear and ageing, scanning and moving   *)
(* between lists cannot be observed.                                       *)
THEOREM HeapIsImplemented ==
  ASSUME Disciplined
  PROVE  Spec => ImplementsHeap
<1>1. Init => H!Init
  BY DEF Init, H!Init, Allocated, On
<1>2. CollectorInv /\ [Next]_vars => [H!Next]_(H!vars)
  BY HeapStep
<1> QED
  BY <1>1, <1>2, CollectorInvariant, PTL DEF Spec, ImplementsHeap, H!Spec

=============================================================================
