----------------------------- MODULE MCTreadmill -----------------------------
(* Small instances of the collector for TLC. *)
EXTENDS Treadmill, TLC

Symmetry == Permutations(Cell)

(* Garbage is reclaimed: a cell on AGED that neither the program nor the   *)
(* pass can reach any more (gc.c: gc_free_cells) goes back to FREE.  The   *)
(* specification does not distinguish cells, so one of them stands for all.*)
GarbageReclaimed == ReclaimedFor(CHOOSE c \in Cell : TRUE)
=============================================================================
