------------------------------ MODULE MCLibrary ------------------------------
(***************************************************************************)
(* The components that the rest of the program is written with, and the    *)
(* sample program, for TLC.  They have no state in common: a behaviour is  *)
(* one of a single component, chosen at the start.                         *)
(***************************************************************************)
EXTENDS GcLists, ConsMaps, AtomTable, Notation, Sbuf, Sample

VARIABLE part  \* the component that runs

LibraryInit ==
  /\ Init /\ MapInit /\ AtomInit /\ NotationInit /\ SbufInit /\ SampleInit
  /\ part \in {"gc.c", "cons.c", "atom.c", "emit.c", "sbuf.c", "sample.c"}
  /\ part # "sample.c" => tick = 0  \* once each

LibraryNext ==
  /\ UNCHANGED part
  /\ \/ part = "gc.c" /\ Next /\ UNCHANGED <<mapVars, atomVars, input, sbufVars, sampleVars>>
     \/ part = "cons.c" /\ MapNext /\ UNCHANGED <<vars, atomVars, input, sbufVars, sampleVars>>
     \/ part = "atom.c" /\ AtomNext /\ UNCHANGED <<vars, mapVars, input, sbufVars, sampleVars>>
     \/ part = "emit.c" /\ NotationNext /\ UNCHANGED <<vars, mapVars, atomVars, sbufVars, sampleVars>>
     \/ part = "sbuf.c" /\ SbufNext /\ UNCHANGED <<vars, mapVars, atomVars, input, sampleVars>>
     \/ part = "sample.c" /\ SampleNext /\ UNCHANGED <<vars, mapVars, atomVars, input, sbufVars>>

LibrarySpec ==
  /\ LibraryInit
  /\ [][LibraryNext]_<<part, vars, mapVars, atomVars, input, sbufVars, sampleVars>>
  /\ part = "sample.c" => SampleFairness

MCDatum == {-1, -2}
MCLists == {<<-1, -1>>, <<-2>>}
MCKey == {"(", ")", ":", "\"", "'", " ", "0", "1", "-", "a", "N", "^", "\t"}
MCStrings == {<< >>, <<"x", "y">>}
=============================================================================
