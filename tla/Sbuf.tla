--------------------------------- MODULE Sbuf ---------------------------------
(***************************************************************************)
(* The string buffers of sbuf.c: fixed memory that text is appended to.    *)
(* What does not fit is left out, but the text always ends with a NUL.     *)
(***************************************************************************)
EXTENDS Integers, Sequences

CONSTANTS
  Size,    \* the size of the buffer
  Byte,    \* the characters
  Strings, \* bound: what sbuf_emits is called with
  Lengths  \* bound: the lengths that it is called with

VARIABLES
  buf,       \* the memory, indexed from 0 as in C
  offset,    \* where the next character goes
  accepted,  \* history: the characters accepted since the last clear_sbuf
  clean      \* history: the buffer was cleared or written to

sbufVars == <<buf, offset, accepted, clean>>

NUL == "NUL"
JUNK == "JUNK"  \* what malloc returns is not initialized

limit == Size - 1

(* What is emitted are the characters of C strings.                        *)
ASSUME SbufAssumption ==
  Size \in Nat \ {0} /\ NUL \notin Byte /\ Strings \subseteq Seq(Byte) /\ Lengths \subseteq Nat

new_sbuf ==
  /\ buf = [i \in 0 .. limit |-> JUNK]
  /\ offset = 0
  /\ accepted = << >>
  /\ clean = FALSE

clear_sbuf ==
  /\ buf' = [i \in 0 .. limit |-> NUL]
  /\ offset' = 0
  /\ accepted' = << >>
  /\ clean' = TRUE

(* Mutant: room for the character, but not for the NUL behind it.          *)
Faulty_sbuf_emit(c) ==
  /\ offset <= limit
  /\ buf' = [i \in 0 .. limit |-> IF i = offset THEN c ELSE IF i = offset + 1 THEN NUL ELSE buf[i]]
  /\ offset' = offset + 1
  /\ accepted' = Append(accepted, c)
  /\ clean' = TRUE

sbuf_emit(c) ==
  /\ offset < limit
  /\ buf' = [buf EXCEPT ![offset] = c, ![offset + 1] = NUL]
  /\ offset' = offset + 1
  /\ accepted' = Append(accepted, c)
  /\ clean' = TRUE

(* The characters of a C string before its NUL, but no more than n.        *)
Prefix(s, n) == SubSeq(s, 1, IF n < Len(s) THEN n ELSE Len(s))

(* All of these characters or none: whether there is room is decided by n, *)
(* however short s is.                                                     *)
sbuf_emits(s, n) ==
  /\ offset + n < limit
  /\ LET chars == Prefix(s, n)
         end == offset + Len(chars)
     IN /\ buf' = [i \in 0 .. limit |->
                     CASE i \in offset .. end - 1 -> chars[i - offset + 1]
                       [] i = end -> NUL
                       [] OTHER -> buf[i]]
        /\ offset' = end
        /\ accepted' = accepted \o chars
  /\ clean' = TRUE

SbufInit == new_sbuf

SbufNext ==
  \/ clear_sbuf
  \/ \E c \in Byte : sbuf_emit(c)
  \/ \E s \in Strings, n \in Lengths : sbuf_emits(s, n)

SbufSpec == SbufInit /\ [][SbufNext]_sbufVars

-----------------------------------------------------------------------------
(* What C code reads from the start of the buffer.                         *)
SbufText ==
  LET end == CHOOSE n \in 0 .. limit : buf[n] = NUL /\ \A i \in 0 .. n - 1 : buf[i] # NUL
  IN [i \in 1 .. end |-> buf[i - 1]]

(* From the first write or clear_sbuf on the buffer holds a string, the    *)
(* one made of all characters that were accepted, however full it is and   *)
(* whatever was in it before (sbuf.c, used by emit.c).                     *)
HoldsAccepted ==
  clean => (\E n \in 0 .. limit : buf[n] = NUL) /\ SbufText = accepted /\ offset = Len(accepted)
=============================================================================
