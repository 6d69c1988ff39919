------------------------------ MODULE AtomTable ------------------------------
(***************************************************************************)
(* The table of names of atom.c: a trie whose nodes are permanent cells.   *)
(* A node is what an atom points to; its car holds the characters that     *)
(* lead to it, the last one first, and its cdr the nodes that extend it by *)
(* one character.  Names are compared by comparing atoms.                  *)
(*                                                                         *)
(* A client spells a name, one lu_extend_atom per character (lu_atom does  *)
(* nothing else), and starts again with another name.                      *)
(***************************************************************************)
EXTENDS Integers, Sequences

CONSTANTS
  Char,     \* the characters of names
  StrSize,  \* the size of the buffer in atom_str, with its final NUL
  MaxAtoms  \* bound: nodes of the table with its root (more than one)

ASSUME AtomAssumption == StrSize \in Nat \ {0} /\ MaxAtoms \in Nat

VARIABLES
  text,      \* the car of each node, << >> until the root is made
  suffixes,  \* its cdr: the nodes that extend it, the newest first
  atom,      \* the atom that spelling has led to, NoAtom at the start
  spelled    \* history: the characters spelled so far, the last one first

table == <<text, suffixes>>
atomVars == <<table, atom, spelled>>

NoAtom == 0
lu_atom_root == 1
Atom == 1 .. Len(text)

AtomInit ==
  /\ text = << >>
  /\ suffixes = << >>
  /\ atom = NoAtom
  /\ spelled = << >>

From == IF atom = NoAtom THEN lu_atom_root ELSE atom

Bears(n, c) == Head(text[n]) = c

(* The suffix list of node r from its newest element on has one for c.     *)
Suffix(r, c) == {i \in DOMAIN suffixes[r] : Bears(suffixes[r][i], c)}

(* Mutant: the new node does not come into the suffix list.                *)
FaultyExtend(c) ==
  /\ Suffix(From, c) = {}
  /\ Len(text) < MaxAtoms
  /\ atom' = Len(text) + 1
  /\ text' = Append(text, <<c>> \o text[From])
  /\ suffixes' = Append(suffixes, << >>)

(* Mutant: the text of the node itself is extended.                        *)
ExtendInPlace(c) ==
  /\ Suffix(From, c) = {}
  /\ atom' = From
  /\ text' = [text EXCEPT ![From] = <<c>> \o @]
  /\ UNCHANGED suffixes

Extend(c) ==
  /\ Suffix(From, c) = {}
  /\ Len(text) < MaxAtoms
  /\ atom' = Len(text) + 1
  /\ text' = Append(text, <<c>> \o text[From])
  /\ suffixes' = Append([suffixes EXCEPT ![From] = <<Len(text) + 1>> \o @], << >>)

(* Mutant: the newest node of the suffix list.                             *)
FaultyMatch(c) ==
  /\ Suffix(From, c) # {}
  /\ atom' = suffixes[From][1]
  /\ UNCHANGED table

Match(c) ==
  /\ \E i \in Suffix(From, c) :
       /\ \A j \in Suffix(From, c) : i <= j
       /\ atom' = suffixes[From][i]
  /\ UNCHANGED table

(* The first character ever makes the root too.                            *)
First(c) ==
  /\ text' = << << >>, <<c>> >>
  /\ suffixes' = << <<2>>, << >> >>
  /\ atom' = 2

lu_extend_atom(c) ==
  /\ \/ text = << >> /\ First(c)
     \/ text # << >> /\ (Match(c) \/ Extend(c))
  /\ spelled' = <<c>> \o spelled

(* lu_atom is called with the next name.                                   *)
NextName ==
  /\ atom # NoAtom
  /\ atom' = NoAtom
  /\ spelled' = << >>
  /\ UNCHANGED table

AtomNext == NextName \/ \E c \in Char : lu_extend_atom(c)

AtomSpec == AtomInit /\ [][AtomNext]_atomVars

(* Mutant: one character more than the buffer holds.                       *)
FaultyKept(n) == n <= StrSize

Kept(n) == n < StrSize

(* atom_str: of a text too long for the buffer the end is left out.        *)
atom_str(a) ==
  LET long == Len(text[a])
      n == IF Kept(long) THEN long ELSE StrSize - 1
  IN [i \in 1 .. n |-> text[a][long + 1 - i]]

-----------------------------------------------------------------------------
AtomTypeOK ==
  /\ text \in Seq(Seq(Char))
  /\ suffixes \in Seq(Seq(Atom))
  /\ Len(suffixes) = Len(text)
  /\ atom \in Atom \cup {NoAtom}
  /\ spelled \in Seq(Char)

(* A name has one atom, so that atoms can be compared in place of names,   *)
(* whatever other names were entered before, after or in between (atom.c:  *)
(* test_atom, and every comparison with ATOM in the code).                 *)
Interned == \A a, b \in Atom : text[a] = text[b] => a = b

(* Spelling leads to the atom of what was spelled, found or made.          *)
SpelledAtom == spelled = IF atom = NoAtom THEN << >> ELSE text[atom]

(* An atom stays the atom of its name.                                     *)
AtomsStay == [][\A a \in Atom : a \in DOMAIN text' /\ text'[a] = text[a]]_atomVars

(* What atom_str returns fits its buffer and is the name of an atom: of    *)
(* the atom itself if the name fits, of one with fewer characters if not.  *)
AtomStrNames ==
  \A a \in Atom :
    /\ Len(atom_str(a)) < StrSize
    /\ \E b \in Atom :
         /\ Len(text[b]) = Len(atom_str(a))
         /\ \A i \in DOMAIN text[b] : text[b][i] = atom_str(a)[Len(text[b]) + 1 - i]
         /\ Len(text[a]) < StrSize => b = a
=============================================================================
