------------------------------ MODULE TextProofs ------------------------------
(***************************************************************************)
(* Proofs about texts: the table of names of module AtomTable, the string  *)
(* buffers of module Sbuf, and the lines that the program of module Sample *)
(* prints.                                                                 *)
(***************************************************************************)
EXTENDS AtomTable, Sbuf, Sample, FiniteSetTheorems, SequenceTheorems, TLAPS

(* A node of the trie other than the root is in a suffix list, and what is *)
(* in the suffix list of a node has one character more than that node.     *)
Root == text # << >> => text[lu_atom_root] = << >>

Listed ==
  \A a \in Atom \ {lu_atom_root} :
    \E r \in Atom : \E i \in DOMAIN suffixes[r] : suffixes[r][i] = a

Longer ==
  \A r \in Atom : \A i \in DOMAIN suffixes[r] :
    \E c \in Char : text[suffixes[r][i]] = <<c>> \o text[r]

TrieInv ==
  /\ AtomTypeOK
  /\ Root
  /\ Listed
  /\ Longer
  /\ Interned
  /\ SpelledAtom

LEMMA ConsHead ==
  ASSUME NEW c \in Char, NEW s \in Seq(Char)
  PROVE  /\ <<c>> \o s \in Seq(Char)
         /\ <<c>> \o s # << >>
         /\ Head(<<c>> \o s) = c
         /\ Tail(<<c>> \o s) = s
<1> DEFINE t == <<c>> \o s
<1>1. t \in Seq(Char) /\ Len(t) = Len(s) + 1
  OBVIOUS
<1>2. t[1] = c /\ \A i \in 1 .. Len(s) : t[i + 1] = s[i]
  OBVIOUS
<1>3. Tail(t) = s
  <2>1. Tail(t) \in Seq(Char) /\ Len(Tail(t)) = Len(s)
    BY <1>1
  <2>2. \A i \in 1 .. Len(s) : Tail(t)[i] = s[i]
    BY <1>1, <1>2
  <2> QED
    BY <2>1, <2>2, SeqEqual
<1> QED
  BY <1>1, <1>2, <1>3

LEMMA OneMore ==
  ASSUME NEW k \in Nat
  PROVE  1 .. (k + 1) = (1 .. k) \cup {k + 1} /\ k + 1 \notin 1 .. k
<1>1. \A x : x \in 1 .. (k + 1) <=> x \in 1 .. k \/ x = k + 1
  OBVIOUS
<1> QED
  BY <1>1

(* The trie's shape does not depend on the client.                         *)
LEMMA SameTable ==
  ASSUME TrieInv, UNCHANGED table
  PROVE  /\ Atom' = Atom
         /\ Root'
         /\ Listed'
         /\ Longer'
         /\ Interned'
<1>1. text' = text /\ suffixes' = suffixes /\ Atom' = Atom
  BY DEF table, Atom
<1>2. Root'
  BY <1>1 DEF TrieInv, Root
<1>3. Listed'
  BY <1>1 DEF TrieInv, Listed
<1>4. Longer'
  BY <1>1 DEF TrieInv, Longer
<1>5. Interned'
  BY <1>1 DEF TrieInv, Interned
<1> QED
  BY <1>1, <1>2, <1>3, <1>4, <1>5

(* Spelling starts at a node, the one of what was spelled.                 *)
LEMMA FromNode ==
  ASSUME TrieInv, text # << >>
  PROVE  From \in Atom /\ text[From] = spelled
<1>1. Len(text) \in Nat \ {0} /\ lu_atom_root \in Atom
  BY DEF TrieInv, AtomTypeOK, Atom, lu_atom_root
<1> QED
  BY <1>1 DEF TrieInv, AtomTypeOK, From, Root, SpelledAtom, NoAtom, Atom

LEMMA FirstStep ==
  ASSUME TrieInv, text = << >>, NEW c \in Char, First(c), spelled' = <<c>> \o spelled
  PROVE  TrieInv'
<1>1. Len(text') = 2 /\ Atom' = {1, 2} /\ text'[1] = << >> /\ text'[2] = <<c>>
  BY DEF First, Atom
<1>2. Len(suffixes') = 2 /\ suffixes'[1] = <<2>> /\ suffixes'[2] = << >> /\ atom' = 2
  BY DEF First
<1>3. spelled = << >> /\ spelled' = <<c>>
  <2>1. atom = NoAtom
    BY DEF TrieInv, AtomTypeOK, Atom, NoAtom
  <2> QED
    BY <2>1 DEF TrieInv, SpelledAtom
<1>4. AtomTypeOK'
  <2>1. << >> \in Seq(Char) /\ <<c>> \in Seq(Char)
    OBVIOUS
  <2>2. text' \in Seq(Seq(Char))
    BY <2>1 DEF First
  <2>3. << >> \in Seq(Atom') /\ <<2>> \in Seq(Atom')
    BY <1>1
  <2>4. suffixes' \in Seq(Seq(Atom'))
    BY <2>3 DEF First
  <2>5. spelled' \in Seq(Char)
    BY <1>3, <2>1
  <2> QED
    BY <1>1, <1>2, <2>2, <2>4, <2>5 DEF AtomTypeOK
<1>5. Root' /\ Listed'
  BY <1>1, <1>2 DEF Root, Listed, lu_atom_root
<1>6. Longer'
  <2>1. <<c>> = <<c>> \o << >>
    OBVIOUS
  <2> QED
    <3> SUFFICES ASSUME NEW r \in Atom', NEW i \in DOMAIN suffixes'[r]
                 PROVE  \E d \in Char : text'[suffixes'[r][i]] = <<d>> \o text'[r]
      BY DEF Longer
    <3>1. DOMAIN suffixes'[2] = {} /\ DOMAIN suffixes'[1] = {1} /\ suffixes'[1][1] = 2
      BY <1>2
    <3>2. r = 1 /\ i = 1
      BY <1>1, <3>1
    <3> QED
      BY <1>1, <2>1, <3>1, <3>2
<1>7. Interned'
  <2>1. << >> # <<c>>
    OBVIOUS
  <2> QED
    BY <1>1, <2>1 DEF Interned
<1>8. SpelledAtom'
  BY <1>1, <1>2, <1>3 DEF SpelledAtom, NoAtom
<1> QED
  BY <1>4, <1>5, <1>6, <1>7, <1>8 DEF TrieInv

LEMMA MatchStep ==
  ASSUME TrieInv, text # << >>, NEW c \in Char, Match(c), spelled' = <<c>> \o spelled
  PROVE  TrieInv'
<1>1. From \in Atom /\ text[From] = spelled
  BY FromNode
<1>2. PICK i \in Suffix(From, c) : atom' = suffixes[From][i]
  BY DEF Match
<1>3. i \in DOMAIN suffixes[From] /\ Head(text[atom']) = c
  BY <1>2 DEF Suffix, Bears
<1>4. atom' \in Atom
  <2>1. suffixes[From] \in Seq(Atom)
    BY <1>1 DEF TrieInv, AtomTypeOK, Atom
  <2> QED
    BY <1>2, <1>3, <2>1
<1>5. PICK d \in Char : text[atom'] = <<d>> \o text[From]
  BY <1>1, <1>2, <1>3 DEF TrieInv, Longer
<1>6. spelled \in Seq(Char)
  BY DEF TrieInv, AtomTypeOK
<1>7. d = c
  BY <1>1, <1>3, <1>5, <1>6, ConsHead
<1>8. spelled' = text[atom'] /\ spelled' \in Seq(Char)
  <2>1. <<c>> \o spelled \in Seq(Char)
    BY <1>6, ConsHead
  <2> QED
    BY <1>1, <1>5, <1>7, <2>1
<1>9. UNCHANGED table
  BY DEF Match
<1>10. atom' # NoAtom
  BY <1>4 DEF Atom, NoAtom
<1>11. AtomTypeOK'
  BY <1>4, <1>8, <1>9, SameTable DEF TrieInv, AtomTypeOK, table
<1>12. Root' /\ Listed' /\ Longer' /\ Interned'
  BY <1>9, SameTable
<1>13. SpelledAtom'
  BY <1>8, <1>9, <1>10 DEF SpelledAtom, table
<1> QED
  BY <1>11, <1>12, <1>13 DEF TrieInv

(* A new node's text was not there: its owner would be in the suffix list  *)
(* that was searched.                                                      *)
LEMMA NewText ==
  ASSUME TrieInv, text # << >>, NEW c \in Char, Suffix(From, c) = {}
  PROVE  \A a \in Atom : text[a] # <<c>> \o text[From]
<1> SUFFICES ASSUME NEW a \in Atom, text[a] = <<c>> \o text[From]
             PROVE  FALSE
  OBVIOUS
<1>1. From \in Atom /\ text[From] \in Seq(Char)
  BY FromNode DEF TrieInv, AtomTypeOK
<1>2. a # lu_atom_root
  BY <1>1, ConsHead DEF TrieInv, Root
<1>3. PICK r \in Atom : \E i \in DOMAIN suffixes[r] : suffixes[r][i] = a
  BY <1>2 DEF TrieInv, Listed
<1>4. PICK i \in DOMAIN suffixes[r] : suffixes[r][i] = a
  BY <1>3
<1>5. PICK d \in Char : text[a] = <<d>> \o text[r]
  BY <1>3, <1>4 DEF TrieInv, Longer
<1>6. text[r] \in Seq(Char)
  BY <1>3 DEF TrieInv, AtomTypeOK, Atom
<1>7. Tail(text[a]) = text[r] /\ Tail(text[a]) = text[From] /\ Head(text[a]) = c
  BY <1>1, <1>5, <1>6, ConsHead
<1>8. r = From
  BY <1>1, <1>3, <1>7 DEF TrieInv, Interned
<1>9. i \in Suffix(From, c)
  BY <1>4, <1>7, <1>8 DEF Suffix, Bears
<1> QED
  BY <1>9

LEMMA ExtendStep ==
  ASSUME TrieInv, text # << >>, NEW c \in Char, Extend(c), spelled' = <<c>> \o spelled
  PROVE  TrieInv'
<1> DEFINE n == Len(text) + 1
           t == <<c>> \o text[From]
           longer == <<n>> \o suffixes[From]
<1>1. /\ From \in Atom /\ text[From] = spelled
      /\ Suffix(From, c) = {} /\ atom' = n
      /\ text' = Append(text, t)
      /\ suffixes' = Append([suffixes EXCEPT ![From] = longer], << >>)
  BY FromNode DEF Extend
<1>2. /\ text \in Seq(Seq(Char)) /\ suffixes \in Seq(Seq(Atom))
      /\ Len(suffixes) = Len(text) /\ spelled \in Seq(Char) /\ Len(text) \in Nat
  BY DEF TrieInv, AtomTypeOK
<1>3. t \in Seq(Char) /\ t # << >> /\ spelled' = t
  BY <1>1, <1>2, ConsHead
<1> HIDE DEF t
<1>4. /\ text' \in Seq(Seq(Char)) /\ Len(text') = n /\ text'[n] = t
      /\ \A a \in Atom : text'[a] = text[a]
  BY <1>1, <1>2, <1>3 DEF Atom
<1>5. Atom' = Atom \cup {n} /\ n \notin Atom
  <2>1. Atom' = 1 .. n /\ Atom = 1 .. Len(text)
    BY <1>4 DEF Atom
  <2>2. 1 .. n = (1 .. Len(text)) \cup {n} /\ n \notin 1 .. Len(text)
    BY <1>2, OneMore
  <2> QED
    BY <2>1, <2>2
<1>6. /\ suffixes[From] \in Seq(Atom)
      /\ longer \in Seq(Atom') /\ longer[1] = n /\ Len(longer) = Len(suffixes[From]) + 1
      /\ \A i \in DOMAIN suffixes[From] : longer[i + 1] = suffixes[From][i]
      /\ \A i \in DOMAIN longer : i = 1 \/ i - 1 \in DOMAIN suffixes[From]
  <2>1. suffixes[From] \in Seq(Atom)
    BY <1>1, <1>2 DEF Atom
  <2>2. suffixes[From] \in Seq(Atom') /\ n \in Atom'
    BY <1>5, <2>1
  <2> QED
    BY <2>1, <2>2
<1> HIDE DEF longer
<1> DEFINE others == [suffixes EXCEPT ![From] = longer]
<1>7. /\ others \in Seq(Seq(Atom')) /\ Len(others) = Len(text) /\ others[From] = longer
      /\ \A a \in Atom \ {From} : others[a] = suffixes[a]
  <2>1. \A a \in 1 .. Len(text) : suffixes[a] \in Seq(Atom')
    BY <1>2, <1>5
  <2>2. suffixes \in Seq(Seq(Atom'))
    BY <1>2, <1>5
  <2>3. From \in 1 .. Len(suffixes)
    BY <1>1, <1>2 DEF Atom
  <2> QED
    BY <1>2, <1>6, <2>2, <2>3 DEF Atom
<1>7a. suffixes' = Append(others, << >>)
  BY <1>1
<1> HIDE DEF others
<1>8. /\ suffixes' \in Seq(Seq(Atom')) /\ Len(suffixes') = n
      /\ suffixes'[n] = << >> /\ suffixes'[From] = longer
      /\ \A a \in Atom \ {From} : suffixes'[a] = suffixes[a]
  <2>1. << >> \in Seq(Atom')
    OBVIOUS
  <2>2. suffixes' \in Seq(Seq(Atom'))
    BY <1>7, <1>7a, <2>1
  <2>3. Len(suffixes') = n /\ suffixes'[n] = << >>
    BY <1>2, <1>7, <1>7a
  <2>4. \A a \in 1 .. Len(text) : suffixes'[a] = others[a]
    BY <1>2, <1>7, <1>7a
  <2> QED
    BY <1>1, <1>7, <2>2, <2>3, <2>4 DEF Atom
<1>9. AtomTypeOK'
  BY <1>1, <1>3, <1>4, <1>5, <1>8 DEF AtomTypeOK
<1>10. Root'
  BY <1>2, <1>4 DEF TrieInv, Root, lu_atom_root, Atom
<1>11. Listed'
  <2> SUFFICES ASSUME NEW a \in Atom', a # lu_atom_root
               PROVE  \E r \in Atom' : \E i \in DOMAIN suffixes'[r] : suffixes'[r][i] = a
    BY DEF Listed
  <2>1. CASE a = n
    <3>1. 1 \in DOMAIN suffixes'[From] /\ suffixes'[From][1] = n
      BY <1>6, <1>8
    <3> QED
      BY <1>1, <1>5, <2>1, <3>1
  <2>2. CASE a \in Atom
    <3>1. PICK r \in Atom : \E i \in DOMAIN suffixes[r] : suffixes[r][i] = a
      BY <2>2 DEF TrieInv, Listed
    <3>2. PICK i \in DOMAIN suffixes[r] : suffixes[r][i] = a
      BY <3>1
    <3>3. CASE r = From
      <4>1. i + 1 \in DOMAIN longer /\ longer[i + 1] = a
        BY <1>6, <3>2, <3>3
      <4> QED
        BY <1>5, <1>8, <3>3, <4>1
    <3>4. CASE r # From
      BY <1>5, <1>8, <3>2, <3>4
    <3> QED
      BY <3>3, <3>4
  <2> QED
    BY <1>5, <2>1, <2>2
<1>12. Longer'
  <2> SUFFICES ASSUME NEW r \in Atom', NEW i \in DOMAIN suffixes'[r]
               PROVE  \E d \in Char : text'[suffixes'[r][i]] = <<d>> \o text'[r]
    BY DEF Longer
  <2>1. CASE r = n
    BY <1>8, <2>1
  <2>2. ASSUME r \in Atom, NEW j \in DOMAIN suffixes[r], suffixes'[r][i] = suffixes[r][j]
        PROVE  \E d \in Char : text'[suffixes'[r][i]] = <<d>> \o text'[r]
    <3>1. suffixes[r][j] \in Atom
      <4>1. suffixes[r] \in Seq(Atom)
        BY <1>2, <2>2 DEF Atom
      <4> QED
        BY <2>2, <4>1
    <3>2. PICK d \in Char : text[suffixes[r][j]] = <<d>> \o text[r]
      BY <2>2 DEF TrieInv, Longer
    <3>3. text'[suffixes'[r][i]] = text[suffixes[r][j]] /\ text'[r] = text[r]
      BY <1>4, <2>2, <3>1
    <3> QED
      BY <3>2, <3>3
  <2>3. CASE r = From /\ i = 1
    <3>1. suffixes'[r][i] = n /\ text'[n] = t /\ text'[r] = text[From]
      BY <1>1, <1>4, <1>6, <1>8, <2>3
    <3> QED
      BY <3>1 DEF t
  <2>4. CASE r = From /\ i # 1
    <3>1. i - 1 \in DOMAIN suffixes[r] /\ longer[(i - 1) + 1] = suffixes[r][i - 1]
      BY <1>6, <1>8, <2>4
    <3>2. suffixes'[r][i] = suffixes[r][i - 1]
      BY <1>6, <1>8, <2>4, <3>1
    <3> QED
      BY <1>1, <2>2, <2>4, <3>1, <3>2
  <2>5. CASE r \in Atom \ {From}
    BY <1>8, <2>2, <2>5
  <2> QED
    BY <1>5, <2>1, <2>3, <2>4, <2>5
<1>13. Interned'
  <2>1. \A a \in Atom : text[a] # t
    BY <1>1, NewText DEF t
  <2> SUFFICES ASSUME NEW a \in Atom', NEW b \in Atom', text'[a] = text'[b]
               PROVE  a = b
    BY DEF Interned
  <2>2. CASE a \in Atom /\ b \in Atom
    <3>1. text[a] = text[b]
      BY <1>4, <2>2
    <3> QED
      BY <2>2, <3>1 DEF TrieInv, Interned
  <2>3. CASE a = n /\ b \in Atom
    BY <1>4, <2>1, <2>3
  <2>4. CASE a \in Atom /\ b = n
    BY <1>4, <2>1, <2>4
  <2> QED
    BY <1>5, <2>2, <2>3, <2>4
<1>14. SpelledAtom'
  BY <1>1, <1>2, <1>3, <1>4 DEF SpelledAtom, NoAtom
<1> QED
  BY <1>9, <1>10, <1>11, <1>12, <1>13, <1>14 DEF TrieInv

LEMMA TrieStep ==
  ASSUME TrieInv, [AtomNext]_atomVars
  PROVE  TrieInv'
<1>1. ASSUME UNCHANGED table
      PROVE  Atom' = Atom /\ Root' /\ Listed' /\ Longer' /\ Interned'
  BY <1>1, SameTable
<1>2. CASE UNCHANGED atomVars
  <2>1. AtomTypeOK' /\ SpelledAtom'
    BY <1>1, <1>2 DEF TrieInv, AtomTypeOK, SpelledAtom, atomVars, table
  <2> QED
    BY <1>1, <1>2, <2>1 DEF TrieInv, atomVars
<1>3. CASE NextName
  <2>1. UNCHANGED table /\ atom' = NoAtom /\ spelled' = << >>
    BY <1>3 DEF NextName
  <2>2. << >> \in Seq(Char)
    OBVIOUS
  <2>3. AtomTypeOK'
    BY <1>1, <2>1, <2>2 DEF TrieInv, AtomTypeOK, table
  <2>4. SpelledAtom'
    BY <2>1 DEF SpelledAtom
  <2> QED
    BY <1>1, <2>1, <2>3, <2>4 DEF TrieInv
<1>4. ASSUME NEW c \in Char, lu_extend_atom(c)
      PROVE  TrieInv'
  BY <1>4, FirstStep, MatchStep, ExtendStep DEF lu_extend_atom
<1> QED
  BY <1>2, <1>3, <1>4 DEF AtomNext

LEMMA TrieInit == AtomInit => TrieInv
<1> SUFFICES ASSUME AtomInit PROVE TrieInv
  OBVIOUS
<1>1. text = << >> /\ suffixes = << >> /\ atom = NoAtom /\ spelled = << >> /\ Atom = {}
  BY DEF AtomInit, Atom
<1> QED
  BY <1>1 DEF TrieInv, AtomTypeOK, Root, Listed, Longer, Interned, SpelledAtom

THEOREM TrieInvariant == AtomSpec => []TrieInv
BY TrieInit, TrieStep, PTL DEF AtomSpec

(* Two names have the same atom only if they are the same name, for every  *)
(* alphabet and however many names the table has (lu_extend_atom).         *)
THEOREM AtomsAreUnique == AtomSpec => []Interned
<1>1. TrieInv => Interned
  BY DEF TrieInv
<1> QED
  BY <1>1, TrieInvariant, PTL

(* Spelling a name leads to its atom, found or made: entering a name again *)
(* gives the atom it had (lu_atom).                                        *)
THEOREM SpellingFindsAtom == AtomSpec => []SpelledAtom
<1>1. TrieInv => SpelledAtom
  BY DEF TrieInv
<1> QED
  BY <1>1, TrieInvariant, PTL

(* No step changes or removes the name of an atom.                         *)
THEOREM AtomsAreForEver == AtomSpec => AtomsStay
<1>1. TrieInv /\ [AtomNext]_atomVars =>
        [\A a \in Atom : a \in DOMAIN text' /\ text'[a] = text[a]]_atomVars
  <2> SUFFICES ASSUME TrieInv, AtomNext, NEW a \in Atom
               PROVE  a \in DOMAIN text' /\ text'[a] = text[a]
    OBVIOUS
  <2>1. text \in Seq(Seq(Char)) /\ Len(text) \in Nat /\ a \in 1 .. Len(text)
    BY DEF TrieInv, AtomTypeOK, Atom
  <2>2. CASE text' = text
    BY <2>1, <2>2
  <2>3. ASSUME NEW s \in Seq(Char), text' = Append(text, s)
        PROVE  a \in DOMAIN text' /\ text'[a] = text[a]
    BY <2>1, <2>3
  <2>4. ASSUME NEW c \in Char, lu_extend_atom(c)
        PROVE  a \in DOMAIN text' /\ text'[a] = text[a]
    <3>1. text # << >>
      BY <2>1
    <3>2. From \in Atom /\ text[From] \in Seq(Char)
      BY <3>1, FromNode DEF TrieInv, AtomTypeOK
    <3>3. <<c>> \o text[From] \in Seq(Char)
      BY <3>2, ConsHead
    <3> QED
      BY <2>2, <2>3, <2>4, <3>1, <3>3 DEF lu_extend_atom, Match, Extend, table
  <2> QED
    BY <2>2, <2>4 DEF AtomNext, NextName, table
<1> QED
  BY <1>1, TrieInvariant, PTL DEF AtomSpec, AtomsStay

-----------------------------------------------------------------------------
(* Every end of what a node bears is borne by a node: names are entered    *)
(* one character at a time, from the first on.                             *)
EndOf(s, n, t) == Len(t) = n /\ \A i \in 1 .. n : t[i] = s[Len(s) - n + i]

Shorter ==
  \A a \in Atom : \A n \in 0 .. Len(text[a]) : \E b \in Atom : EndOf(text[a], n, text[b])

(* The ends of a text with one character more are it and those it had.     *)
LEMMA EndsOfLonger ==
  ASSUME NEW c \in Char, NEW s \in Seq(Char), NEW n \in 0 .. Len(<<c>> \o s)
  PROVE  \/ EndOf(<<c>> \o s, n, <<c>> \o s)
         \/ n \in 0 .. Len(s) /\ \A t : EndOf(s, n, t) => EndOf(<<c>> \o s, n, t)
<1> DEFINE long == <<c>> \o s
<1>1. PICK k \in Nat : k = Len(s)
  OBVIOUS
<1>2. Len(long) = k + 1 /\ \A i \in 1 .. k : long[i + 1] = s[i]
  BY <1>1
<1>3. n \in Nat /\ n <= k + 1
  BY <1>1
<1> HIDE DEF long
<1>4. CASE n = k + 1
  <2>1. \A i \in 1 .. n : long[i] = long[(k + 1) - n + i]
    <3> SUFFICES ASSUME NEW i \in 1 .. n PROVE long[i] = long[(k + 1) - n + i]
      OBVIOUS
    <3>1. (k + 1) - n + i = i
      BY <1>1, <1>3, <1>4
    <3> QED
      BY <3>1
  <2>2. EndOf(long, n, long)
    BY <1>2, <1>4, <2>1 DEF EndOf
  <2> QED
    BY <2>2 DEF long
<1>5. CASE n # k + 1
  <2>1. n <= k
    BY <1>1, <1>3, <1>5
  <2>2. ASSUME NEW t, EndOf(s, n, t)
        PROVE  EndOf(long, n, t)
    <3>1. Len(t) = n /\ \A i \in 1 .. n : t[i] = s[k - n + i]
      BY <1>1, <2>2 DEF EndOf
    <3>2. ASSUME NEW i \in 1 .. n
          PROVE  t[i] = long[(k + 1) - n + i]
      <4>1. PICK j \in 1 .. k : j = k - n + i
        <5>1. k - n + i \in 1 .. k
          BY <1>3, <2>1
        <5> QED
          BY <5>1
      <4>2. j + 1 = (k + 1) - n + i
        BY <1>1, <1>3, <4>1
      <4>3. long[j + 1] = s[j]
        BY <1>2, <4>1
      <4> QED
        BY <3>1, <4>1, <4>2, <4>3
    <3> QED
      BY <1>2, <3>1, <3>2 DEF EndOf
  <2> QED
    BY <1>1, <1>3, <2>1, <2>2 DEF long
<1> QED
  BY <1>4, <1>5

LEMMA ShorterInit == AtomInit => Shorter
BY DEF AtomInit, Shorter, Atom

LEMMA ShorterStep ==
  ASSUME TrieInv, Shorter, [AtomNext]_atomVars
  PROVE  Shorter'
<1>1. CASE UNCHANGED text
  BY <1>1 DEF Shorter, Atom
<1>2. ASSUME NEW c \in Char, text = << >>, First(c)
      PROVE  Shorter'
  <2>1. Atom' = {1, 2} /\ text'[1] = << >> /\ text'[2] = <<c>>
    BY <1>2 DEF First, Atom
  <2>2. EndOf(<< >>, 0, << >>) /\ EndOf(<<c>>, 0, << >>) /\ EndOf(<<c>>, 1, <<c>>)
    BY DEF EndOf
  <2> SUFFICES ASSUME NEW a \in Atom', NEW n \in 0 .. Len(text'[a])
               PROVE  \E b \in Atom' : EndOf(text'[a], n, text'[b])
    BY DEF Shorter
  <2>3. CASE a = 1
    <3>1. n = 0
      BY <2>1, <2>3
    <3> QED
      BY <2>1, <2>2, <2>3, <3>1
  <2>4. CASE a = 2
    <3>1. Len(text'[a]) = 1
      BY <2>1, <2>4
    <3>2. n = 0 \/ n = 1
      BY <3>1
    <3> QED
      BY <2>1, <2>2, <2>4, <3>2
  <2> QED
    BY <2>1, <2>3, <2>4
<1>3. ASSUME NEW c \in Char, text # << >>, Extend(c)
      PROVE  Shorter'
  <2>1. PICK s \in Seq(Char) : s = text[From]
    BY <1>3, FromNode DEF TrieInv, AtomTypeOK
  <2> DEFINE k == Len(text)
             t == <<c>> \o s
  <2>2. From \in Atom /\ text \in Seq(Seq(Char)) /\ k \in Nat /\ text' = Append(text, t)
    BY <1>3, <2>1, FromNode DEF Extend, TrieInv, AtomTypeOK
  <2>3. t \in Seq(Char)
    BY ConsHead
  <2>4. Len(text') = k + 1 /\ text'[k + 1] = t /\ \A a \in Atom : text'[a] = text[a]
    BY <2>2, <2>3 DEF Atom
  <2>5. Atom' = Atom \cup {k + 1}
    <3>1. Atom' = 1 .. (k + 1) /\ Atom = 1 .. k
      BY <2>4 DEF Atom
    <3> QED
      BY <2>2, <3>1, OneMore
  <2> SUFFICES ASSUME NEW a \in Atom', NEW n \in 0 .. Len(text'[a])
               PROVE  \E b \in Atom' : EndOf(text'[a], n, text'[b])
    BY DEF Shorter
  <2>6. CASE a \in Atom
    <3>1. PICK b \in Atom : EndOf(text[a], n, text[b])
      BY <2>4, <2>6 DEF Shorter
    <3> QED
      BY <2>4, <2>5, <2>6, <3>1
  <2>7. CASE a = k + 1
    <3>1. n \in 0 .. Len(t) /\ text'[a] = t
      BY <2>4, <2>7
    <3>2. CASE EndOf(t, n, t)
      BY <2>4, <2>5, <2>7, <3>2
    <3>3. CASE n \in 0 .. Len(s) /\ \A u : EndOf(s, n, u) => EndOf(t, n, u)
      <4>1. PICK b \in Atom : EndOf(s, n, text[b])
        BY <2>1, <2>2, <3>3 DEF Shorter
      <4>2. EndOf(t, n, text'[b])
        BY <2>4, <3>3, <4>1
      <4> QED
        BY <2>5, <3>1, <4>2
    <3> QED
      BY <3>1, <3>2, <3>3, EndsOfLonger
  <2> QED
    BY <2>5, <2>6, <2>7
<1>4. UNCHANGED atomVars => UNCHANGED text
  BY DEF atomVars, table
<1>5. NextName => UNCHANGED text
  BY DEF NextName, table
<1>6. ASSUME NEW c \in Char, Match(c)
      PROVE  UNCHANGED text
  BY <1>6 DEF Match, table
<1> QED
  BY <1>1, <1>2, <1>3, <1>4, <1>5, <1>6 DEF AtomNext, lu_extend_atom

LEMMA StrNames ==
  ASSUME TrieInv, Shorter
  PROVE  AtomStrNames
<1> SUFFICES ASSUME NEW a \in Atom
             PROVE  /\ Len(atom_str(a)) < StrSize
                    /\ \E b \in Atom :
                         /\ Len(text[b]) = Len(atom_str(a))
                         /\ \A i \in DOMAIN text[b] :
                              text[b][i] = atom_str(a)[Len(text[b]) + 1 - i]
                         /\ Len(text[a]) < StrSize => b = a
  BY DEF AtomStrNames
<1>1. text[a] \in Seq(Char)
  BY DEF TrieInv, AtomTypeOK, Atom
<1>2. PICK long \in Nat : long = Len(text[a])
  BY <1>1
<1>3. PICK n \in 0 .. long :
        /\ n < StrSize /\ (long < StrSize => n = long)
        /\ n = IF Kept(long) THEN long ELSE StrSize - 1
  BY <1>2, AtomAssumption DEF Kept
<1>4. atom_str(a) = [i \in 1 .. n |-> text[a][long + 1 - i]]
  BY <1>2, <1>3 DEF atom_str
<1>5. Len(atom_str(a)) = n
  BY <1>3, <1>4
<1>6. PICK b \in Atom : EndOf(text[a], n, text[b]) /\ (long < StrSize => b = a)
  <2>1. CASE long < StrSize
    <3>1. \A i \in 1 .. n : Len(text[a]) - n + i = i
      BY <1>2, <1>3, <2>1
    <3>2. EndOf(text[a], n, text[a])
      BY <1>2, <1>3, <2>1, <3>1 DEF EndOf
    <3> QED
      BY <3>2
  <2>2. CASE ~(long < StrSize)
    BY <1>2, <1>3, <2>2 DEF Shorter
  <2> QED
    BY <2>1, <2>2
<1>7. text[b] \in Seq(Char) /\ Len(text[b]) = n
  BY <1>6 DEF EndOf, TrieInv, AtomTypeOK, Atom
<1>8. ASSUME NEW i \in DOMAIN text[b]
      PROVE  text[b][i] = atom_str(a)[Len(text[b]) + 1 - i]
  <2>1. i \in 1 .. n
    BY <1>7
  <2>2. text[b][i] = text[a][long - n + i]
    BY <1>2, <1>6, <2>1 DEF EndOf
  <2>3. PICK j \in 1 .. n : j = n + 1 - i
    <3>1. n + 1 - i \in 1 .. n
      BY <2>1
    <3> QED
      BY <3>1
  <2>4. long + 1 - j = long - n + i
    BY <2>1, <2>3
  <2>5. atom_str(a)[j] = text[a][long + 1 - j]
    BY <1>4, <2>3
  <2> QED
    BY <1>7, <2>2, <2>3, <2>4, <2>5
<1> QED
  BY <1>2, <1>3, <1>5, <1>6, <1>7, <1>8

(* A name that is too long for the buffer of atom_str loses its end and is *)
(* then the name of another atom; one that fits stays itself (atom_str),   *)
(* for every size of the buffer and every table.                           *)
THEOREM StringsAreNames == AtomSpec => []AtomStrNames
<1>1. AtomSpec => []Shorter
  BY ShorterInit, ShorterStep, TrieInvariant, PTL DEF AtomSpec
<1>2. TrieInv /\ Shorter => AtomStrNames
  BY StrNames
<1> QED
  BY <1>1, <1>2, TrieInvariant, PTL

-----------------------------------------------------------------------------
(* String buffers.                                                         *)

(* The memory starts with the characters of s, then a NUL.                 *)
StartsWith(b, s) == b[Len(s)] = NUL /\ \A i \in 1 .. Len(s) : b[i - 1] = s[i]

(* There is always room for the NUL behind what was accepted, and it is    *)
(* there unless nothing was written yet.                                   *)
SbufInv ==
  /\ DOMAIN buf = 0 .. limit
  /\ accepted \in Seq(Byte)
  /\ offset = Len(accepted)
  /\ offset <= limit
  /\ clean \in BOOLEAN
  /\ IF clean THEN StartsWith(buf, accepted) ELSE accepted = << >>

LEMMA LimitIsNat == limit \in Nat
BY SbufAssumption DEF limit

(* C code that reads such a memory reads s and nothing more.               *)
LEMMA TextRead ==
  ASSUME NEW s \in Seq(Byte), Len(s) <= limit, StartsWith(buf, s)
  PROVE  (\E n \in 0 .. limit : buf[n] = NUL) /\ SbufText = s
<1> DEFINE Ends(n) == buf[n] = NUL /\ \A i \in 0 .. n - 1 : buf[i] # NUL
           end == CHOOSE n \in 0 .. limit : Ends(n)
<1>1. PICK k \in 0 .. limit : k = Len(s)
  BY LimitIsNat
<1>2. buf[k] = NUL /\ \A i \in 1 .. k : buf[i - 1] = s[i]
  BY <1>1 DEF StartsWith
<1>3. \A i \in 1 .. k : s[i] \in Byte
  BY <1>1
<1>4. \A j \in 0 .. k - 1 : buf[j] # NUL
  <2> SUFFICES ASSUME NEW j \in 0 .. k - 1 PROVE buf[j] # NUL
    OBVIOUS
  <2>1. PICK i \in 1 .. k : i - 1 = j
    <3>1. j + 1 \in 1 .. k /\ (j + 1) - 1 = j
      OBVIOUS
    <3> QED
      BY <3>1
  <2> QED
    BY <1>2, <1>3, <2>1, SbufAssumption
<1>5. Ends(k)
  BY <1>2, <1>4
<1>6. \A n \in 0 .. limit : Ends(n) => n = k
  <2> SUFFICES ASSUME NEW n \in 0 .. limit, Ends(n) PROVE n = k
    OBVIOUS
  <2>1. ~(n < k)
    BY <1>4
  <2>2. ~(k < n)
    <3> SUFFICES ASSUME k < n PROVE FALSE
      OBVIOUS
    <3>1. k \in 0 .. n - 1
      OBVIOUS
    <3> QED
      BY <1>2, <3>1
  <2> QED
    BY <2>1, <2>2
<1>7. end = k
  BY <1>5, <1>6
<1>8. SbufText = [i \in 1 .. k |-> buf[i - 1]]
  BY <1>7 DEF SbufText
<1>9. SbufText = [i \in 1 .. k |-> s[i]]
  BY <1>2, <1>8
<1>10. s = [i \in 1 .. k |-> s[i]]
  BY <1>1
<1> QED
  BY <1>2, <1>9, <1>10

LEMMA SbufStart == SbufInit => SbufInv
<1> SUFFICES ASSUME SbufInit PROVE SbufInv
  OBVIOUS
<1>1. DOMAIN buf = 0 .. limit /\ offset = 0 /\ accepted = << >> /\ clean = FALSE
  BY DEF SbufInit, new_sbuf
<1> QED
  BY <1>1, LimitIsNat DEF SbufInv

LEMMA ClearStep ==
  ASSUME clear_sbuf
  PROVE  SbufInv'
<1>1. StartsWith(buf', << >>)
  BY LimitIsNat DEF clear_sbuf, StartsWith
<1> QED
  BY <1>1, LimitIsNat DEF clear_sbuf, SbufInv

LEMMA EmitStep ==
  ASSUME SbufInv, NEW c \in Byte, sbuf_emit(c)
  PROVE  SbufInv'
<1> DEFINE k == offset
<1>1. accepted \in Seq(Byte) /\ k = Len(accepted) /\ k \in Nat /\ k + 1 <= limit
  BY LimitIsNat DEF SbufInv, sbuf_emit
<1>2. accepted' = Append(accepted, c) /\ offset' = k + 1
  BY DEF sbuf_emit
<1>3. buf' = [buf EXCEPT ![k] = c, ![k + 1] = NUL] /\ DOMAIN buf = 0 .. limit
  BY DEF SbufInv, sbuf_emit
<1> HIDE DEF k
<1>4. accepted' \in Seq(Byte) /\ Len(accepted') = k + 1 /\ accepted'[k + 1] = c
  BY <1>1, <1>2
<1>5. \A i \in 1 .. k : accepted'[i] = accepted[i]
  BY <1>1, <1>2
<1>6. DOMAIN buf' = 0 .. limit /\ buf'[k + 1] = NUL /\ buf'[k] = c
  BY <1>1, <1>3, LimitIsNat
<1>7. \A j \in 0 .. k - 1 : buf'[j] = buf[j]
  BY <1>1, <1>3, LimitIsNat
<1>8. \A i \in 1 .. k : buf[i - 1] = accepted[i]
  <2>1. CASE clean
    BY <1>1, <2>1 DEF SbufInv, StartsWith
  <2>2. CASE ~clean
    BY <1>1, <2>2 DEF SbufInv
  <2> QED
    BY <2>1, <2>2
<1>9. \A i \in 1 .. k + 1 : buf'[i - 1] = accepted'[i]
  <2> SUFFICES ASSUME NEW i \in 1 .. k + 1 PROVE buf'[i - 1] = accepted'[i]
    OBVIOUS
  <2>1. CASE i = k + 1
    <3>1. i - 1 = k
      BY <1>1, <2>1
    <3> QED
      BY <1>4, <1>6, <2>1, <3>1
  <2>2. CASE i # k + 1
    <3>1. i \in 1 .. k /\ i - 1 \in 0 .. k - 1
      BY <1>1, <2>2
    <3> QED
      BY <1>5, <1>7, <1>8, <3>1
  <2> QED
    BY <2>1, <2>2
<1>10. StartsWith(buf', accepted')
  BY <1>4, <1>6, <1>9 DEF StartsWith
<1> QED
  BY <1>1, <1>2, <1>4, <1>6, <1>10 DEF SbufInv, sbuf_emit

LEMMA PrefixIs ==
  ASSUME NEW s \in Seq(Byte), NEW n \in Nat
  PROVE  Prefix(s, n) \in Seq(Byte) /\ Len(Prefix(s, n)) <= n
<1>1. PICK m : m = IF n < Len(s) THEN n ELSE Len(s)
  OBVIOUS
<1>2. m \in 0 .. Len(s) /\ m <= n
  BY <1>1
<1>3. SubSeq(s, 1, m) \in Seq(Byte) /\ Len(SubSeq(s, 1, m)) = m
  BY <1>2, SubSeqProperties
<1>4. Prefix(s, n) = SubSeq(s, 1, m)
  BY <1>1 DEF Prefix
<1> HIDE DEF Prefix
<1> QED
  BY <1>2, <1>3, <1>4

LEMMA EmitsStep ==
  ASSUME SbufInv, NEW string \in Strings, NEW most \in Lengths, sbuf_emits(string, most)
  PROVE  SbufInv'
<1> DEFINE k == offset
           s == Prefix(string, most)
<1>0. s \in Seq(Byte) /\ Len(s) <= most /\ most \in Nat
  BY PrefixIs, SbufAssumption
<1>1. PICK n \in Nat : n = Len(s)
  BY <1>0
<1>2. accepted \in Seq(Byte) /\ k = Len(accepted) /\ k \in Nat /\ k + n < limit
  BY <1>0, <1>1, LimitIsNat DEF SbufInv, sbuf_emits
<1>3. accepted' = accepted \o s /\ offset' = k + n /\ s \in Seq(Byte)
  BY <1>0, <1>1 DEF sbuf_emits
<1>4. PICK end : end = k + n /\ end = offset + Len(s)
  BY <1>1
<1>5. buf' = [i \in 0 .. limit |->
                CASE i \in k .. end - 1 -> s[i - k + 1]
                  [] i = end -> NUL
                  [] OTHER -> buf[i]]
  BY <1>4 DEF sbuf_emits
<1> HIDE DEF s
<1>6. \A i \in 1 .. k : buf[i - 1] = accepted[i]
  <2>1. CASE clean
    BY <1>2, <2>1 DEF SbufInv, StartsWith
  <2>2. CASE ~clean
    BY <1>2, <2>2 DEF SbufInv
  <2> QED
    BY <2>1, <2>2
<1> HIDE DEF k
<1>7. accepted' \in Seq(Byte) /\ Len(accepted') = k + n
  BY <1>1, <1>2, <1>3
<1>8. \A i \in 1 .. k : accepted'[i] = accepted[i]
  BY <1>2, <1>3
<1>9. \A i \in 1 .. n : accepted'[k + i] = s[i]
  BY <1>1, <1>2, <1>3
<1>10. \A j \in 0 .. k - 1 : buf'[j] = buf[j]
  BY <1>1, <1>2, <1>5, <1>4, LimitIsNat
<1>11. \A j \in k .. k + n - 1 : buf'[j] = s[j - k + 1]
  BY <1>1, <1>2, <1>5, <1>4, LimitIsNat
<1>12. buf'[k + n] = NUL
  BY <1>1, <1>2, <1>5, <1>4, LimitIsNat
<1>13. \A i \in 1 .. k + n : buf'[i - 1] = accepted'[i]
  <2> SUFFICES ASSUME NEW i \in 1 .. k + n PROVE buf'[i - 1] = accepted'[i]
    OBVIOUS
  <2>1. CASE i <= k
    <3>1. i \in 1 .. k /\ i - 1 \in 0 .. k - 1
      BY <1>2, <2>1
    <3> QED
      BY <1>6, <1>8, <1>10, <3>1
  <2>2. CASE i > k
    <3>1. PICK j \in 1 .. n : i = k + j
      <4>1. i - k \in 1 .. n /\ i = k + (i - k)
        BY <1>1, <1>2, <2>2
      <4> QED
        BY <4>1
    <3>2. i - 1 \in k .. k + n - 1 /\ (i - 1) - k + 1 = j
      BY <1>1, <1>2, <3>1
    <3> QED
      BY <1>9, <1>11, <3>1, <3>2
  <2> QED
    BY <1>2, <2>1, <2>2
<1>14. StartsWith(buf', accepted')
  BY <1>7, <1>12, <1>13 DEF StartsWith
<1>15. DOMAIN buf' = 0 .. limit
  BY <1>5
<1>16. limit' = limit /\ clean' = TRUE
  BY DEF limit, sbuf_emits
<1>17. offset' = Len(accepted') /\ offset' <= limit
  BY <1>1, <1>2, <1>3, <1>7, LimitIsNat DEF k
<1> QED
  BY <1>7, <1>14, <1>15, <1>16, <1>17 DEF SbufInv

LEMMA SbufStep ==
  ASSUME SbufInv, [SbufNext]_sbufVars
  PROVE  SbufInv'
<1>1. CASE UNCHANGED sbufVars
  BY <1>1 DEF sbufVars, SbufInv, StartsWith
<1> QED
  BY <1>1, ClearStep, EmitStep, EmitsStep DEF SbufNext

(* The inductive invariant of the buffers.                                 *)
THEOREM BufferInvariant == SbufSpec => []SbufInv
BY SbufStart, SbufStep, PTL DEF SbufSpec

(* A buffer of any size holds what was accepted, as a string that ends     *)
(* inside the buffer, however much more was emitted (sbuf_emit and         *)
(* sbuf_emits).                                                            *)
THEOREM BuffersHoldAccepted == SbufSpec => []HoldsAccepted
<1>1. SbufInv => HoldsAccepted
  <2> SUFFICES ASSUME SbufInv, clean
               PROVE  (\E n \in 0 .. limit : buf[n] = NUL) /\ SbufText = accepted
                      /\ offset = Len(accepted)
    BY DEF HoldsAccepted
  <2>1. accepted \in Seq(Byte) /\ Len(accepted) <= limit /\ StartsWith(buf, accepted)
    BY DEF SbufInv
  <2> QED
    BY <2>1, TextRead DEF SbufInv
<1> QED
  BY <1>1, BufferInvariant, PTL

-----------------------------------------------------------------------------
(* The lines of the sample program.                                        *)

Tick == <<"time_ticker", "tick">>

(* All messages of the start, in the order in which they are delivered.    *)
Script ==
  <<<<"say_hello", "World!">>, <<"say_hello", "42">>, Tick,
    <<"print_text", Greeting[1]>>, <<"print_text", Greeting[2]>>, <<"print_text", Greeting[3]>>,
    <<"print_line", "World!">>,
    <<"print_text", Greeting[1]>>, <<"print_text", Greeting[2]>>, <<"print_text", Greeting[3]>>,
    <<"print_line", "42">>>>

Messages == {Script[i] : i \in 1 .. 11}

(* The messages number k to e of the start are on the queue q.             *)
Window(q, k, e) ==
  /\ q \in Seq(Messages)
  /\ Len(q) = e + 1 - k
  /\ \A i \in 1 .. Len(q) : q[i] = Script[k + i - 1]

(* The last message that was sent when number k is the next.               *)
Sent(k) == CASE k = 1 -> 3 [] k = 2 -> 7 [] OTHER -> 11

(* How many of the three parts of a greeting are printed.                  *)
Printed(k) == CASE k \in {5, 9} -> 1 [] k \in {6, 10} -> 2 [] k \in {7, 11} -> 3 [] OTHER -> 0

Part(n) == SubSeq(Greeting, 1, n)

StartingAt(k) ==
  /\ Window(queue, k, Sent(k))
  /\ line = Part(Printed(k))
  /\ IF k <= 3 THEN nap = None ELSE nap = Naps
  /\ pc = "dispatch" \/ (pc = "clock" /\ k = 1)

Starting == \E k \in 1 .. 11 : StartingAt(k)

(* Then there is the tick, queued or delayed.                              *)
Ticking ==
  /\ line = << >>
  /\ \/ queue = <<Tick>> /\ nap = None /\ pc = "dispatch"
     \/ queue = << >> /\ nap \in 0 .. Naps /\ pc \in {"clock", "dispatch"}

SampleInv ==
  /\ tick \in Second
  /\ sunk = {}
  /\ sample_done = FALSE
  /\ Starting \/ Ticking

LEMMA Constants == Naps \in Nat \ {0} /\ Second \subseteq Nat /\ None \notin Nat
BY SampleAssumption DEF None

(* No guard of sample.c finds the actor that it asks for.                  *)
LEMMA NoneFound == ~FoundCons("each_second") /\ ~FoundCons("time_ticker")
BY DEF FoundCons, TypeOf, Actor

LEMMA PartIs ==
  /\ Part(0) = << >>
  /\ Part(3) = Greeting
  /\ \A n \in 0 .. 2 : Append(Part(n), Greeting[n + 1]) = Part(n + 1)
<1>1. PICK S : Greeting \in Seq(S)
  <2>1. Greeting \in Seq({Greeting[1], Greeting[2], Greeting[3]})
    BY DEF Greeting
  <2> QED
    BY <2>1
<1>2. Len(Greeting) = 3
  BY DEF Greeting
<1>3. Part(0) = << >>
  BY <1>1, <1>2 DEF Part
<1>4. Part(3) = Greeting
  BY <1>1, <1>2 DEF Part
<1>5. ASSUME NEW n \in 0 .. 2
      PROVE  Append(Part(n), Greeting[n + 1]) = Part(n + 1)
  BY <1>1, <1>2 DEF Part
<1> QED
  BY <1>3, <1>4, <1>5

LEMMA ScriptIs ==
  /\ Script[1] = <<"say_hello", "World!">> /\ Script[2] = <<"say_hello", "42">> /\ Script[3] = Tick
  /\ Script[4] = <<"print_text", Greeting[1]>> /\ Script[8] = <<"print_text", Greeting[1]>>
  /\ Script[5] = <<"print_text", Greeting[2]>> /\ Script[9] = <<"print_text", Greeting[2]>>
  /\ Script[6] = <<"print_text", Greeting[3]>> /\ Script[10] = <<"print_text", Greeting[3]>>
  /\ Script[7] = <<"print_line", "World!">> /\ Script[11] = <<"print_line", "42">>
<1>2. Script[1] = <<"say_hello", "World!">> /\ Script[2] = <<"say_hello", "42">> /\ Script[3] = Tick
  BY DEF Script
<1>3. Script[4] = <<"print_text", Greeting[1]>> /\ Script[8] = <<"print_text", Greeting[1]>>
  BY DEF Script
<1>4. Script[5] = <<"print_text", Greeting[2]>> /\ Script[9] = <<"print_text", Greeting[2]>>
  BY DEF Script
<1>5. Script[6] = <<"print_text", Greeting[3]>> /\ Script[10] = <<"print_text", Greeting[3]>>
  BY DEF Script
<1>6. Script[7] = <<"print_line", "World!">> /\ Script[11] = <<"print_line", "42">>
  BY DEF Script
<1> QED
  BY <1>2, <1>3, <1>4, <1>5, <1>6

(* The oldest message goes and others follow.                              *)
LEMMA NextWindow ==
  ASSUME NEW k \in 1 .. 11, NEW e \in k .. 11, Window(queue, k, e),
         NEW new \in Seq(Messages), \A i \in 1 .. Len(new) : new[i] = Script[e + i]
  PROVE  /\ queue # << >> /\ Head(queue) = Script[k]
         /\ Window(Tail(queue) \o new, k + 1, e + Len(new))
<1> DEFINE all == Tail(queue) \o new
<1>1. queue \in Seq(Messages) /\ Len(queue) = e + 1 - k /\ Len(queue) >= 1
  <2>1. queue \in Seq(Messages) /\ Len(queue) = e + 1 - k
    BY DEF Window
  <2>2. e + 1 - k >= 1
    OBVIOUS
  <2> QED
    BY <2>1, <2>2
<1>2. PICK n \in Nat : n = Len(new)
  OBVIOUS
<1>3. PICK m \in Nat : m = e - k
  OBVIOUS
<1>4. Tail(queue) \in Seq(Messages) /\ Len(Tail(queue)) = m
      /\ \A i \in 1 .. m : Tail(queue)[i] = queue[i + 1]
  BY <1>1, <1>3
<1>5. all \in Seq(Messages) /\ Len(all) = m + n
      /\ (\A i \in 1 .. m : all[i] = queue[i + 1]) /\ (\A i \in 1 .. n : all[m + i] = new[i])
  <2>1. PICK rest \in Seq(Messages) : rest = Tail(queue) /\ Len(rest) = m
    BY <1>4
  <2>2. rest \o new \in Seq(Messages) /\ Len(rest \o new) = m + n
    BY <1>2, <2>1
  <2>3. \A i \in 1 .. m : (rest \o new)[i] = rest[i]
    BY <1>2, <2>1
  <2>4. ASSUME NEW i \in 1 .. n
        PROVE  (rest \o new)[m + i] = new[i]
    <3>1. PICK j \in Nat : j = m + i /\ j \in 1 .. m + n /\ j > m /\ j - m = i
      OBVIOUS
    <3>2. (rest \o new)[j] = new[j - m]
      BY <1>2, <2>1, <3>1
    <3> QED
      BY <3>1, <3>2
  <2>5. \A i \in 1 .. m : rest[i] = queue[i + 1]
    BY <1>4, <2>1
  <2> QED
    BY <2>1, <2>2, <2>3, <2>4, <2>5
<1> HIDE DEF all
<1>6. ASSUME NEW i \in 1 .. Len(all)
      PROVE  all[i] = Script[(k + 1) + i - 1]
  <2>1. CASE i <= m
    <3>1. i + 1 \in 1 .. Len(queue) /\ k + (i + 1) - 1 = (k + 1) + i - 1
      BY <1>1, <1>3, <2>1
    <3>2. queue[i + 1] = Script[k + (i + 1) - 1]
      BY <3>1 DEF Window
    <3> QED
      BY <1>5, <2>1, <3>1, <3>2
  <2>2. CASE i > m
    <3>1. PICK j \in 1 .. n : i = m + j
      <4>1. i - m \in 1 .. n /\ i = m + (i - m)
        BY <1>5, <2>2
      <4> QED
        BY <4>1
    <3>2. (k + 1) + i - 1 = e + j
      BY <1>3, <3>1
    <3>3. all[i] = new[j]
      BY <1>5, <3>1
    <3> QED
      BY <1>2, <3>1, <3>2, <3>3
  <2> QED
    BY <1>5, <2>1, <2>2
<1>7. Len(all) = (e + Len(new)) + 1 - (k + 1)
  BY <1>2, <1>3, <1>5
<1>8. Window(all, k + 1, e + Len(new))
  BY <1>5, <1>6, <1>7 DEF Window
<1>9. Head(queue) = Script[k]
  <2>1. 1 \in 1 .. Len(queue) /\ k + 1 - 1 = k /\ Head(queue) = queue[1]
    BY <1>1
  <2> QED
    BY <2>1 DEF Window
<1> QED
  BY <1>1, <1>8, <1>9 DEF all

(* Nothing is sent.                                                        *)
LEMMA NoMore == << >> \in Seq(Messages) /\ Len(<< >>) = 0 /\ \A e : \A i \in 1 .. Len(<< >>) : << >>[i] = Script[e + i]
OBVIOUS

LEMMA OldestIs ==
  ASSUME NEW k \in 1 .. 11, NEW e \in k .. 11, Window(queue, k, e)
  PROVE  queue # << >> /\ Head(queue) = Script[k]
BY NoMore, NextWindow

LEMMA HandleIs ==
  ASSUME SampleInv, NEW actor, NEW content, Handle(actor, content)
  PROVE  /\ actor = "say_hello" => say_hello(content)
         /\ actor = "print_text" => print_text(content)
         /\ actor = "print_line" => print_line
         /\ actor = "time_ticker" /\ content # "stop" => time_ticker
<1>1. actor \notin sunk
  BY DEF SampleInv
<1>2. actor = "say_hello" => say_hello(content)
  BY <1>1 DEF Handle
<1>3. actor = "print_text" => print_text(content)
  BY <1>1 DEF Handle
<1>4. actor = "print_line" => print_line
  BY <1>1 DEF Handle
<1>5. actor = "time_ticker" /\ content # "stop" => time_ticker
  BY <1>1 DEF Handle
<1> QED
  BY <1>2, <1>3, <1>4, <1>5

LEMMA Delivered ==
  ASSUME Dispatch, NEW actor, NEW content, Head(queue) = <<actor, content>>
  PROVE  pc = "dispatch" /\ pc' = pc /\ Handle(actor, content)
<1>1. Head(queue)[1] = actor /\ Head(queue)[2] = content
  OBVIOUS
<1>2. Handle(Head(queue)[1], Head(queue)[2])
  BY DEF Dispatch
<1>3. Handle(actor, content)
  BY <1>1, <1>2
<1> QED
  BY <1>3 DEF Dispatch

LEMMA SampleStart == SampleInit => SampleInv
<1> SUFFICES ASSUME SampleInit PROVE SampleInv
  OBVIOUS
<1>1. queue = <<Script[1], Script[2], Script[3]>>
  BY ScriptIs DEF SampleInit, Tick
<1> HIDE DEF SampleInit
<1>2. Window(queue, 1, 3)
  <2>1. queue \in Seq(Messages)
    <3>1. Script[1] \in Messages /\ Script[2] \in Messages /\ Script[3] \in Messages
      BY DEF Messages
    <3> QED
      BY <1>1, <3>1
  <2>2. Len(queue) = 3 /\ \A i \in 1 .. 3 : queue[i] = Script[1 + i - 1]
    BY <1>1
  <2> QED
    BY <2>1, <2>2 DEF Window
<1>3. Starting
  <2>1. 1 \in 1 .. 11 /\ 3 = Sent(1) /\ Printed(1) = 0
    BY DEF Sent, Printed
  <2> QED
    BY <1>2, <2>1, PartIs DEF SampleInit, Starting, StartingAt
<1> QED
  BY <1>3 DEF SampleInit, SampleInv

(* A step of the start, in terms of what it does to the state.             *)
LEMMA StartStep ==
  ASSUME SampleInv,
         NEW k \in 1 .. 10, StartingAt(k),
         NEW new \in Seq(Messages), \A i \in 1 .. Len(new) : new[i] = Script[Sent(k) + i],
         Sent(k) + Len(new) = Sent(k + 1),
         queue' = Rest(new), pc' = "dispatch",
         line' = Part(Printed(k + 1)),
         nap' = IF k = 3 THEN Naps ELSE nap, tick' \in Second,
         UNCHANGED <<sunk, sample_done>>
  PROVE  SampleInv'
<1>1. PICK e \in k .. 11 : e = Sent(k) /\ k \in 1 .. 11 /\ k + 1 \in 1 .. 11
  BY DEF Sent
<1>2. Window(queue', k + 1, Sent(k + 1))
  <2>1. Window(Tail(queue) \o new, k + 1, e + Len(new))
    BY <1>1, NextWindow DEF StartingAt
  <2> QED
    BY <1>1, <2>1 DEF Rest
<1>3. IF k + 1 <= 3 THEN nap' = None ELSE nap' = Naps
  BY DEF StartingAt
<1>4. StartingAt(k + 1)'
  BY <1>2, <1>3 DEF StartingAt
<1>5. Starting'
  BY <1>1, <1>4 DEF Starting
<1> QED
  BY <1>5 DEF SampleInv

(* What a greeting is made of.                                             *)
GreetingTo(name) == [i \in 1 .. 3 |-> <<"print_text", Greeting[i]>>] \o <<<<"print_line", name>>>>

(* Sequences of four, whatever the elements are.                           *)
LEMMA ThreeAndOne ==
  ASSUME NEW f, NEW last, NEW s, s = [i \in 1 .. 3 |-> f[i]] \o <<last>>
  PROVE  /\ Len(s) = 4 /\ s[1] = f[1] /\ s[2] = f[2] /\ s[3] = f[3] /\ s[4] = last
         /\ s \in Seq({f[1], f[2], f[3], last})
<1> DEFINE S == {f[1], f[2], f[3], last}
<1>1. \A i \in 1 .. 3 : i = 1 \/ i = 2 \/ i = 3
  OBVIOUS
<1>2. PICK three \in Seq(S) : three = [i \in 1 .. 3 |-> f[i]] /\ Len(three) = 3
  <2>1. \A i \in 1 .. 3 : f[i] \in S
    BY <1>1
  <2> HIDE DEF S
  <2>2. [i \in 1 .. 3 |-> f[i]] \in Seq(S) /\ Len([i \in 1 .. 3 |-> f[i]]) = 3
    BY <2>1
  <2> QED
    BY <2>2
<1>3. PICK one \in Seq(S) : one = <<last>> /\ Len(one) = 1 /\ one[1] = last
  <2>1. last \in S
    OBVIOUS
  <2> HIDE DEF S
  <2>2. <<last>> \in Seq(S) /\ Len(<<last>>) = 1 /\ <<last>>[1] = last
    BY <2>1
  <2> QED
    BY <2>2
<1>4. three[1] = f[1] /\ three[2] = f[2] /\ three[3] = f[3]
  BY <1>2
<1> HIDE DEF S
<1>5. three \o one \in Seq(S) /\ Len(three \o one) = 4
  BY <1>2, <1>3
<1>6. \A i \in 1 .. 3 : (three \o one)[i] = three[i]
  BY <1>2, <1>3
<1>7. (three \o one)[4] = one[1]
  BY <1>2, <1>3
<1> QED
  BY <1>2, <1>3, <1>4, <1>5, <1>6, <1>7 DEF S

LEMMA GreetingIs ==
  ASSUME NEW e \in {3, 7}, NEW name, name = IF e = 3 THEN "World!" ELSE "42"
  PROVE  /\ GreetingTo(name) \in Seq(Messages)
         /\ Len(GreetingTo(name)) = 4
         /\ \A i \in 1 .. 4 : GreetingTo(name)[i] = Script[e + i]
<1> DEFINE s == GreetingTo(name)
<1>3. PICK m1, m2, m3, m4 :
        /\ m1 = <<"print_text", Greeting[1]>> /\ m2 = <<"print_text", Greeting[2]>>
        /\ m3 = <<"print_text", Greeting[3]>> /\ m4 = <<"print_line", name>>
  OBVIOUS
<1>4. Len(s) = 4 /\ s[1] = m1 /\ s[2] = m2 /\ s[3] = m3 /\ s[4] = m4 /\ s \in Seq({m1, m2, m3, m4})
  <2>1. PICK f : f = [i \in 1 .. 3 |-> <<"print_text", Greeting[i]>>]
    OBVIOUS
  <2>2. f[1] = m1 /\ f[2] = m2 /\ f[3] = m3
    BY <1>3, <2>1
  <2>3. f = [i \in 1 .. 3 |-> f[i]]
    BY <2>1
  <2>4. s = [i \in 1 .. 3 |-> f[i]] \o <<m4>>
    BY <1>3, <2>1, <2>3 DEF GreetingTo
  <2> HIDE DEF s
  <2>5. Len(s) = 4 /\ s[1] = f[1] /\ s[2] = f[2] /\ s[3] = f[3] /\ s[4] = m4
        /\ s \in Seq({f[1], f[2], f[3], m4})
    BY <2>4, ThreeAndOne
  <2> QED
    BY <2>2, <2>5
<1>5. m1 = Script[e + 1]
  <2>1. CASE e = 3
    <3>1. e + 1 = 4
      BY <2>1
    <3> QED
      BY <1>3, <3>1, ScriptIs
  <2>2. CASE e = 7
    <3>1. e + 1 = 8
      BY <2>2
    <3> QED
      BY <1>3, <3>1, ScriptIs
  <2> QED
    BY <2>1, <2>2
<1>6. m2 = Script[e + 2]
  <2>1. CASE e = 3
    <3>1. e + 2 = 5
      BY <2>1
    <3> QED
      BY <1>3, <3>1, ScriptIs
  <2>2. CASE e = 7
    <3>1. e + 2 = 9
      BY <2>2
    <3> QED
      BY <1>3, <3>1, ScriptIs
  <2> QED
    BY <2>1, <2>2
<1>7. m3 = Script[e + 3]
  <2>1. CASE e = 3
    <3>1. e + 3 = 6
      BY <2>1
    <3> QED
      BY <1>3, <3>1, ScriptIs
  <2>2. CASE e = 7
    <3>1. e + 3 = 10
      BY <2>2
    <3> QED
      BY <1>3, <3>1, ScriptIs
  <2> QED
    BY <2>1, <2>2
<1>8. m4 = Script[e + 4]
  BY <1>3, ScriptIs
<1> HIDE DEF s
<1>9. \A i \in 1 .. 4 : s[i] = Script[e + i]
  <2> SUFFICES ASSUME NEW i \in 1 .. 4 PROVE s[i] = Script[e + i]
    OBVIOUS
  <2>1. i = 1 \/ i = 2 \/ i = 3 \/ i = 4
    OBVIOUS
  <2> QED
    BY <1>4, <1>5, <1>6, <1>7, <1>8, <2>1
<1>10. {m1, m2, m3, m4} \subseteq Messages
  <2>1. \A i \in 1 .. 4 : e + i \in 1 .. 11
    OBVIOUS
  <2> QED
    BY <1>5, <1>6, <1>7, <1>8, <2>1 DEF Messages
<1>11. s \in Seq(Messages)
  BY <1>4, <1>10
<1> QED
  BY <1>4, <1>9, <1>11 DEF s

LEMMA SayHello ==
  ASSUME SampleInv, Dispatch, NEW k \in {1, 2}, StartingAt(k)
  PROVE  SampleInv'
<1> DEFINE name == IF k = 1 THEN "World!" ELSE "42"
<1>1. PICK e : e = Sent(k) /\ e = (IF k = 1 THEN 3 ELSE 7) /\ e \in {3, 7} /\ e \in k .. 11 /\ k \in 1 .. 11
               /\ k \in 1 .. 10
  BY DEF Sent
<1>2. Head(queue) = <<"say_hello", name>>
  <2>2. Head(queue) = Script[k]
    BY <1>1, OldestIs DEF StartingAt
  <2>3. CASE k = 1
    BY <2>2, <2>3, ScriptIs
  <2>4. CASE k = 2
    BY <2>2, <2>4, ScriptIs
  <2> QED
    BY <2>3, <2>4
<1>3. pc = "dispatch" /\ pc' = pc /\ say_hello(name)
  BY <1>2, Delivered, HandleIs
<1>4. queue' = Rest(GreetingTo(name)) /\ UNCHANGED <<nap, tick, line, sunk, sample_done>>
  BY <1>3 DEF say_hello, GreetingTo
<1>5. /\ GreetingTo(name) \in Seq(Messages)
      /\ Len(GreetingTo(name)) = 4
      /\ \A i \in 1 .. 4 : GreetingTo(name)[i] = Script[e + i]
  BY <1>1, GreetingIs
<1>6. Printed(k) = Printed(k + 1) /\ e + 4 = Sent(k + 1)
  BY <1>1 DEF Printed, Sent
<1>7. nap' = IF k = 3 THEN Naps ELSE nap
  BY <1>4
<1> HIDE DEF name
<1> QED
  BY <1>1, <1>3, <1>4, <1>5, <1>6, <1>7, StartStep DEF StartingAt, SampleInv

(* Nothing is sent, by any message but the greetings.                      *)
LEMMA QuietStep ==
  ASSUME SampleInv,
         NEW k \in 3 .. 10, StartingAt(k),
         queue' = Rest(<< >>), pc' = "dispatch",
         line' = Part(Printed(k + 1)),
         nap' = IF k = 3 THEN Naps ELSE nap, tick' \in Second,
         UNCHANGED <<sunk, sample_done>>
  PROVE  SampleInv'
<1>1. Sent(k) + Len(<< >>) = Sent(k + 1) /\ k \in 1 .. 10
  BY DEF Sent
<1> QED
  BY <1>1, NoMore, StartStep

(* The guard does not find each_second.                                    *)
LEMMA TickerIs ==
  ASSUME time_ticker
  PROVE  /\ queue' = Rest(<< >>) /\ tick' \in Second /\ nap' = Naps
         /\ UNCHANGED <<sunk, line, sample_done>>
BY NoneFound DEF time_ticker

LEMMA FirstTick ==
  ASSUME SampleInv, Dispatch, StartingAt(3)
  PROVE  SampleInv'
<1>1. PICK k \in 3 .. 10 : k = 3 /\ StartingAt(k) /\ Sent(k) \in k .. 11 /\ k \in 1 .. 11
  BY DEF Sent
<1>2. Head(queue) = Tick
  <2>1. Head(queue) = Script[k]
    BY <1>1, OldestIs DEF StartingAt
  <2> QED
    BY <1>1, <2>1, ScriptIs
<1>3. pc = "dispatch" /\ pc' = pc /\ time_ticker
  BY <1>2, Delivered, HandleIs DEF Tick
<1>4. Printed(k) = Printed(k + 1)
  BY <1>1 DEF Printed
<1> QED
  BY <1>1, <1>3, <1>4, TickerIs, QuietStep DEF StartingAt

LEMMA PrintText ==
  ASSUME SampleInv, Dispatch, NEW k \in {4, 5, 6, 8, 9, 10}, StartingAt(k)
  PROVE  SampleInv'
<1> DEFINE n == Printed(k)
<1>1. Sent(k) \in k .. 11 /\ k \in 1 .. 11 /\ k \in 3 .. 10
  BY DEF Sent
<1>2. n \in {0, 1, 2} /\ Printed(k + 1) = n + 1
  BY DEF Printed
<1>3. Head(queue) = <<"print_text", Greeting[n + 1]>>
  <2>1. Head(queue) = Script[k]
    BY <1>1, OldestIs DEF StartingAt
  <2>2. Script[k] = <<"print_text", Greeting[n + 1]>>
    BY ScriptIs DEF Printed
  <2> QED
    BY <2>1, <2>2
<1>4. pc = "dispatch" /\ pc' = pc /\ print_text(Greeting[n + 1])
  BY <1>3, Delivered, HandleIs
<1>5. /\ queue' = Rest(<< >>) /\ line' = Append(line, Greeting[n + 1])
      /\ UNCHANGED <<nap, tick, sunk, sample_done>>
  BY <1>4 DEF print_text
<1>6. Append(Part(n), Greeting[n + 1]) = Part(n + 1)
  BY <1>2, PartIs
<1>7. line' = Part(Printed(k + 1))
  BY <1>2, <1>5, <1>6 DEF StartingAt
<1>8. nap' = (IF k = 3 THEN Naps ELSE nap) /\ tick' \in Second
  BY <1>5 DEF SampleInv
<1> HIDE DEF n
<1> QED
  BY <1>1, <1>4, <1>5, <1>7, <1>8, QuietStep

(* A greeting is complete, and the other one begins.                       *)
LEMMA FirstLine ==
  ASSUME SampleInv, Dispatch, StartingAt(7)
  PROVE  SampleInv'
<1>1. PICK k \in 3 .. 10 : k = 7 /\ StartingAt(k) /\ Sent(k) \in k .. 11 /\ k \in 1 .. 11
  BY DEF Sent
<1>2. Head(queue) = <<"print_line", "World!">>
  <2>1. Head(queue) = Script[k]
    BY <1>1, OldestIs DEF StartingAt
  <2> QED
    BY <1>1, <2>1, ScriptIs
<1>3. pc = "dispatch" /\ pc' = pc /\ print_line
  BY <1>2, Delivered, HandleIs
<1>4. queue' = Rest(<< >>) /\ line' = << >> /\ UNCHANGED <<nap, tick, sunk, sample_done>>
  BY <1>3 DEF print_line
<1>5. line' = Part(Printed(k + 1))
  <2>1. Printed(k + 1) = 0
    BY <1>1 DEF Printed
  <2> QED
    BY <1>4, <2>1, PartIs
<1>6. nap' = (IF k = 3 THEN Naps ELSE nap) /\ tick' \in Second
  BY <1>1, <1>4 DEF SampleInv
<1> QED
  BY <1>1, <1>3, <1>4, <1>5, <1>6, QuietStep

(* The same for the last message of the start.                             *)
LEMMA LastLine ==
  ASSUME SampleInv, Dispatch, StartingAt(11)
  PROVE  SampleInv'
<1>1. PICK k \in 1 .. 11 : k = 11 /\ Window(queue, k, 11) /\ StartingAt(k)
  BY DEF StartingAt, Sent
<1>2. Head(queue) = <<"print_line", "42">>
  <2>1. Head(queue) = Script[k]
    BY <1>1, OldestIs
  <2> QED
    BY <1>1, <2>1, ScriptIs
<1>3. pc = "dispatch" /\ pc' = pc /\ print_line
  BY <1>2, Delivered, HandleIs
<1>4. queue' = Rest(<< >>) /\ line' = << >> /\ UNCHANGED <<nap, tick, sunk, sample_done>>
  BY <1>3 DEF print_line
<1>5. queue' = << >>
  <2>1. PICK e \in k .. 11 : e = 11 /\ Window(queue, k, e)
    BY <1>1
  <2>2. << >> \in Seq(Messages) /\ \A i \in 1 .. Len(<< >>) : << >>[i] = Script[e + i]
    BY NoMore
  <2>3. Window(Tail(queue) \o << >>, k + 1, e + Len(<< >>))
    BY <2>1, <2>2, NextWindow
  <2>4. e + Len(<< >>) + 1 - (k + 1) = 0
    BY <1>1, <2>1
  <2>5. queue' \in Seq(Messages) /\ Len(queue') = 0
    BY <1>4, <2>3, <2>4 DEF Rest, Window
  <2> QED
    BY <2>5
<1>6. nap' \in 0 .. Naps
  BY <1>1, <1>4, Constants DEF StartingAt
<1> QED
  BY <1>3, <1>4, <1>5, <1>6 DEF SampleInv, Ticking

LEMMA StartingStep == SampleInv /\ Starting /\ Dispatch => SampleInv'
<1> SUFFICES ASSUME SampleInv, Starting, Dispatch
             PROVE  SampleInv'
  OBVIOUS
<1>1. PICK k \in 1 .. 11 : StartingAt(k)
  BY DEF Starting
<1>2. CASE k \in {1, 2}
  BY <1>1, <1>2, SayHello
<1>3. CASE k = 3
  BY <1>1, <1>3, FirstTick
<1>4. CASE k \in {4, 5, 6, 8, 9, 10}
  BY <1>1, <1>4, PrintText
<1>5. CASE k = 7
  BY <1>1, <1>5, FirstLine
<1>6. CASE k = 11
  BY <1>1, <1>6, LastLine
<1> QED
  BY <1>2, <1>3, <1>4, <1>5, <1>6

(* The only message is that of the ticker.                                 *)
LEMMA TickingStep == SampleInv /\ Ticking /\ Dispatch => SampleInv'
<1> SUFFICES ASSUME SampleInv, Ticking, Dispatch
             PROVE  SampleInv'
  OBVIOUS
<1>1. queue = <<Tick>> /\ line = << >>
  BY DEF Ticking, Dispatch
<1>2. Head(queue) = Tick /\ Tail(queue) = << >>
  BY <1>1
<1>3. pc = "dispatch" /\ pc' = pc /\ time_ticker
  BY <1>2, Delivered, HandleIs DEF Tick
<1>4. queue' = << >>
  <2>1. queue' = Tail(queue) \o << >>
    BY <1>3, TickerIs DEF Rest
  <2>2. << >> \o << >> = << >>
    OBVIOUS
  <2> QED
    BY <1>2, <2>1, <2>2
<1>5. nap' \in 0 .. Naps /\ tick' \in Second /\ UNCHANGED <<sunk, line, sample_done>>
  BY <1>3, TickerIs, Constants
<1> QED
  BY <1>1, <1>3, <1>4, <1>5 DEF SampleInv, Ticking

(* The queue is not empty at the start.                                    *)
LEMMA StartIsBusy == Starting => queue # << >> /\ (pc = "clock" => nap # 0)
<1> SUFFICES ASSUME NEW k \in 1 .. 11, StartingAt(k)
             PROVE  queue # << >> /\ (pc = "clock" => nap # 0)
  BY DEF Starting
<1>1. Sent(k) \in k .. 11
  BY DEF Sent
<1>2. queue # << >>
  BY <1>1, OldestIs DEF StartingAt
<1>3. pc = "clock" => nap = None
  BY DEF StartingAt
<1> QED
  BY <1>2, <1>3 DEF None

(* The clock, or nothing at all, has been looked at at the start.          *)
LEMMA StartingOn ==
  ASSUME Starting, UNCHANGED <<queue, line, nap>>, pc' = "dispatch" \/ pc' = pc
  PROVE  Starting'
<1>1. PICK k \in 1 .. 11 : StartingAt(k)
  BY DEF Starting
<1>2. Window(queue', k, Sent(k))
  BY <1>1 DEF StartingAt
<1>3. StartingAt(k)'
  BY <1>1, <1>2 DEF StartingAt
<1> QED
  BY <1>3 DEF Starting

LEMMA ClockStep == SampleInv /\ ClockTick => SampleInv'
<1> SUFFICES ASSUME SampleInv, ClockTick
             PROVE  SampleInv'
  OBVIOUS
<1>1. pc = "clock" /\ pc' = "dispatch" /\ UNCHANGED <<tick, sunk, line, sample_done>>
  BY DEF ClockTick
<1>2. CASE Starting
  <2>1. UNCHANGED <<nap, queue>>
    BY <1>1, <1>2, StartIsBusy DEF ClockTick
  <2> QED
    BY <1>1, <1>2, <2>1, StartingOn DEF SampleInv
<1>3. CASE Ticking
  <2>1. queue = << >> /\ nap \in 0 .. Naps /\ line = << >>
    BY <1>1, <1>3 DEF Ticking
  <2>2. CASE nap = 0
    <3>1. nap' = None /\ queue' = <<Tick>>
      BY <2>1, <2>2 DEF ClockTick, Tick
    <3> QED
      BY <1>1, <2>1, <3>1 DEF SampleInv, Ticking
  <2>3. CASE nap # 0
    <3>1. UNCHANGED <<nap, queue>>
      BY <2>3 DEF ClockTick
    <3> QED
      BY <1>1, <2>1, <3>1 DEF SampleInv, Ticking
  <2> QED
    BY <2>2, <2>3
<1> QED
  BY <1>2, <1>3 DEF SampleInv

LEMMA SleepStep == SampleInv /\ Sleep => SampleInv'
<1> SUFFICES ASSUME SampleInv, Sleep
             PROVE  SampleInv'
  OBVIOUS
<1>1. /\ queue = << >> /\ pc = "dispatch" /\ (nap' \in IF nap > 0 THEN 0 .. nap - 1 ELSE {nap})
      /\ UNCHANGED <<queue, tick, sunk, line, sample_done>>
  BY DEF Sleep
<1>2. Ticking
  BY <1>1, StartIsBusy DEF SampleInv
<1>3. pc' = "clock"
  BY <1>1 DEF Sleep, QueueLimit, SampleInv
<1>4. nap \in 0 .. Naps /\ line = << >>
  BY <1>1, <1>2 DEF Ticking
<1>5. nap' \in 0 .. Naps
  BY <1>1, <1>4, Constants
<1> QED
  BY <1>1, <1>3, <1>4, <1>5 DEF SampleInv, Ticking

LEMMA SampleStay == SampleInv /\ UNCHANGED sampleVars => SampleInv'
<1> SUFFICES ASSUME SampleInv, UNCHANGED sampleVars
             PROVE  SampleInv'
  OBVIOUS
<1> USE DEF sampleVars
<1>1. CASE Starting
  BY <1>1, StartingOn DEF SampleInv
<1>2. CASE Ticking
  BY <1>2 DEF SampleInv, Ticking
<1> QED
  BY <1>1, <1>2 DEF SampleInv

LEMMA SampleStep == SampleInv /\ [SampleNext]_sampleVars => SampleInv'
BY StartingStep, TickingStep, ClockStep, SleepStep, SampleStay DEF SampleNext, SampleInv

(* The sample program starts with its first eleven messages, in their      *)
(* order, and then has only the tick, on the queue or delayed.             *)
THEOREM SampleInvariant == SampleSpec => []SampleInv
<1>1. SampleSpec => SampleInit /\ [][SampleNext]_sampleVars
  BY PTL DEF SampleSpec
<1> QED
  BY <1>1, SampleStart, SampleStep, PTL

(* Whatever the counter, the ticker is never stopped and the program is    *)
(* never told to end (sample.c, time_ticker; abe.c, the main loop).        *)
THEOREM NeverDone == SampleSpec => []~sample_done
<1>1. SampleInv => ~sample_done
  BY DEF SampleInv
<1> QED
  BY <1>1, SampleInvariant, PTL

(* The actors of the messages of the start.                                *)
LEMMA ScriptActors ==
  ASSUME NEW k \in 1 .. 11
  PROVE  /\ Script[k] = Tick <=> k = 3
         /\ Script[k][1] = "print_line" => k \in {7, 11}
<1>1. CASE k \in {1, 2}
  BY <1>1, ScriptIs DEF Tick
<1>2. CASE k = 3
  BY <1>2, ScriptIs DEF Tick
<1>3. CASE k \in {4, 5, 6, 8, 9, 10}
  BY <1>3, ScriptIs DEF Tick
<1>4. CASE k \in {7, 11}
  BY <1>4, ScriptIs DEF Tick
<1> QED
  BY <1>1, <1>2, <1>3, <1>4

LEMMA WholeInv == SampleInv => LinesWhole
<1> SUFFICES ASSUME SampleInv
             PROVE  LinesWhole
  OBVIOUS
<1>1. CASE Starting
  <2>1. PICK k \in 1 .. 11 : StartingAt(k)
    BY <1>1 DEF Starting
  <2>2. Sent(k) \in k .. 11 /\ Printed(k) \in 0 .. 3
    BY DEF Sent, Printed
  <2>3. line = Part(Printed(k)) /\ Head(queue) = Script[k]
    BY <2>1, <2>2, OldestIs DEF StartingAt
  <2>4. line \in {SubSeq(Greeting, 1, n) : n \in 0 .. 3}
    BY <2>2, <2>3 DEF Part
  <2>5. ASSUME Head(queue)[1] = "print_line"
        PROVE  line = Greeting
    <3>1. k \in {7, 11}
      BY <2>3, <2>5, ScriptActors
    <3>2. Printed(k) = 3
      BY <3>1 DEF Printed
    <3> QED
      BY <2>3, <3>2, PartIs
  <2> QED
    BY <2>4, <2>5 DEF LinesWhole
<1>2. CASE Ticking
  <2>1. line = << >> /\ (queue = << >> \/ Head(queue) = Tick)
    BY <1>2 DEF Ticking
  <2>2. line \in {SubSeq(Greeting, 1, n) : n \in 0 .. 3}
    <3>1. line = SubSeq(Greeting, 1, 0) /\ 0 \in 0 .. 3
      BY <2>1, PartIs DEF Part
    <3> QED
      BY <3>1
  <2> QED
    BY <2>1, <2>2 DEF LinesWhole, Tick
<1> QED
  BY <1>1, <1>2 DEF SampleInv

(* Greetings made of several messages are not mixed up with each other     *)
(* (sample.c, say_hello and print_text).                                   *)
THEOREM LinesAreWhole == SampleSpec => []LinesWhole
BY SampleInvariant, WholeInv, PTL

(* Counting a message in a queue where it is at one place.                 *)
LEMMA OneThere ==
  ASSUME NEW m, NEW at \in DOMAIN queue, \A i \in DOMAIN queue : queue[i] = m <=> i = at
  PROVE  Occurrences(m) = 1
<1>1. {i \in DOMAIN queue : queue[i] = m} = {at}
  OBVIOUS
<1> QED
  BY <1>1, FS_Singleton DEF Occurrences

(* The tick of the start.                                                  *)
LEMMA OccursAtStart ==
  ASSUME NEW k \in 1 .. 11, k = 3, StartingAt(k)
  PROVE  Occurrences(Tick) = 1
<1>1. /\ queue \in Seq(Messages) /\ Len(queue) = 9
      /\ \A i \in 1 .. Len(queue) : queue[i] = Script[k + i - 1]
  BY DEF StartingAt, Window, Sent
<1>2. DOMAIN queue = 1 .. 9
  BY <1>1
<1>3. \A i \in DOMAIN queue : queue[i] = Tick <=> i = 1
  <2> SUFFICES ASSUME NEW i \in 1 .. 9
               PROVE  queue[i] = Tick <=> i = 1
    BY <1>2
  <2>1. k + i - 1 \in 1 .. 11 /\ (k + i - 1 = 3 <=> i = 1)
    OBVIOUS
  <2>2. queue[i] = Script[k + i - 1]
    BY <1>1
  <2> QED
    BY <2>1, <2>2, ScriptActors
<1>4. 1 \in DOMAIN queue
  BY <1>2
<1> QED
  BY <1>3, <1>4, OneThere

(* The message of the ticker is in hand when its time is replaced, and it  *)
(* is the only one.                                                        *)
LEMMA OneTick ==
  ASSUME SampleInv, SampleNext, tick' # tick
  PROVE  TicksPending = 1 /\ pc = "dispatch" /\ Head(queue) = Tick
<1>1. Dispatch
  BY DEF SampleNext, ClockTick, Sleep
<1>2. pc = "dispatch" /\ queue # << >>
  BY <1>1 DEF Dispatch
<1>3. ASSUME NEW actor, NEW content, Head(queue) = <<actor, content>>
      PROVE  actor \notin {"say_hello", "print_text", "print_line"}
  BY <1>1, <1>3, Delivered, HandleIs DEF say_hello, print_text, print_line
<1>4. CASE Starting
  <2>1. PICK k \in 1 .. 11 : StartingAt(k)
    BY <1>4 DEF Starting
  <2>2. Sent(k) \in k .. 11
    BY DEF Sent
  <2>3. Head(queue) = Script[k]
    BY <2>1, <2>2, OldestIs DEF StartingAt
  <2>4. k = 3
    <3>1. CASE k \in {1, 2}
      BY <1>3, <2>3, <3>1, ScriptIs
    <3>2. CASE k \in {4, 5, 6, 8, 9, 10}
      BY <1>3, <2>3, <3>2, ScriptIs
    <3>3. CASE k \in {7, 11}
      BY <1>3, <2>3, <3>3, ScriptIs
    <3> QED
      BY <3>1, <3>2, <3>3
  <2>5. Occurrences(Tick) = 1
    BY <2>1, <2>4, OccursAtStart
  <2>6. nap = None
    BY <2>1, <2>4 DEF StartingAt
  <2>7. TicksPending = 1
    BY <2>5, <2>6 DEF TicksPending, Tick
  <2> QED
    BY <1>2, <2>3, <2>4, <2>7, ScriptIs
<1>5. CASE Ticking
  <2>1. queue = <<Tick>> /\ nap = None
    BY <1>2, <1>5 DEF Ticking
  <2>2. 1 \in DOMAIN queue /\ \A i \in DOMAIN queue : queue[i] = Tick <=> i = 1
    BY <2>1
  <2>3. Occurrences(Tick) = 1
    BY <2>2, OneThere
  <2>4. TicksPending = 1
    BY <2>1, <2>3 DEF TicksPending, Tick
  <2> QED
    BY <1>2, <2>1, <2>4
<1> QED
  BY <1>4, <1>5 DEF SampleInv

(* The message that is re-used is written to only while it is in hand, no  *)
(* other one of the ticker being queued or delayed (sample.c, time_ticker).*)
THEOREM ContentsAreKept == SampleSpec => ContentsKept
<1>1. SampleInv /\ [SampleNext]_sampleVars =>
        [tick' # tick =>
           TicksPending = 1 /\ pc = "dispatch" /\ Head(queue) = <<"time_ticker", "tick">>]_sampleVars
  BY OneTick DEF Tick, sampleVars
<1>2. SampleSpec => [][SampleNext]_sampleVars
  BY PTL DEF SampleSpec
<1> QED
  BY <1>1, <1>2, SampleInvariant, PTL DEF ContentsKept
=============================================================================
