------------------------------- MODULE Deques -------------------------------
(***************************************************************************)
(* What the lists of gc.c promise: every list is a sequence of cells with  *)
(* insertion and removal at both ends, removal in the middle and           *)
(* concatenation, and a cell is on one list at most.                       *)
(***************************************************************************)
EXTENDS Sequences, SequencesExt

CONSTANTS
  List,  \* the lists
  Item   \* the cells

VARIABLE contents

Listed == UNION {ToSet(contents[l]) : l \in List}

Init == contents = [l \in List |-> << >>]

PushFront(l, i) == i \notin Listed /\ contents' = [contents EXCEPT ![l] = <<i>> \o @]

PushBack(l, i) == i \notin Listed /\ contents' = [contents EXCEPT ![l] = Append(@, i)]

PopFront(l) == contents[l] # << >> /\ contents' = [contents EXCEPT ![l] = Tail(@)]

PopBack(l) == contents[l] # << >> /\ contents' = [contents EXCEPT ![l] = Front(@)]

Take(l, i) ==
  \E k \in DOMAIN contents[l] :
    /\ contents[l][k] = i
    /\ contents' = [contents EXCEPT ![l] = RemoveAt(@, k)]

Concatenate(to, from) ==
  contents' = [contents EXCEPT ![to] = @ \o contents[from], ![from] = << >>]

(* To concatenate an empty list is no step.                                *)
Next ==
  /\ contents' # contents
  /\ \/ \E l \in List : PopFront(l) \/ PopBack(l)
     \/ \E l \in List, i \in Item : PushFront(l, i) \/ PushBack(l, i) \/ Take(l, i)
     \/ \E to, from \in List : to # from /\ Concatenate(to, from)

Spec == Init /\ [][Next]_contents
=============================================================================
