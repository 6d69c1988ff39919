------------------------------- MODULE Pairing -------------------------------
(***************************************************************************)
(* What a fork promises to those who wait for it: each gets one answer, in *)
(* the end, and it is the pair of its two values in their places.  Clients *)
(* are served independently.  Module ForkClients implements it.            *)
(***************************************************************************)
EXTENDS Naturals, Sequences

CONSTANTS
  Client,  \* those who wait
  Answer   \* the pair that each of them is due

VARIABLE got  \* the answers of each client

Init == got = [c \in Client |-> << >>]

Serve(c) ==
  /\ got[c] = << >>
  /\ got' = [got EXCEPT ![c] = <<Answer[c]>>]

Next == \E c \in Client : Serve(c)

Safety == Init /\ [][Next]_got
Spec == Safety /\ \A c \in Client : WF_got(Serve(c))
=============================================================================
