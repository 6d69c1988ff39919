----------------------------- MODULE ForkClients -----------------------------
(***************************************************************************)
(* Forks at work for several clients.  The clients and the two services    *)
(* stand for the objects and the customers of the evaluator: a service     *)
(* answers a request once, at its own pace, which is a number of messages  *)
(* to itself, so that answers come in every order that one queue allows.   *)
(***************************************************************************)
EXTENDS ForkJoin

CONSTANTS
  Clients,  \* number of clients, each with a fork of its own
  MaxDelay  \* most messages that a service sends itself before it answers

ASSUME ForkClientsAssumption == Clients \in Nat \ {0} /\ MaxDelay \in Nat

Client == 1 .. Clients

(* The service of the heads and that of the tails.                         *)
Heads == 2 * Clients + 1
Tails == 2 * Clients + 2

(* What a client wants from the two services.                              *)
First(c) == 2 * c
Rest(c) == 2 * c + 1
Ask(v) == [op |-> "ask", cust |-> NIL, want |-> v, delay |-> 0]

Init ==
  /\ actors = [a \in 1 .. 2 * Clients + 2 |->
                 IF a <= Clients THEN Actor("client", << >>)
                 ELSE IF a <= 2 * Clients
                 THEN Actor("fork_beh", [cust |-> a - Clients, head |-> Heads, tail |-> Tails])
                 ELSE Actor("service", NIL)]
  /\ queue = [c \in Client |-> Message(Clients + c, ForkRequest(Ask(First(c)), Ask(Rest(c))))]
  /\ out = << >>
  /\ aborted = FALSE
  /\ turns = [a \in 1 .. 2 * Clients + 2 |-> 0]

service ==
  /\ Behaves("service")
  /\ \/ Send(WHAT.cust, Value(WHAT.want))
     \/ /\ WHAT.delay < MaxDelay
        /\ Send(SELF, [WHAT EXCEPT !.delay = @ + 1])

client == Behaves("client") /\ Become("client", Append(MINE, WHAT), << >>)

Idle == queue = << >> /\ UNCHANGED vars

Next == ForkJoinNext \/ service \/ client \/ Idle

Spec == Init /\ [][Next]_vars /\ WF_vars(Next)
-----------------------------------------------------------------------------
Fork == Clients + 1 .. 2 * Clients
Service == {Heads, Tails}
Tag == {k \in DOMAIN actors : k > 2 * Clients + 2}
Elements(s) == {s[i] : i \in DOMAIN s}

(* That s is a sequence, which TLC checks without comparing its elements.  *)
IsSequence(s) == Len(s) \in Nat /\ s = [i \in 1 .. Len(s) |-> s[i]]

(* Every actor is in a state of its behaviour; tags point to actors that   *)
(* fork or have forked and joins to tags.                                  *)
ForkState(c, a) ==
  \/ a = Actor("fork_beh", [cust |-> c, head |-> Heads, tail |-> Tails])
  \/ \E k_first, k_rest \in Tag :
       /\ k_first # k_rest
       /\ a = Actor("join_beh", [cust |-> c, k_first |-> k_first, k_rest |-> k_rest])
  \/ \E k \in Tag :
       \/ a = Actor("join_rest_beh", [cust |-> c, k_rest |-> k, first |-> First(c)])
       \/ a = Actor("join_first_beh", [cust |-> c, k_first |-> k, rest |-> Rest(c)])

TypeOK ==
  /\ IsSequence(actors)
  /\ IsSequence(queue)
  /\ Len(actors) >= 2 * Clients + 2
  /\ \A c \in Client :
       /\ actors[c] = Actor("client", actors[c].mine)
       /\ actors[c].mine \in Seq({Pair(First(c), Rest(c))})
       /\ ForkState(c, actors[Clients + c])
  /\ \A a \in Service : actors[a] = Actor("service", NIL)
  /\ \A k \in Tag : \E j \in Fork : actors[k] = Actor("tag_beh", j)

(* If v comes for the tag k then it is what the join behind k awaits of it *)
(* or nothing that it awaits.                                              *)
Brings(k, v) ==
  /\ k \in Tag
  /\ LET join == actors[actors[k].mine]
         c == actors[k].mine - Clients
     IN /\ join.beh # "fork_beh"
        /\ join.beh \in {"join_beh", "join_first_beh"} /\ k = join.mine.k_first => v = First(c)
        /\ join.beh \in {"join_beh", "join_rest_beh"} /\ k = join.mine.k_rest => v = Rest(c)

(* Every message is one that its target expects in the state it is in, and *)
(* carries the right value.                                                *)
Expected(m) ==
  \/ /\ m.to \in Fork
     /\ actors[m.to].beh = "fork_beh"
     /\ m.what = ForkRequest(Ask(First(m.to - Clients)), Ask(Rest(m.to - Clients)))
  \/ /\ m.to \in Service
     /\ m.what = [op |-> "ask", cust |-> m.what.cust, want |-> m.what.want, delay |-> m.what.delay]
     /\ Brings(m.what.cust, m.what.want)
  \/ /\ m.to \in Tag
     /\ m.what = Value(m.what.val)
     /\ Brings(m.to, m.what.val)
  \/ /\ m.to \in Fork
     /\ m.what = Tagged(m.what.tag, m.what.val)
     /\ Brings(m.what.tag, m.what.val)
     /\ actors[m.what.tag].mine = m.to
  \/ /\ m.to \in Client
     /\ m.what = Pair(First(m.to), Rest(m.to))

MessagesExpected == \A m \in Elements(queue) : Expected(m)

(* A request, the value for a tag and the tagged answer are about that     *)
(* tag, other messages about their target.  No two are about the same.     *)
Subject(m) ==
  CASE m.what.op = "ask" -> m.what.cust
    [] m.what.op = "tagged" -> m.what.tag
    [] OTHER -> m.to

OneEach == \A i, k \in DOMAIN queue : Subject(queue[i]) = Subject(queue[k]) => i = k

(* A client of whose fork something is still to come has no answer yet.    *)
Unanswered(c) == actors[c].mine = << >> /\ \A i \in DOMAIN queue : queue[i].to # c

Coming(k) == \E i \in DOMAIN queue : Subject(queue[i]) = k

Outstanding(join, c) ==
  /\ join.beh \in {"fork_beh", "join_beh"} => Unanswered(c)
  /\ join.beh = "join_rest_beh" /\ Coming(join.mine.k_rest) => Unanswered(c)
  /\ join.beh = "join_first_beh" /\ Coming(join.mine.k_first) => Unanswered(c)
  /\ (\E i \in DOMAIN queue : queue[i].to = c) => actors[c].mine = << >>

AnswersOutstanding == \A c \in Client : Outstanding(actors[Clients + c], c)

(* All of that: whichever answer comes first, a fork gets one of each kind *)
(* and passes both on once (kernel.c fork_beh, join_beh, tag_beh).         *)
JoinInv == TypeOK /\ MessagesExpected /\ OneEach /\ AnswersOutstanding

(* A client never gets an answer that is not the pair of what its own fork *)
(* asked for, head first, whichever answer came first: tags are compared   *)
(* with the ones the fork made (kernel.c join_beh, join_rest, join_first). *)
JoinMatches ==
  \A c \in Client : \A i \in DOMAIN actors[c].mine :
    actors[c].mine[i] = Pair(First(c), Rest(c))

(* The forks serve their clients independently, once each, in the end.     *)
Pairs == INSTANCE Pairing
  WITH Answer <- [c \in Client |-> Pair(First(c), Rest(c))],
       got <- [c \in Client |-> actors[c].mine]

ImplementsPairing == Pairs!Spec
=============================================================================
