-------------------------- MODULE ForkClientsProofs --------------------------
(***************************************************************************)
(* Proofs about forks at work for any number of clients and any delays.    *)
(***************************************************************************)
EXTENDS ForkClients, SequenceTheorems, TLAPS

-----------------------------------------------------------------------------
(* The queue and the actors as sequences.                                  *)

(* m waits behind the message that is being handled.                       *)
Later(m) == \E i \in DOMAIN queue : i # 1 /\ m = queue[i]

LEMMA ElementsSeq ==
  ASSUME NEW S, NEW s \in Seq(S)
  PROVE  /\ s \in Seq(Elements(s))
         /\ DOMAIN s = 1 .. Len(s)
         /\ Len(s) \in Nat
<1>1. DOMAIN s = 1 .. Len(s) /\ Len(s) \in Nat
  BY LenProperties
<1>2. s \in [1 .. Len(s) -> Elements(s)]
  BY <1>1, LenProperties DEF Elements
<1> QED
  BY <1>1, <1>2, SeqDef

LEMMA SequenceElements ==
  ASSUME NEW s
  PROVE  IsSequence(s) <=> s \in Seq(Elements(s))
<1>1. ASSUME IsSequence(s)
      PROVE  s \in Seq(Elements(s))
  <2>1. PICK n \in Nat : n = Len(s)
    BY <1>1 DEF IsSequence
  <2>2. s = [i \in 1 .. n |-> s[i]]
    BY <1>1, <2>1 DEF IsSequence
  <2>3. DOMAIN s = 1 .. n
    BY <2>2
  <2>4. s \in [1 .. n -> Elements(s)]
    BY <2>2, <2>3 DEF Elements
  <2> QED
    BY <2>4, SeqDef
<1>2. ASSUME s \in Seq(Elements(s))
      PROVE  IsSequence(s)
  <2>1. Len(s) \in Nat /\ DOMAIN s = 1 .. Len(s) /\ s \in [1 .. Len(s) -> Elements(s)]
    BY <1>2, LenProperties
  <2> QED
    BY <2>1 DEF IsSequence
<1> QED
  BY <1>1, <1>2

LEMMA QueueFacts ==
  ASSUME TypeOK, queue # << >>
  PROVE  /\ DOMAIN queue = 1 .. Len(queue)
         /\ Len(queue) \in Nat \ {0}
         /\ 1 \in DOMAIN queue
         /\ Head(queue) = queue[1]
<1>1. queue \in Seq(Elements(queue))
  BY SequenceElements DEF TypeOK
<1>2. DOMAIN queue = 1 .. Len(queue) /\ Len(queue) \in Nat \ {0}
  BY <1>1, LenProperties, EmptySeq
<1> QED
  BY <1>1, <1>2

(* What Tail(queue) \o sent holds.                                         *)
LEMMA QueueStep ==
  ASSUME TypeOK, queue # << >>, NEW T, NEW sent \in Seq(T),
         queue' = Tail(queue) \o sent
  PROVE  /\ queue' \in Seq(Elements(queue'))
         /\ \A i \in DOMAIN queue' :
              \/ /\ i + 1 \in DOMAIN queue
                 /\ i + 1 # 1
                 /\ queue'[i] = queue[i + 1]
              \/ /\ i - Len(queue) + 1 \in DOMAIN sent
                 /\ queue'[i] = sent[i - Len(queue) + 1]
<1> DEFINE S == Elements(queue)
           U == S \cup T
           t == Tail(queue)
<1>1. queue \in Seq(S) /\ Len(queue) \in Nat \ {0} /\ DOMAIN queue = 1 .. Len(queue)
  BY QueueFacts, SequenceElements DEF TypeOK
<1>2. /\ t \in Seq(S)
      /\ Len(t) = Len(queue) - 1
      /\ \A i \in 1 .. Len(t) : t[i] = queue[i + 1]
  BY <1>1, HeadTailProperties
<1>3. t \in Seq(U) /\ sent \in Seq(U)
  BY <1>2, SeqMonotonic
<1>4. DOMAIN sent = 1 .. Len(sent) /\ Len(sent) \in Nat
  BY LenProperties
<1>5. /\ queue' \in Seq(U)
      /\ Len(queue') = Len(t) + Len(sent)
      /\ \A i \in 1 .. Len(t) + Len(sent) :
           queue'[i] = IF i <= Len(t) THEN t[i] ELSE sent[i - Len(t)]
  BY <1>3, ConcatProperties
<1>6. DOMAIN queue' = 1 .. Len(queue') /\ queue' \in Seq(Elements(queue'))
  BY <1>5, ElementsSeq
<1>7. ASSUME NEW i \in DOMAIN queue'
      PROVE  \/ i + 1 \in DOMAIN queue /\ i + 1 # 1 /\ queue'[i] = queue[i + 1]
             \/ i - Len(queue) + 1 \in DOMAIN sent /\ queue'[i] = sent[i - Len(queue) + 1]
  <2>1. i \in 1 .. Len(t) + Len(sent) /\ i \in Nat
    BY <1>5, <1>6
  <2>2. CASE i <= Len(t)
    <3>1. queue'[i] = t[i] /\ i \in 1 .. Len(t)
      BY <2>1, <2>2, <1>5, <1>2, <1>1
    <3> QED
      BY <3>1, <2>1, <1>1, <1>2
  <2>3. CASE ~(i <= Len(t))
    <3>1. i - Len(t) = i - Len(queue) + 1 /\ i - Len(t) \in 1 .. Len(sent)
      BY <2>1, <2>3, <1>1, <1>2, <1>4
    <3> QED
      BY <3>1, <2>1, <2>3, <1>5, <1>4
  <2> QED
    BY <2>2, <2>3
<1> QED
  BY <1>6, <1>7

(* The three ways in which a handler changes the actors.                   *)
LEMMA ActorsFacts ==
  ASSUME TypeOK
  PROVE  /\ DOMAIN actors = 1 .. Len(actors)
         /\ Len(actors) \in Nat
         /\ Clients \in Nat \ {0}
         /\ 1 .. 2 * Clients + 2 \subseteq DOMAIN actors
<1>1. actors \in Seq(Elements(actors)) /\ Len(actors) >= 2 * Clients + 2
  BY SequenceElements DEF TypeOK
<1>2. DOMAIN actors = 1 .. Len(actors) /\ Len(actors) \in Nat
  BY <1>1, LenProperties
<1> QED
  BY <1>1, <1>2, ForkClientsAssumption

LEMMA ActorsChange ==
  ASSUME TypeOK, NEW a \in DOMAIN actors, NEW x, NEW all, all = [actors EXCEPT ![a] = x]
  PROVE  /\ all \in Seq(Elements(all))
         /\ Len(all) = Len(actors)
         /\ DOMAIN all = DOMAIN actors
         /\ all[a] = x
         /\ \A b \in DOMAIN actors : b # a => all[b] = actors[b]
<1> DEFINE U == Elements(actors) \cup {x}
<1>1. actors \in Seq(U) /\ DOMAIN actors = 1 .. Len(actors)
  BY SeqMonotonic, ActorsFacts, SequenceElements DEF TypeOK
<1>2. all \in Seq(U) /\ Len(all) = Len(actors)
  BY <1>1, ExceptSeq
<1>3. all \in Seq(Elements(all)) /\ DOMAIN all = 1 .. Len(all)
  BY <1>2, ElementsSeq
<1> QED
  BY <1>1, <1>2, <1>3

-----------------------------------------------------------------------------
(* Which actors have which behaviours, and what the next message is.       *)

LEMMA Kinds ==
  ASSUME TypeOK
  PROVE  /\ \A c \in Client : Clients + c \in Fork
         /\ \A j \in Fork : /\ j - Clients \in Client
                            /\ Clients + (j - Clients) = j
                            /\ ForkState(j - Clients, actors[j])
         /\ DOMAIN actors = Client \cup Fork \cup Service \cup Tag
         /\ Client \cap Fork = {} /\ Client \cap Service = {} /\ Client \cap Tag = {}
         /\ Fork \cap Service = {} /\ Fork \cap Tag = {} /\ Service \cap Tag = {}
<1>1. Clients \in Nat \ {0} /\ DOMAIN actors = 1 .. Len(actors) /\ Len(actors) \in Nat
      /\ Len(actors) >= 2 * Clients + 2
  BY ActorsFacts DEF TypeOK
<1>2. \A c \in Client : Clients + c \in Fork
  BY <1>1 DEF Client, Fork
<1>3. \A j \in Fork : j - Clients \in Client /\ Clients + (j - Clients) = j
  BY <1>1 DEF Client, Fork
<1>4. \A j \in Fork : ForkState(j - Clients, actors[j])
  BY <1>3 DEF TypeOK
<1>5. \A a : a \in DOMAIN actors <=> a \in Client \cup Fork \cup Service \cup Tag
  BY <1>1 DEF Client, Fork, Service, Tag, Heads, Tails
<1>6. /\ Client \cap Fork = {} /\ Client \cap Service = {} /\ Client \cap Tag = {}
      /\ Fork \cap Service = {} /\ Fork \cap Tag = {} /\ Service \cap Tag = {}
  BY <1>1 DEF Client, Fork, Service, Tag, Heads, Tails
<1> QED
  BY <1>2, <1>3, <1>4, <1>5, <1>6

LEMMA TagStates ==
  ASSUME TypeOK, NEW k \in Tag
  PROVE  /\ actors[k].beh = "tag_beh"
         /\ actors[k].mine \in Fork
         /\ actors[k] = Actor("tag_beh", actors[k].mine)
<1>1. PICK j \in Fork : actors[k] = Actor("tag_beh", j)
  BY DEF TypeOK
<1> QED
  BY <1>1 DEF Actor

LEMMA ClientStates ==
  ASSUME TypeOK, NEW c \in Client
  PROVE  /\ actors[c].beh = "client"
         /\ actors[c] = Actor("client", actors[c].mine)
         /\ actors[c].mine \in Seq({Pair(First(c), Rest(c))})
<1>1. actors[c] = Actor("client", actors[c].mine)
  BY DEF TypeOK
<1>2. actors[c].beh = "client"
  BY <1>1 DEF Actor
<1>3. actors[c].mine \in Seq({Pair(First(c), Rest(c))})
  BY DEF TypeOK
<1> QED
  BY <1>1, <1>2, <1>3

LEMMA Behaviours ==
  ASSUME TypeOK, NEW a \in DOMAIN actors
  PROVE  /\ actors[a].beh = "client" => a \in Client
         /\ actors[a].beh = "service" => a \in Service
         /\ actors[a].beh = "tag_beh" => a \in Tag
         /\ actors[a].beh \in {"fork_beh", "join_beh", "join_rest_beh", "join_first_beh"}
              => a \in Fork
<1>1. a \in Client => actors[a].beh = "client"
  BY ClientStates
<1>2. a \in Service => actors[a].beh = "service"
  BY DEF TypeOK, Actor
<1>3. a \in Tag => actors[a].beh = "tag_beh"
  BY TagStates
<1>4. a \in Fork =>
        actors[a].beh \in {"fork_beh", "join_beh", "join_rest_beh", "join_first_beh"}
  BY Kinds DEF ForkState, Actor
<1> QED
  BY <1>1, <1>2, <1>3, <1>4, Kinds

(* The state that goes with the behaviour of a fork.                       *)
LEMMA ForkStates ==
  ASSUME TypeOK, NEW j \in Fork
  PROVE  LET c == j - Clients  s == actors[j].mine IN
         /\ actors[j] = Actor(actors[j].beh, s)
         /\ s.cust = c
         /\ actors[j].beh = "fork_beh" => s.head = Heads /\ s.tail = Tails
         /\ actors[j].beh = "join_beh" =>
              s.k_first \in Tag /\ s.k_rest \in Tag /\ s.k_first # s.k_rest
         /\ actors[j].beh = "join_rest_beh" => s.k_rest \in Tag /\ s.first = First(c)
         /\ actors[j].beh = "join_first_beh" => s.k_first \in Tag /\ s.rest = Rest(c)
BY Kinds DEF ForkState, Actor

LEMMA NextMessage ==
  ASSUME JoinInv, NEW b, Behaves(b)
  PROVE  /\ queue # << >>
         /\ SELF = queue[1].to
         /\ WHAT = queue[1].what
         /\ 1 \in DOMAIN queue
         /\ Expected(queue[1])
         /\ SELF \in DOMAIN actors
         /\ actors[SELF].beh = b
<1>1. queue # << >> /\ actors[SELF].beh = b
  BY DEF Behaves
<1>2. 1 \in DOMAIN queue /\ Head(queue) = queue[1]
  BY <1>1, QueueFacts DEF JoinInv
<1>3. Expected(queue[1])
  BY <1>2 DEF JoinInv, MessagesExpected, Elements
<1>4. queue[1].to \in Client \cup Fork \cup Service \cup Tag
  BY <1>3 DEF Expected
<1> QED
  BY <1>1, <1>2, <1>3, <1>4, Kinds DEF SELF, WHAT, JoinInv

-----------------------------------------------------------------------------
(* What a step does to the parts of the invariant that are about messages. *)

LEMMA OneEachStep ==
  ASSUME TypeOK, OneEach, queue # << >>, NEW T, NEW sent \in Seq(T),
         queue' = Tail(queue) \o sent,
         \A j, l \in DOMAIN sent : Subject(sent[j]) = Subject(sent[l]) => j = l,
         \A j \in DOMAIN sent : \A m : Later(m) => Subject(m) # Subject(sent[j])
  PROVE  OneEach'
<1>1. DOMAIN queue = 1 .. Len(queue) /\ Len(queue) \in Nat
  BY QueueFacts
<1>2. DOMAIN queue' \subseteq Int
  <2>1. queue' \in Seq(Elements(queue'))
    BY QueueStep
  <2> QED
    BY <2>1, LenProperties
<1> SUFFICES ASSUME NEW i \in DOMAIN queue', NEW k \in DOMAIN queue',
                    Subject(queue'[i]) = Subject(queue'[k])
             PROVE  i = k
  BY DEF OneEach, Subject
<1> DEFINE Old(x) == x + 1 \in DOMAIN queue /\ x + 1 # 1 /\ queue'[x] = queue[x + 1]
           New_(x) == x - Len(queue) + 1 \in DOMAIN sent
                        /\ queue'[x] = sent[x - Len(queue) + 1]
<1>3. (Old(i) \/ New_(i)) /\ (Old(k) \/ New_(k))
  BY QueueStep
<1>4. CASE Old(i) /\ Old(k)
  <2>1. i + 1 = k + 1
    BY <1>4 DEF OneEach
  <2> QED
    BY <2>1, <1>2
<1>5. CASE New_(i) /\ New_(k)
  <2>1. i - Len(queue) + 1 = k - Len(queue) + 1
    BY <1>5
  <2> QED
    BY <2>1, <1>1, <1>2
<1>6. CASE Old(i) /\ New_(k)
  <2>1. Later(queue'[i])
    BY <1>6 DEF Later
  <2> QED
    BY <2>1, <1>6
<1>7. CASE New_(i) /\ Old(k)
  <2>1. Later(queue'[k])
    BY <1>7 DEF Later
  <2> QED
    BY <2>1, <1>7
<1> QED
  BY <1>3, <1>4, <1>5, <1>6, <1>7

(* What is in the queue after a step waited there or was sent.             *)
LEMMA WaitedOrSent ==
  ASSUME TypeOK, queue # << >>, NEW T, NEW sent \in Seq(T),
         queue' = Tail(queue) \o sent, NEW i \in DOMAIN queue'
  PROVE  Later(queue'[i]) \/ \E j \in DOMAIN sent : queue'[i] = sent[j]
BY QueueStep DEF Later

LEMMA AllExpected ==
  ASSUME \A i \in DOMAIN queue' : \A m : m = queue'[i] => Expected(m)'
  PROVE  MessagesExpected'
BY DEF MessagesExpected, Elements

LEMMA ExpectedStep ==
  ASSUME TypeOK, queue # << >>, NEW T, NEW sent \in Seq(T),
         queue' = Tail(queue) \o sent,
         \A m : Later(m) => Expected(m)',
         \A m : (\E j \in DOMAIN sent : m = sent[j]) => Expected(m)'
  PROVE  MessagesExpected'
BY WaitedOrSent, AllExpected

LEMMA LaterFacts ==
  ASSUME JoinInv, queue # << >>, NEW m, Later(m)
  PROVE  Expected(m) /\ Subject(m) # Subject(queue[1])
<1>1. PICK i \in DOMAIN queue : i # 1 /\ m = queue[i]
  BY DEF Later
<1>2. 1 \in DOMAIN queue
  BY QueueFacts DEF JoinInv
<1> QED
  BY <1>1, <1>2 DEF JoinInv, MessagesExpected, Elements, OneEach

(* The message of a client, if there is one, is about that client.         *)
LEMMA Subjects ==
  ASSUME JoinInv, NEW m, Expected(m)
  PROVE  /\ m.to \in Client => Subject(m) = m.to
         /\ Subject(m) \in DOMAIN actors
         /\ Subject(m) \in Client => m.to = Subject(m)
         /\ m.to \in Fork /\ actors[m.to].beh = "fork_beh" => Subject(m) = m.to
<1> USE DEF JoinInv
<1>0. TypeOK
  OBVIOUS
<1>1. CASE m.to \in Fork /\ actors[m.to].beh = "fork_beh"
           /\ m.what = ForkRequest(Ask(First(m.to - Clients)), Ask(Rest(m.to - Clients)))
  <2>1. m.what.op = "fork"
    BY <1>1 DEF ForkRequest
  <2> QED
    BY <2>1, <1>0, <1>1, Kinds DEF Subject
<1>2. CASE m.to \in Service
           /\ m.what = [op |-> "ask", cust |-> m.what.cust, want |-> m.what.want, delay |-> m.what.delay]
           /\ Brings(m.what.cust, m.what.want)
  <2>1. m.what.op = "ask"
    BY <1>2
  <2> QED
    BY <2>1, <1>0, <1>2, Kinds DEF Subject, Brings
<1>3. CASE m.to \in Tag /\ m.what = Value(m.what.val) /\ Brings(m.to, m.what.val)
  <2>1. m.what.op = "value"
    BY <1>3 DEF Value
  <2> QED
    BY <2>1, <1>0, <1>3, Kinds DEF Subject
<1>4. CASE m.to \in Fork /\ m.what = Tagged(m.what.tag, m.what.val)
           /\ Brings(m.what.tag, m.what.val) /\ actors[m.what.tag].mine = m.to
  <2>1. m.what.op = "tagged"
    BY <1>4 DEF Tagged
  <2>2. m.what.tag \in Tag /\ actors[m.to].beh # "fork_beh"
    BY <1>4 DEF Brings
  <2> QED
    BY <2>1, <2>2, <1>0, <1>4, Kinds DEF Subject
<1>5. CASE m.to \in Client /\ m.what = Pair(First(m.to), Rest(m.to))
  <2>1. m.what.op = "pair"
    BY <1>5 DEF Pair
  <2> QED
    BY <2>1, <1>0, <1>5, Kinds DEF Subject
<1> QED
  BY <1>1, <1>2, <1>3, <1>4, <1>5 DEF Expected

(* Nothing new comes to a client, and nothing about anything new.          *)
LEMMA NothingNew ==
  ASSUME TypeOK, queue # << >>, NEW T, NEW sent \in Seq(T),
         queue' = Tail(queue) \o sent,
         \A j \in DOMAIN sent : sent[j].to \notin Client /\ Subject(sent[j]) = Subject(queue[1])
  PROVE  /\ \A k : Coming(k)' => Coming(k)
         /\ \A c \in Client : (\E i \in DOMAIN queue' : queue'[i].to = c)
                                => \E i \in DOMAIN queue : queue[i].to = c
<1>1. 1 \in DOMAIN queue
  BY QueueFacts
<1>2. ASSUME NEW i \in DOMAIN queue'
      PROVE  /\ \E l \in DOMAIN queue : Subject(queue[l]) = Subject(queue'[i])
             /\ queue'[i].to \in Client => \E l \in DOMAIN queue : queue[l].to = queue'[i].to
  <2>1. CASE Later(queue'[i])
    BY <2>1 DEF Later
  <2>2. CASE \E j \in DOMAIN sent : queue'[i] = sent[j]
    BY <2>2, <1>1
  <2> QED
    BY <2>1, <2>2, WaitedOrSent
<1>3. ASSUME NEW k, Coming(k)'
      PROVE  Coming(k)
  <2>1. PICK i \in DOMAIN queue' : Subject(queue'[i]) = k
    BY <1>3 DEF Coming, Subject
  <2> QED
    BY <2>1, <1>2 DEF Coming
<1> QED
  BY <1>2, <1>3

LEMMA OutstandingKept ==
  ASSUME NEW c, NEW join, Outstanding(join, c), actors'[c] = actors[c],
         \A k : Coming(k)' => Coming(k),
         (\E i \in DOMAIN queue' : queue'[i].to = c) => \E i \in DOMAIN queue : queue[i].to = c
  PROVE  Outstanding(join, c)'
<1>1. Unanswered(c) => Unanswered(c)'
  BY DEF Unanswered
<1> QED
  BY <1>1 DEF Outstanding

LEMMA OutstandingStep ==
  ASSUME \A c \in Client : \A join : join = actors'[Clients + c] => Outstanding(join, c)'
  PROVE  AnswersOutstanding'
<1> SUFFICES ASSUME NEW c \in Client
             PROVE  Outstanding(actors[Clients + c], c)'
  BY DEF AnswersOutstanding
<1>1. PICK join : join = actors'[Clients + c]
  OBVIOUS
<1>2. Outstanding(join, c)'
  BY <1>1
<1> QED
  BY <1>1, <1>2 DEF Outstanding, Coming, Unanswered

-----------------------------------------------------------------------------
(* Steps that change no actor: a service and a tag answer, a join ignores. *)

LEMMA SameActorsType ==
  ASSUME TypeOK, actors' = actors, IsSequence(queue')
  PROVE  TypeOK'
<1>1. /\ IsSequence(actors')
      /\ Len(actors') >= 2 * Clients + 2
  BY DEF TypeOK
<1>2. Tag' = Tag
  BY DEF Tag
<1>3. \A c \in Client : /\ actors'[c] = Actor("client", actors'[c].mine)
                        /\ actors'[c].mine \in Seq({Pair(First(c), Rest(c))})
  BY DEF TypeOK
<1>4. ASSUME NEW c \in Client
      PROVE  ForkState(c, actors[Clients + c])'
  BY <1>2 DEF TypeOK, ForkState
<1>5. \A a \in Service : actors'[a] = Actor("service", NIL)
  BY DEF TypeOK
<1>6. \A k \in Tag' : \E j \in Fork : actors'[k] = Actor("tag_beh", j)
  BY <1>2 DEF TypeOK
<1> QED
  BY <1>1, <1>3, <1>4, <1>5, <1>6 DEF TypeOK, IsSequence

LEMMA SameActorsQueue ==
  ASSUME TypeOK, queue # << >>, NEW T, NEW sent \in Seq(T),
         queue' = Tail(queue) \o sent, actors' = actors
  PROVE  TypeOK'
<1>1. queue' \in Seq(Elements(queue'))
  BY QueueStep
<1> QED
  BY <1>1, SequenceElements, SameActorsType

LEMMA SameActorsExpect ==
  ASSUME actors' = actors
  PROVE  \A m : Expected(m)' <=> Expected(m)
BY DEF Expected, Brings, Tag

LEMMA SameActorsKeep ==
  ASSUME JoinInv, queue # << >>, NEW T, NEW sent \in Seq(T),
         queue' = Tail(queue) \o sent, actors' = actors,
         \A j, l \in DOMAIN sent : j = l,
         \A j \in DOMAIN sent : /\ Expected(sent[j])
                                /\ sent[j].to \notin Client
                                /\ Subject(sent[j]) = Subject(queue[1])
  PROVE  JoinInv'
<1>1. TypeOK /\ OneEach
  BY DEF JoinInv
<1>2. TypeOK'
  BY <1>1, SameActorsQueue
<1>3. MessagesExpected'
  <2>1. \A m : Later(m) => Expected(m)
    BY LaterFacts
  <2> QED
    BY <1>1, <2>1, ExpectedStep, SameActorsExpect
<1>4. OneEach'
  <2>1. \A m : Later(m) => Subject(m) # Subject(queue[1])
    BY LaterFacts
  <2> QED
    BY <1>1, <2>1, OneEachStep
<1>5. AnswersOutstanding'
  <2>1. /\ \A k : Coming(k)' => Coming(k)
        /\ \A c \in Client : (\E i \in DOMAIN queue' : queue'[i].to = c)
                               => \E i \in DOMAIN queue : queue[i].to = c
    BY <1>1, NothingNew
  <2>2. ASSUME NEW c \in Client, NEW join, join = actors'[Clients + c]
        PROVE  Outstanding(join, c)'
    <3>1. Outstanding(join, c)
      BY <2>2 DEF JoinInv, AnswersOutstanding
    <3> QED
      BY <3>1, <2>1, OutstandingKept
  <2> QED
    BY <2>2, OutstandingStep
<1> QED
  BY <1>2, <1>3, <1>4, <1>5 DEF JoinInv

(* A join has the second answer and sends both to its client.              *)
LEMMA AnswerKeeps ==
  ASSUME JoinInv, queue # << >>, actors' = actors, NEW c \in Client,
         NEW m, m = Message(c, Pair(First(c), Rest(c))),
         queue' = Tail(queue) \o <<m>>,
         LET join == actors[Clients + c] IN
           \/ join.beh = "join_rest_beh" /\ Subject(queue[1]) = join.mine.k_rest
           \/ join.beh = "join_first_beh" /\ Subject(queue[1]) = join.mine.k_first
  PROVE  JoinInv'
<1> DEFINE join == actors[Clients + c]
           T == {m}
           sent == <<m>>
<1>1. TypeOK /\ OneEach /\ 1 \in DOMAIN queue
  BY QueueFacts DEF JoinInv
<1>2. sent \in Seq(T) /\ queue' = Tail(queue) \o sent /\ DOMAIN sent = {1} /\ sent[1] = m
  OBVIOUS
<1> HIDE DEF sent, T
<1>3. m.to = c /\ m.what = Pair(First(c), Rest(c)) /\ Subject(m) = c /\ Expected(m)
  BY DEF Message, Pair, Subject, Expected
<1>4. Unanswered(c)
  <2>1. Coming(Subject(queue[1]))
    BY <1>1 DEF Coming
  <2> QED
    BY <2>1 DEF JoinInv, AnswersOutstanding, Outstanding
<1>5. \A n : Later(n) => /\ Expected(n)
                         /\ Subject(n) # Subject(queue[1])
                         /\ Subject(n) # c
                         /\ n.to # c
  <2> SUFFICES ASSUME NEW n, Later(n)
               PROVE  /\ Expected(n)
                      /\ Subject(n) # Subject(queue[1])
                      /\ Subject(n) # c
                      /\ n.to # c
    OBVIOUS
  <2>1. Expected(n) /\ Subject(n) # Subject(queue[1])
    BY LaterFacts
  <2>2. n.to # c
    BY <1>4 DEF Later, Unanswered
  <2>3. Subject(n) # c
    BY <2>1, <2>2, Subjects
  <2> QED
    BY <2>1, <2>2, <2>3
<1>6. TypeOK'
  BY <1>1, <1>2, SameActorsQueue
<1>7. MessagesExpected'
  <2>1. \A n : Later(n) => Expected(n)'
    BY <1>5, SameActorsExpect
  <2>2. \A n : (\E j \in DOMAIN sent : n = sent[j]) => Expected(n)'
    BY <1>2, <1>3, SameActorsExpect
  <2> QED
    BY <1>1, <1>2, <2>1, <2>2, ExpectedStep
<1>8. OneEach'
  <2>1. \A j \in DOMAIN sent : \A n : Later(n) => Subject(n) # Subject(sent[j])
    BY <1>2, <1>3, <1>5
  <2>2. \A j, l \in DOMAIN sent : Subject(sent[j]) = Subject(sent[l]) => j = l
    BY <1>2
  <2> QED
    BY <1>1, <1>2, <2>1, <2>2, OneEachStep
<1>9. AnswersOutstanding'
  <2>1. \A i \in DOMAIN queue' : Later(queue'[i]) \/ queue'[i] = m
    BY <1>1, <1>2, WaitedOrSent
  <2>2. ASSUME NEW k, k # c, Coming(k)'
        PROVE  Coming(k) /\ k # Subject(queue[1])
    <3>1. PICK i \in DOMAIN queue' : Subject(queue'[i]) = k
      BY <2>2 DEF Coming, Subject
    <3>2. Later(queue'[i])
      BY <2>1, <2>2, <3>1, <1>3
    <3> QED
      BY <3>1, <3>2, <1>5 DEF Later, Coming
  <2>3. ASSUME NEW d \in Client, d # c, NEW i \in DOMAIN queue', queue'[i].to = d
        PROVE  \E l \in DOMAIN queue : queue[l].to = d
    BY <2>1, <2>3, <1>3 DEF Later
  <2>4. ASSUME NEW d \in Client, d # c, Unanswered(d)
        PROVE  Unanswered(d)'
    BY <2>3, <2>4 DEF Unanswered
  <2>5. ASSUME NEW d \in Client, NEW other, other = actors'[Clients + d]
        PROVE  Outstanding(other, d)'
    <3>1. Outstanding(other, d)
      BY <2>5 DEF JoinInv, AnswersOutstanding
    <3>2. /\ other.beh = "join_rest_beh" => other.mine.k_rest # c
          /\ other.beh = "join_first_beh" => other.mine.k_first # c
      BY <2>5, <1>1, Kinds, ForkStates
    <3>3. CASE d = c
      BY <3>2, <3>3, <2>2, <2>5, <1>4 DEF Outstanding, Unanswered
    <3>4. CASE d # c
      BY <3>1, <3>2, <3>4, <2>2, <2>3, <2>4 DEF Outstanding
    <3> QED
      BY <3>3, <3>4
  <2> QED
    BY <2>5, OutstandingStep
<1> QED
  BY <1>6, <1>7, <1>8, <1>9 DEF JoinInv

-----------------------------------------------------------------------------
(* Steps in which one actor changes its state.                             *)

LEMMA TypeChange ==
  ASSUME TypeOK, queue # << >>, NEW T, NEW sent \in Seq(T), queue' = Tail(queue) \o sent,
         NEW a \in Client \cup Fork, NEW x, actors' = [actors EXCEPT ![a] = x],
         a \in Client => /\ x = Actor("client", x.mine)
                         /\ x.mine \in Seq({Pair(First(a), Rest(a))}),
         a \in Fork => ForkState(a - Clients, x)
  PROVE  /\ TypeOK'
         /\ Tag' = Tag
         /\ actors'[a] = x
         /\ \A b \in DOMAIN actors : b # a => actors'[b] = actors[b]
<1>1. a \in DOMAIN actors
  BY Kinds
<1>2. /\ actors' \in Seq(Elements(actors'))
      /\ Len(actors') = Len(actors)
      /\ DOMAIN actors' = DOMAIN actors
      /\ actors'[a] = x
      /\ \A b \in DOMAIN actors : b # a => actors'[b] = actors[b]
  BY <1>1, ActorsChange
<1>3. Tag' = Tag
  BY <1>2 DEF Tag
<1>4. queue' \in Seq(Elements(queue'))
  BY QueueStep
<1>5. ASSUME NEW c \in Client
      PROVE  /\ actors'[c] = Actor("client", actors'[c].mine)
             /\ actors'[c].mine \in Seq({Pair(First(c), Rest(c))})
  BY <1>2, ClientStates, Kinds
<1>6. ASSUME NEW c \in Client
      PROVE  ForkState(c, actors[Clients + c])'
  <2>1. ForkState(c, actors'[Clients + c])
    <3>1. CASE a = Clients + c
      <4>1. a \in Fork /\ a - Clients = c
        BY <3>1, Kinds, ActorsFacts DEF Client
      <4> QED
        BY <3>1, <4>1, <1>2
    <3>2. CASE a # Clients + c
      <4>1. Clients + c \in DOMAIN actors /\ ForkState(c, actors[Clients + c])
        BY Kinds DEF TypeOK
      <4> QED
        BY <3>2, <4>1, <1>2
    <3> QED
      BY <3>1, <3>2
  <2> QED
    BY <2>1, <1>3 DEF ForkState
<1>7. \A b \in Service : actors'[b] = Actor("service", NIL)
  BY <1>2, Kinds DEF TypeOK
<1>8. \A k \in Tag' : \E j \in Fork : actors'[k] = Actor("tag_beh", j)
  <2> SUFFICES ASSUME NEW k \in Tag'
               PROVE  \E j \in Fork : actors'[k] = Actor("tag_beh", j)
    OBVIOUS
  <2>1. k \in Tag /\ actors'[k] = actors[k]
    BY <1>2, <1>3, Kinds
  <2> QED
    BY <2>1, TagStates
<1>9. IsSequence(actors') /\ IsSequence(queue')
  BY <1>2, <1>4, SequenceElements
<1> QED
  BY <1>2, <1>3, <1>5, <1>6, <1>7, <1>8, <1>9 DEF TypeOK, IsSequence

LEMMA ExpectedKept ==
  ASSUME Tag \subseteq Tag',
         \A k, v : Brings(k, v) => Brings(k, v)',
         \A k \in Tag : actors'[k].mine = actors[k].mine,
         NEW m, Expected(m),
         m.to \in Fork /\ actors[m.to].beh = "fork_beh" => actors'[m.to].beh = "fork_beh"
  PROVE  Expected(m)'
<1>1. CASE m.to \in Fork /\ m.what = Tagged(m.what.tag, m.what.val)
           /\ Brings(m.what.tag, m.what.val) /\ actors[m.what.tag].mine = m.to
  <2>1. m.what.tag \in Tag
    BY <1>1 DEF Brings
  <2> QED
    BY <1>1, <2>1 DEF Expected
<1>2. CASE ~(m.to \in Fork /\ m.what = Tagged(m.what.tag, m.what.val)
           /\ Brings(m.what.tag, m.what.val) /\ actors[m.what.tag].mine = m.to)
  BY <1>2 DEF Expected
<1> QED
  BY <1>1, <1>2

(* The client c takes its answer.                                          *)
LEMMA ClientKeeps ==
  ASSUME JoinInv, queue # << >>, NEW c \in Client, queue[1].to = c,
         actors' = [actors EXCEPT ![c] = Actor("client", Append(actors[c].mine, queue[1].what))],
         queue' = Tail(queue) \o << >>
  PROVE  /\ JoinInv'
         /\ actors[c].mine = << >>
         /\ actors'[c].mine = <<Pair(First(c), Rest(c))>>
         /\ \A d \in Client : d # c => actors'[d] = actors[d]
<1> DEFINE P == Pair(First(c), Rest(c))
           x == Actor("client", <<P>>)
<1>1. TypeOK /\ OneEach /\ 1 \in DOMAIN queue /\ Expected(queue[1])
  BY QueueFacts DEF JoinInv, MessagesExpected, Elements
<1>2. actors[c].mine = << >>
  BY <1>1 DEF JoinInv, AnswersOutstanding, Outstanding
<1>3. queue[1].what = P /\ Subject(queue[1]) = c
  <2>1. Subject(queue[1]) = c
    BY <1>1, Subjects
  <2> QED
    BY <2>1, <1>1, Kinds DEF Expected
<1>4. actors' = [actors EXCEPT ![c] = x]
  BY <1>2, <1>3
<1>5. x = Actor("client", x.mine) /\ x.mine = <<P>>
  BY DEF Actor
<1>6. << >> \in Seq({}) /\ DOMAIN << >> = {}
  OBVIOUS
<1> HIDE DEF x
<1>7. /\ TypeOK'
      /\ Tag' = Tag
      /\ actors'[c] = x
      /\ \A b \in DOMAIN actors : b # c => actors'[b] = actors[b]
  <2>1. x.mine \in Seq({P})
    BY <1>5
  <2>2. c \notin Fork
    BY <1>1, Kinds
  <2> QED
    BY <1>1, <1>4, <1>5, <1>6, <2>1, <2>2, TypeChange
<1>8. \A m : Later(m) => Expected(m) /\ Subject(m) # c /\ m.to # c
  <2>1. \A m : Later(m) => Expected(m) /\ Subject(m) # c
    BY <1>3, LaterFacts
  <2> QED
    BY <2>1, Subjects
<1>9. MessagesExpected'
  <2>1. \A k \in Tag : actors'[k] = actors[k]
    BY <1>1, <1>7, Kinds
  <2>2. \A j \in Fork : actors'[j] = actors[j]
    BY <1>1, <1>7, Kinds
  <2>3. ASSUME NEW k, NEW v, Brings(k, v)
        PROVE  Brings(k, v)'
    <3>1. k \in Tag /\ actors[k].mine \in Fork
      BY <2>3, <1>1, TagStates DEF Brings
    <3> QED
      BY <3>1, <2>1, <2>2, <2>3, <1>7 DEF Brings
  <2>4. \A m : Later(m) => Expected(m)'
    BY <1>8, <1>7, <2>1, <2>2, <2>3, ExpectedKept
  <2> QED
    BY <1>1, <1>6, <2>4, ExpectedStep
<1>10. OneEach'
  BY <1>1, <1>6, OneEachStep
<1>11. AnswersOutstanding'
  <2>1. /\ \A k : Coming(k)' => Coming(k)
        /\ \A d \in Client : (\E i \in DOMAIN queue' : queue'[i].to = d)
                               => \E i \in DOMAIN queue : queue[i].to = d
    BY <1>1, <1>6, NothingNew
  <2>2. \A i \in DOMAIN queue' : queue'[i].to # c
    BY <1>1, <1>6, <1>8, WaitedOrSent
  <2>3. ~Unanswered(c)
    BY <1>1 DEF Unanswered
  <2>4. ASSUME NEW d \in Client, NEW join, join = actors'[Clients + d]
        PROVE  Outstanding(join, d)'
    <3>1. join = actors[Clients + d]
      BY <2>4, <1>1, <1>7, Kinds
    <3>2. Outstanding(join, d)
      BY <3>1 DEF JoinInv, AnswersOutstanding
    <3>3. CASE d = c
      BY <3>2, <3>3, <2>1, <2>2, <2>3 DEF Outstanding
    <3>4. CASE d # c
      <4>1. actors'[d] = actors[d]
        BY <3>4, <1>1, <1>7, Kinds
      <4> QED
        BY <4>1, <3>2, <2>1, OutstandingKept
    <3> QED
      BY <3>3, <3>4
  <2> QED
    BY <2>4, OutstandingStep
<1> QED
  BY <1>1, <1>2, <1>5, <1>7, <1>9, <1>10, <1>11, Kinds DEF JoinInv

(* The first of two answers comes to a join.                               *)
LEMMA JoinMessage ==
  ASSUME JoinInv, NEW m, Expected(m), m.to \in Fork, actors[m.to].beh # "fork_beh"
  PROVE  /\ m.what.op = "tagged"
         /\ Subject(m) = m.what.tag
         /\ Brings(m.what.tag, m.what.val)
         /\ actors[m.what.tag].mine = m.to
<1>1. /\ m.what = Tagged(m.what.tag, m.what.val)
      /\ Brings(m.what.tag, m.what.val)
      /\ actors[m.what.tag].mine = m.to
  BY Kinds DEF Expected, JoinInv
<1>2. m.what.op = "tagged"
  BY <1>1 DEF Tagged
<1> QED
  BY <1>1, <1>2 DEF Subject

(* Actor j becomes x and sends nothing.                                    *)
Turns(j, x) == actors' = [actors EXCEPT ![j] = x] /\ queue' = Tail(queue) \o << >>

LEMMA ForkChange ==
  ASSUME TypeOK, queue # << >>, NEW j \in Fork, NEW x, Turns(j, x), ForkState(j - Clients, x)
  PROVE  /\ TypeOK'
         /\ Tag' = Tag
         /\ actors'[j] = x
         /\ \A b \in DOMAIN actors : b # j => actors'[b] = actors[b]
<1>1. << >> \in Seq({})
  OBVIOUS
<1>2. j \notin Client
  BY Kinds
<1> QED
  BY <1>1, <1>2, TypeChange DEF Turns

(* x is what the join j becomes when the message that is handled comes.    *)
JoinTakes(j, x) ==
  LET s == actors[j].mine
      what == queue[1].what
  IN \/ /\ what.tag = s.k_first
        /\ x = Actor("join_rest_beh",
                     [cust |-> s.cust, k_rest |-> s.k_rest, first |-> what.val])
     \/ /\ what.tag = s.k_rest
        /\ x = Actor("join_first_beh",
                     [cust |-> s.cust, k_first |-> s.k_first, rest |-> what.val])

LEMMA JoinKeeps ==
  ASSUME JoinInv, queue # << >>, NEW j \in Fork, actors[j].beh = "join_beh", queue[1].to = j,
         NEW x, actors' = [actors EXCEPT ![j] = x],
         queue' = Tail(queue) \o << >>,
         JoinTakes(j, x)
  PROVE  JoinInv' /\ \A c \in Client : actors'[c] = actors[c]
<1> DEFINE s == actors[j].mine
           what == queue[1].what
           c == j - Clients
<1>1. TypeOK /\ OneEach /\ 1 \in DOMAIN queue /\ Expected(queue[1])
  BY QueueFacts DEF JoinInv, MessagesExpected, Elements
<1>2. s.cust = c /\ s.k_first \in Tag /\ s.k_rest \in Tag
  BY <1>1, ForkStates
<1>3. Brings(what.tag, what.val) /\ actors[what.tag].mine = j
  BY <1>1, JoinMessage
<1>4. /\ what.tag = s.k_first => what.val = First(c)
      /\ what.tag = s.k_rest => what.val = Rest(c)
  BY <1>3 DEF Brings
<1>5. << >> \in Seq({}) /\ DOMAIN << >> = {}
  OBVIOUS
<1>6. \/ x = Actor("join_rest_beh", [cust |-> c, k_rest |-> s.k_rest, first |-> First(c)])
      \/ x = Actor("join_first_beh", [cust |-> c, k_first |-> s.k_first, rest |-> Rest(c)])
  BY <1>2, <1>4 DEF JoinTakes
<1>7. ForkState(c, x)
  BY <1>2, <1>6 DEF ForkState
<1>8. \/ x.beh = "join_rest_beh" /\ x.mine.k_rest = s.k_rest
      \/ x.beh = "join_first_beh" /\ x.mine.k_first = s.k_first
  BY <1>6 DEF Actor
<1>9. /\ TypeOK'
      /\ Tag' = Tag
      /\ actors'[j] = x
      /\ \A b \in DOMAIN actors : b # j => actors'[b] = actors[b]
  <2>1. Turns(j, x)
    BY DEF Turns
  <2> QED
    BY <1>1, <1>7, <2>1, ForkChange
<1>10. /\ \A k \in Tag : actors'[k] = actors[k]
       /\ \A d \in Client : actors'[d] = actors[d]
       /\ \A i \in Fork : i # j => actors'[i] = actors[i]
  BY <1>1, <1>9, Kinds
<1>11. MessagesExpected'
  <2>1. ASSUME NEW k, NEW v, Brings(k, v)
        PROVE  Brings(k, v)'
    <3>1. k \in Tag /\ actors[k].mine \in Fork
      BY <2>1, <1>1, TagStates DEF Brings
    <3>2. CASE actors[k].mine = j
      BY <3>1, <3>2, <2>1, <1>8, <1>9, <1>10 DEF Brings
    <3>3. CASE actors[k].mine # j
      BY <3>1, <3>3, <2>1, <1>9, <1>10 DEF Brings
    <3> QED
      BY <3>2, <3>3
  <2>2. \A m : Later(m) => Expected(m)
    BY LaterFacts
  <2>3. \A m : Later(m) => Expected(m)'
    BY <2>1, <2>2, <1>9, <1>10, ExpectedKept
  <2> QED
    BY <1>1, <1>5, <2>3, ExpectedStep
<1>12. OneEach'
  BY <1>1, <1>5, OneEachStep
<1>13. AnswersOutstanding'
  <2>1. /\ \A k : Coming(k)' => Coming(k)
        /\ \A d \in Client : (\E i \in DOMAIN queue' : queue'[i].to = d)
                               => \E i \in DOMAIN queue : queue[i].to = d
    BY <1>1, <1>5, NothingNew
  <2>2. ASSUME NEW d \in Client, NEW join, join = actors'[Clients + d]
        PROVE  Outstanding(join, d)'
    <3>1. Outstanding(actors[Clients + d], d)
      BY DEF JoinInv, AnswersOutstanding
    <3>2. Clients + d \in Fork
      BY <1>1, Kinds
    <3>3. CASE Clients + d = j
      <4>1. join = x
        BY <2>2, <3>3, <1>9
      <4>2. Outstanding(join, d)
        BY <4>1, <3>1, <3>3, <1>8 DEF Outstanding
      <4> QED
        BY <4>2, <2>1, <1>10, OutstandingKept
    <3>4. CASE Clients + d # j
      <4>1. join = actors[Clients + d]
        BY <2>2, <3>2, <3>4, <1>10
      <4> QED
        BY <4>1, <3>1, <2>1, <1>10, OutstandingKept
    <3> QED
      BY <3>3, <3>4
  <2> QED
    BY <2>2, OutstandingStep
<1> QED
  BY <1>9, <1>10, <1>11, <1>12, <1>13 DEF JoinInv

-----------------------------------------------------------------------------
(* A fork makes two tags, becomes a join and asks both services.           *)

(* m is a request to s for v with the tag k for a customer.                *)
Requests(m, s, k, v) ==
  /\ m.to = s
  /\ m.what = [op |-> "ask", cust |-> m.what.cust, want |-> m.what.want, delay |-> m.what.delay]
  /\ m.what.cust = k
  /\ m.what.want = v
  /\ Subject(m) = k

LEMMA Asked ==
  ASSUME NEW k, NEW v, NEW s, NEW m, m = Message(s, For(k, Ask(v)))
  PROVE  Requests(m, s, k, v)
<1>1. For(k, Ask(v)) = [op |-> "ask", cust |-> k, want |-> v, delay |-> 0]
  BY DEF For, Ask
<1>2. m.to = s /\ m.what = [op |-> "ask", cust |-> k, want |-> v, delay |-> 0]
  BY <1>1 DEF Message
<1> QED
  BY <1>2 DEF Subject, Requests

(* all is what the actors become when j becomes x and makes two actors t.  *)
Grown(all, j, x, t) == all = [actors EXCEPT ![j] = x] \o <<t, t>>

LEMMA ForkMakes ==
  ASSUME TypeOK, NEW j \in Fork, NEW x, NEW t, NEW all, Grown(all, j, x, t)
  PROVE  /\ all \in Seq(Elements(all))
         /\ Len(all) = Len(actors) + 2
         /\ DOMAIN all = 1 .. Len(actors) + 2
         /\ all[j] = x
         /\ \A b \in DOMAIN actors : b # j => all[b] = actors[b]
         /\ all[Len(actors) + 1] = t
         /\ all[Len(actors) + 2] = t
<1> DEFINE n == Len(actors)
<1>0. PICK changed : changed = [actors EXCEPT ![j] = x]
  OBVIOUS
<1>1. n \in Nat /\ DOMAIN actors = 1 .. n /\ j \in DOMAIN actors
  BY ActorsFacts, Kinds
<1>2. /\ changed \in Seq(Elements(changed))
      /\ Len(changed) = n
      /\ DOMAIN changed = DOMAIN actors
      /\ changed[j] = x
      /\ \A b \in DOMAIN actors : b # j => changed[b] = actors[b]
  BY <1>0, <1>1, ActorsChange
<1> DEFINE U == Elements(changed) \cup {t}
           new == <<t, t>>
<1>3. new \in Seq(U) /\ Len(new) = 2 /\ new[1] = t /\ new[2] = t
  OBVIOUS
<1> HIDE DEF new
<1>4. changed \in Seq(U)
  BY <1>2, SeqMonotonic
<1>5. /\ changed \o new \in Seq(U)
      /\ Len(changed \o new) = Len(changed) + Len(new)
      /\ \A i \in 1 .. Len(changed) + Len(new) :
           (changed \o new)[i] = IF i <= Len(changed) THEN changed[i] ELSE new[i - Len(changed)]
  BY <1>3, <1>4, ConcatProperties
<1>6. all = changed \o new
  BY <1>0 DEF new, Grown
<1>7. /\ all \in Seq(U)
      /\ Len(all) = n + 2
      /\ \A i \in 1 .. n + 2 : all[i] = IF i <= n THEN changed[i] ELSE new[i - n]
  BY <1>2, <1>3, <1>5, <1>6
<1>8. all \in Seq(Elements(all)) /\ DOMAIN all = 1 .. n + 2
  BY <1>7, ElementsSeq
<1>9. \A i \in 1 .. n : all[i] = changed[i]
  BY <1>1, <1>7
<1>10. all[n + 1] = t /\ all[n + 2] = t
  <2>1. n + 1 \in 1 .. n + 2 /\ n + 2 \in 1 .. n + 2 /\ (n + 1) - n = 1 /\ (n + 2) - n = 2
        /\ ~(n + 1 <= n) /\ ~(n + 2 <= n)
    BY <1>1
  <2>2. all[n + 1] = new[(n + 1) - n] /\ all[n + 2] = new[(n + 2) - n]
    BY <2>1, <1>7
  <2> QED
    BY <2>1, <2>2, <1>3
<1> QED
  BY <1>1, <1>2, <1>7, <1>8, <1>9, <1>10

(* The fork j has become the join x with the tags k1 and k2 in state t.    *)
Made(j, k1, k2, x, t) ==
  /\ k1 = Len(actors) + 1
  /\ k2 = Len(actors) + 2
  /\ x = Actor("join_beh", [cust |-> j - Clients, k_first |-> k1, k_rest |-> k2])
  /\ t = Actor("tag_beh", j)
  /\ actors' \in Seq(Elements(actors'))
  /\ Len(actors') = Len(actors) + 2
  /\ DOMAIN actors' = 1 .. Len(actors) + 2
  /\ actors'[j] = x
  /\ \A b \in DOMAIN actors : b # j => actors'[b] = actors[b]
  /\ actors'[k1] = t
  /\ actors'[k2] = t

SentBoth(sent, m1, m2) ==
  /\ sent \in Seq({m1, m2})
  /\ DOMAIN sent = {1, 2}
  /\ sent[1] = m1
  /\ sent[2] = m2
  /\ queue' = Tail(queue) \o sent

LEMMA ForkKeeps ==
  ASSUME JoinInv, queue # << >>, NEW j \in Fork, actors[j].beh = "fork_beh", queue[1].to = j,
         NEW k1, NEW k2, NEW x, NEW t, Made(j, k1, k2, x, t),
         NEW m1, Requests(m1, Heads, k1, First(j - Clients)),
         NEW m2, Requests(m2, Tails, k2, Rest(j - Clients)),
         NEW sent, SentBoth(sent, m1, m2)
  PROVE  JoinInv' /\ \A c \in Client : actors'[c] = actors[c]
<1> DEFINE n == Len(actors)
           T == {m1, m2}
<1>1. TypeOK /\ OneEach /\ 1 \in DOMAIN queue /\ Expected(queue[1])
  BY QueueFacts DEF JoinInv, MessagesExpected, Elements
<1>2. Subject(queue[1]) = j
  BY <1>1, Subjects
<1>3. /\ sent \in Seq(T) /\ DOMAIN sent = {1, 2} /\ sent[1] = m1 /\ sent[2] = m2
      /\ queue' = Tail(queue) \o sent
  BY DEF SentBoth
<1> HIDE DEF T
<1>4. /\ n \in Nat /\ DOMAIN actors = 1 .. n /\ n >= 2 * Clients + 2
      /\ Clients \in Nat \ {0} /\ j \in DOMAIN actors /\ j \in Int
  <2>1. n >= 2 * Clients + 2
    BY <1>1 DEF TypeOK
  <2>2. n \in Nat /\ DOMAIN actors = 1 .. n /\ Clients \in Nat \ {0}
    BY <1>1, ActorsFacts
  <2>3. j \in DOMAIN actors
    BY <1>1, Kinds
  <2> QED
    BY <2>1, <2>2, <2>3
<1>5. /\ actors' \in Seq(Elements(actors'))
      /\ Len(actors') = n + 2
      /\ DOMAIN actors' = 1 .. n + 2
      /\ actors'[j] = x
      /\ \A b \in DOMAIN actors : b # j => actors'[b] = actors[b]
      /\ actors'[k1] = t
      /\ actors'[k2] = t
      /\ k1 = n + 1
      /\ k2 = n + 2
      /\ x = Actor("join_beh", [cust |-> j - Clients, k_first |-> k1, k_rest |-> k2])
      /\ t = Actor("tag_beh", j)
  BY DEF Made
<1>6. /\ Tag' = Tag \cup {k1, k2}
      /\ k1 \notin DOMAIN actors /\ k2 \notin DOMAIN actors /\ k1 # k2
  <2>1. \A k : k \in 1 .. n + 2 <=> k \in 1 .. n \/ k = n + 1 \/ k = n + 2
    BY <1>4
  <2>2. n + 1 > 2 * Clients + 2 /\ n + 2 > 2 * Clients + 2
    BY <1>4
  <2>3. \A k : k \in Tag' <=> k \in Tag \/ k = k1 \/ k = k2
    BY <2>1, <2>2, <1>4, <1>5 DEF Tag
  <2>4. k1 \notin DOMAIN actors /\ k2 \notin DOMAIN actors /\ k1 # k2
    BY <1>4, <1>5
  <2> QED
    BY <2>3, <2>4
<1>7. /\ Tag \subseteq DOMAIN actors
      /\ \A k \in Tag : actors'[k] = actors[k]
      /\ \A d \in Client : actors'[d] = actors[d] /\ Clients + d \in Fork
      /\ \A i \in Fork : i \in DOMAIN actors /\ (i # j => actors'[i] = actors[i])
      /\ \A a \in Service : actors'[a] = actors[a]
  BY <1>1, <1>5, Kinds
<1>8. x.beh = "join_beh" /\ x.mine.k_first = k1 /\ x.mine.k_rest = k2
  BY <1>5 DEF Actor
<1>9. t.beh = "tag_beh" /\ t.mine = j
  BY <1>5 DEF Actor
<1>10. TypeOK'
  <2>1. queue' \in Seq(Elements(queue'))
    BY <1>1, <1>3, QueueStep
  <2>2. ASSUME NEW c \in Client
        PROVE  ForkState(c, actors[Clients + c])'
    <3>1. CASE Clients + c = j
      <4>1. j - Clients = c
        BY <3>1, <1>4 DEF Client
      <4>2. x = Actor("join_beh", [cust |-> c, k_first |-> k1, k_rest |-> k2])
        BY <4>1, <1>5
      <4>3. actors'[Clients + c] = x
        BY <3>1, <1>5
      <4> QED
        BY <4>2, <4>3, <1>6 DEF ForkState
    <3>2. CASE Clients + c # j
      <4>1. actors'[Clients + c] = actors[Clients + c]
        BY <3>2, <1>7
      <4>2. ForkState(c, actors[Clients + c])
        BY <1>1 DEF TypeOK
      <4> QED
        BY <4>1, <4>2, <1>6 DEF ForkState
    <3> QED
      BY <3>1, <3>2
  <2>3. ASSUME NEW k \in Tag'
        PROVE  \E i \in Fork : actors'[k] = Actor("tag_beh", i)
    <3>1. CASE k \in Tag
      BY <3>1, <1>1, <1>7, TagStates
    <3>2. CASE k \in {k1, k2}
      BY <3>2, <1>5
    <3> QED
      BY <3>1, <3>2, <1>6
  <2>4. \A a \in Service : actors'[a] = Actor("service", NIL)
    BY <1>1, <1>7 DEF TypeOK
  <2>5. \A c \in Client : /\ actors'[c] = Actor("client", actors'[c].mine)
                          /\ actors'[c].mine \in Seq({Pair(First(c), Rest(c))})
    BY <1>1, <1>7, ClientStates
  <2>6. Len(actors') >= 2 * Clients + 2
    BY <1>4, <1>5
  <2>7. IsSequence(actors') /\ IsSequence(queue')
    BY <1>5, <2>1, SequenceElements
  <2> QED
    BY <2>2, <2>3, <2>4, <2>5, <2>6, <2>7 DEF TypeOK, IsSequence
<1>11. ASSUME NEW k, NEW v, Brings(k, v)
       PROVE  Brings(k, v)'
  <2>1. k \in Tag /\ actors[k].mine \in Fork /\ actors[actors[k].mine].beh # "fork_beh"
    BY <1>11, <1>1, TagStates DEF Brings
  <2>2. actors[k].mine # j
    BY <2>1
  <2>3. actors'[k] = actors[k] /\ actors'[actors[k].mine] = actors[actors[k].mine] /\ k \in Tag'
    BY <2>1, <2>2, <1>6, <1>7
  <2> QED
    BY <2>3, <1>11 DEF Brings
<1>12. /\ Brings(k1, First(j - Clients))'
       /\ Brings(k2, Rest(j - Clients))'
  <2>1. /\ k1 \in Tag' /\ k2 \in Tag'
        /\ actors'[k1].mine = j /\ actors'[k2].mine = j
        /\ actors'[actors'[k1].mine] = x /\ actors'[actors'[k2].mine] = x
    BY <1>5, <1>6, <1>9
  <2> QED
    BY <2>1, <1>6, <1>8 DEF Brings
<1>13. /\ m1.to = Heads /\ Subject(m1) = k1 /\ Expected(m1)'
       /\ m2.to = Tails /\ Subject(m2) = k2 /\ Expected(m2)'
  <2>1. m1.to \in Service /\ m2.to \in Service
    BY DEF Service, Requests
  <2>2. Expected(m1)'
    BY <2>1, <1>12 DEF Expected, Requests
  <2>3. Expected(m2)'
    BY <2>1, <1>12 DEF Expected, Requests
  <2> QED
    BY <2>2, <2>3 DEF Requests
<1>14. \A m : Later(m) => /\ Expected(m)
                          /\ Subject(m) \in DOMAIN actors
                          /\ m.to \in Fork /\ actors[m.to].beh = "fork_beh" => m.to # j
  <2> SUFFICES ASSUME NEW m, Later(m)
               PROVE  /\ Expected(m)
                      /\ Subject(m) \in DOMAIN actors
                      /\ m.to \in Fork /\ actors[m.to].beh = "fork_beh" => m.to # j
    OBVIOUS
  <2>1. Expected(m) /\ Subject(m) # j
    BY <1>2, LaterFacts
  <2> QED
    BY <2>1, Subjects
<1>15. MessagesExpected'
  <2>1. Tag \subseteq Tag' /\ \A k \in Tag : actors'[k].mine = actors[k].mine
    BY <1>6, <1>7
  <2>2. \A m : Later(m) => Expected(m)'
    BY <2>1, <1>7, <1>11, <1>14, ExpectedKept
  <2>3. \A m : (\E i \in DOMAIN sent : m = sent[i]) => Expected(m)'
    BY <1>3, <1>13
  <2> QED
    BY <1>1, <1>3, <2>2, <2>3, ExpectedStep
<1>16. OneEach'
  <2>1. \A i \in DOMAIN sent : \A m : Later(m) => Subject(m) # Subject(sent[i])
    BY <1>3, <1>6, <1>13, <1>14
  <2>2. \A i, l \in DOMAIN sent : Subject(sent[i]) = Subject(sent[l]) => i = l
    BY <1>3, <1>6, <1>13
  <2> QED
    BY <1>1, <1>3, <2>1, <2>2, OneEachStep
<1>17. AnswersOutstanding'
  <2>1. ASSUME NEW i \in DOMAIN queue'
        PROVE  Later(queue'[i]) \/ queue'[i] = m1 \/ queue'[i] = m2
    <3>1. Later(queue'[i]) \/ \E l \in DOMAIN sent : queue'[i] = sent[l]
      BY <1>1, <1>3, WaitedOrSent
    <3> QED
      BY <3>1, <1>3
  <2>2. ASSUME NEW k \in DOMAIN actors, Coming(k)'
        PROVE  Coming(k)
    <3>1. PICK i \in DOMAIN queue' : Subject(queue'[i]) = k
      BY <2>2 DEF Coming, Subject
    <3>2. Later(queue'[i])
      BY <2>1, <3>1, <1>6, <1>13
    <3> QED
      BY <3>1, <3>2 DEF Later, Coming
  <2>3. ASSUME NEW d \in Client, NEW i \in DOMAIN queue', queue'[i].to = d
        PROVE  \E l \in DOMAIN queue : queue[l].to = d
    <3>1. Heads \notin Client /\ Tails \notin Client
      BY <1>1, Kinds DEF Service
    <3> QED
      BY <3>1, <2>1, <2>3, <1>13 DEF Later
  <2>4. ASSUME NEW d \in Client, Unanswered(d)
        PROVE  Unanswered(d)'
    BY <2>3, <2>4, <1>7 DEF Unanswered
  <2>5. ASSUME NEW d \in Client, NEW join, join = actors'[Clients + d]
        PROVE  Outstanding(join, d)'
    <3>1. Outstanding(actors[Clients + d], d)
      BY DEF JoinInv, AnswersOutstanding
    <3>2. CASE Clients + d = j
      <4>1. join = x
        BY <2>5, <3>2, <1>5
      <4> QED
        BY <4>1, <3>1, <3>2, <2>3, <2>4, <1>7, <1>8 DEF Outstanding
    <3>3. CASE Clients + d # j
      <4>1. join = actors[Clients + d] /\ Clients + d \in Fork
        BY <2>5, <3>3, <1>7
      <4>2. /\ join.beh = "join_rest_beh" => join.mine.k_rest \in DOMAIN actors
            /\ join.beh = "join_first_beh" => join.mine.k_first \in DOMAIN actors
        BY <4>1, <1>1, <1>7, ForkStates
      <4> QED
        BY <4>1, <4>2, <3>1, <2>2, <2>3, <2>4, <1>7 DEF Outstanding
    <3> QED
      BY <3>2, <3>3
  <2> QED
    BY <2>5, OutstandingStep
<1> QED
  BY <1>7, <1>10, <1>15, <1>16, <1>17 DEF JoinInv

-----------------------------------------------------------------------------
(* The handlers.                                                           *)

LEMMA SendEffect ==
  ASSUME TypeOK, NEW to, NEW what, Send(to, what)
  PROVE  actors' = actors /\ queue' = Tail(queue) \o <<Message(to, what)>>
<1>1. actors' = actors \o << >> /\ queue' = Tail(queue) \o <<Message(to, what)>>
  BY DEF Send, React, Handle
<1> QED
  BY <1>1, ConcatEmptySeq DEF TypeOK

LEMMA IgnoreEffect ==
  ASSUME TypeOK, Ignore
  PROVE  actors' = actors /\ queue' = Tail(queue) \o << >>
<1>1. actors' = actors \o << >> /\ queue' = Tail(queue) \o << >>
  BY DEF Ignore, React, Handle
<1> QED
  BY <1>1, ConcatEmptySeq DEF TypeOK

LEMMA BecomeEffect ==
  ASSUME NEW b, NEW s, Become(b, s, << >>)
  PROVE  actors' = [actors EXCEPT ![SELF] = Actor(b, s)] /\ queue' = Tail(queue) \o << >>
BY DEF Become, Handle, Changed

LEMMA IgnoreKeeps ==
  ASSUME JoinInv, queue # << >>, Ignore
  PROVE  JoinInv' /\ actors' = actors
<1>1. actors' = actors /\ queue' = Tail(queue) \o << >>
  BY IgnoreEffect DEF JoinInv
<1>2. << >> \in Seq({}) /\ DOMAIN << >> = {}
  OBVIOUS
<1> QED
  BY <1>1, <1>2, SameActorsKeep

(* An expected message is passed on: it is about the same as before.       *)
LEMMA SendKeeps ==
  ASSUME JoinInv, queue # << >>, NEW to, NEW what, Send(to, what), to \notin Client,
         NEW m, m = Message(to, what), Expected(m), Subject(m) = Subject(queue[1])
  PROVE  JoinInv' /\ actors' = actors
<1>1. actors' = actors /\ queue' = Tail(queue) \o <<m>>
  BY SendEffect DEF JoinInv
<1> DEFINE sent == <<m>>
<1>2. sent \in Seq({m}) /\ DOMAIN sent = {1} /\ sent[1] = m /\ queue' = Tail(queue) \o sent
  BY <1>1
<1>3. m.to \notin Client
  BY DEF Message
<1> HIDE DEF sent
<1> QED
  BY <1>1, <1>2, <1>3, SameActorsKeep

LEMMA ServiceStep ==
  ASSUME JoinInv, service
  PROVE  JoinInv' /\ actors' = actors
<1>1. Behaves("service")
  BY DEF service
<1>2. /\ queue # << >> /\ SELF = queue[1].to /\ WHAT = queue[1].what
      /\ Expected(queue[1]) /\ SELF \in DOMAIN actors /\ actors[SELF].beh = "service"
  BY <1>1, NextMessage
<1>3. SELF \in Service /\ SELF \notin Client \cup Fork \cup Tag
  BY <1>2, Behaviours, Kinds DEF JoinInv
<1>4. /\ WHAT = [op |-> "ask", cust |-> WHAT.cust, want |-> WHAT.want, delay |-> WHAT.delay]
      /\ Brings(WHAT.cust, WHAT.want)
  BY <1>2, <1>3 DEF Expected
<1>5. WHAT.op = "ask"
  BY <1>4
<1>6. Subject(queue[1]) = WHAT.cust
  BY <1>2, <1>5 DEF Subject
<1>7. CASE Send(WHAT.cust, Value(WHAT.want))
  <2> SUFFICES ASSUME NEW k, NEW v, k = WHAT.cust, v = WHAT.want
               PROVE  JoinInv' /\ actors' = actors
    OBVIOUS
  <2>1. PICK m : m = Message(k, Value(v))
    OBVIOUS
  <2>2. m.to = k /\ m.what = Value(m.what.val) /\ m.what.val = v /\ m.what.op = "value"
    BY <2>1 DEF Message, Value
  <2>3. Subject(m) = k
    BY <2>2 DEF Subject
  <2>4. k \in Tag /\ k \notin Client
    BY <1>4, Kinds DEF Brings, JoinInv
  <2>5. Expected(m)
    BY <1>4, <2>2, <2>4 DEF Expected
  <2> QED
    BY <1>2, <1>6, <1>7, <2>1, <2>3, <2>4, <2>5, SendKeeps
<1>8. CASE Send(SELF, [WHAT EXCEPT !.delay = @ + 1])
  <2> DEFINE again == [WHAT EXCEPT !.delay = @ + 1]
  <2>1. again = [op |-> "ask", cust |-> WHAT.cust, want |-> WHAT.want, delay |-> WHAT.delay + 1]
    BY <1>4
  <2> HIDE DEF again
  <2> SUFFICES ASSUME NEW to, NEW what, to = SELF, what = again
               PROVE  JoinInv' /\ actors' = actors
    OBVIOUS
  <2>2. PICK m : m = Message(to, what)
    OBVIOUS
  <2>3. m.to = to /\ m.what = what
    BY <2>2 DEF Message
  <2>4. /\ what.op = "ask" /\ what.cust = WHAT.cust /\ what.want = WHAT.want
        /\ what = [op |-> "ask", cust |-> what.cust, want |-> what.want, delay |-> what.delay]
    BY <2>1
  <2>5. Subject(m) = WHAT.cust
    BY <2>3, <2>4 DEF Subject
  <2>6. Expected(m)
    BY <1>3, <1>4, <2>3, <2>4 DEF Expected
  <2>7. Send(to, what) /\ to \notin Client
    BY <1>3, <1>8 DEF again
  <2> QED
    BY <1>2, <1>6, <2>2, <2>5, <2>6, <2>7, SendKeeps
<1> QED
  BY <1>7, <1>8 DEF service

LEMMA TagStep ==
  ASSUME JoinInv, tag_beh
  PROVE  JoinInv' /\ actors' = actors
<1>1. Behaves("tag_beh") /\ Send(MINE, Tagged(SELF, WHAT.val))
  BY DEF tag_beh
<1>2. /\ queue # << >> /\ SELF = queue[1].to /\ WHAT = queue[1].what
      /\ Expected(queue[1]) /\ SELF \in DOMAIN actors /\ actors[SELF].beh = "tag_beh"
  BY <1>1, NextMessage
<1>3. SELF \in Tag /\ SELF \notin Client \cup Fork \cup Service
  BY <1>2, Behaviours, Kinds DEF JoinInv
<1>4. WHAT = Value(WHAT.val) /\ Brings(SELF, WHAT.val)
  BY <1>2, <1>3 DEF Expected
<1>5. WHAT.op = "value"
  BY <1>4 DEF Value
<1>6. Subject(queue[1]) = SELF
  BY <1>2, <1>5 DEF Subject
<1>7. MINE = actors[SELF].mine /\ MINE \in Fork /\ MINE \notin Client
  BY <1>3, TagStates, Kinds DEF MINE, JoinInv
<1> SUFFICES ASSUME NEW to, NEW what, NEW k, NEW v,
                    to = MINE, k = SELF, v = WHAT.val, what = Tagged(k, v)
             PROVE  JoinInv' /\ actors' = actors
  OBVIOUS
<1>8. PICK m : m = Message(to, what)
  OBVIOUS
<1>9. m.to = to /\ m.what = what /\ what.op = "tagged" /\ what.tag = k /\ what.val = v
  BY <1>8 DEF Message, Tagged
<1>10. Subject(m) = k
  BY <1>9 DEF Subject
<1>11. Expected(m)
  BY <1>4, <1>7, <1>9 DEF Expected
<1> QED
  BY <1>1, <1>2, <1>6, <1>7, <1>8, <1>10, <1>11, SendKeeps

LEMMA ClientStep ==
  ASSUME JoinInv, client
  PROVE  /\ JoinInv'
         /\ \E c \in Client : /\ actors[c].mine = << >>
                              /\ actors'[c].mine = <<Pair(First(c), Rest(c))>>
                              /\ \A d \in Client : d # c => actors'[d] = actors[d]
<1>1. Behaves("client") /\ Become("client", Append(MINE, WHAT), << >>)
  BY DEF client
<1>2. /\ queue # << >> /\ SELF = queue[1].to /\ WHAT = queue[1].what
      /\ SELF \in DOMAIN actors /\ actors[SELF].beh = "client"
  BY <1>1, NextMessage
<1>3. SELF \in Client
  BY <1>2, Behaviours DEF JoinInv
<1>4. PICK c \in Client : c = SELF
  BY <1>3
<1>5. actors' = [actors EXCEPT ![SELF] = Actor("client", Append(MINE, WHAT))]
      /\ queue' = Tail(queue) \o << >>
  BY <1>1, BecomeEffect
<1>6. actors' = [actors EXCEPT ![c] = Actor("client", Append(actors[c].mine, queue[1].what))]
  BY <1>2, <1>4, <1>5 DEF MINE
<1>7. queue[1].to = c
  BY <1>2, <1>4
<1> QED
  BY <1>2, <1>5, <1>6, <1>7, ClientKeeps

LEMMA JoinStep ==
  ASSUME JoinInv, join_beh
  PROVE  JoinInv' /\ \A c \in Client : actors'[c] = actors[c]
<1>1. Behaves("join_beh")
  BY DEF join_beh
<1>2. /\ queue # << >> /\ SELF = queue[1].to /\ WHAT = queue[1].what
      /\ SELF \in DOMAIN actors /\ actors[SELF].beh = "join_beh"
  BY <1>1, NextMessage
<1>3. SELF \in Fork
  BY <1>2, Behaviours DEF JoinInv
<1>4. PICK j \in Fork : j = SELF
  BY <1>3
<1>5. MINE = actors[j].mine
  BY <1>4 DEF MINE
<1>6. \/ WHAT.tag = MINE.k_first /\ FirstCame
      \/ WHAT.tag = MINE.k_rest /\ RestCame
      \/ Ignore
  BY DEF join_beh
<1>7. CASE WHAT.tag = MINE.k_first /\ FirstCame
  <2> DEFINE s == [cust |-> MINE.cust, k_rest |-> MINE.k_rest, first |-> WHAT.val]
  <2>1. actors' = [actors EXCEPT ![SELF] = Actor("join_rest_beh", s)]
        /\ queue' = Tail(queue) \o << >>
    BY <1>7, BecomeEffect DEF FirstCame
  <2>2. PICK x : x = Actor("join_rest_beh", s)
    OBVIOUS
  <2>3. actors' = [actors EXCEPT ![j] = x]
    BY <2>1, <2>2, <1>4
  <2>4. JoinTakes(j, x)
    BY <1>2, <1>5, <1>7, <2>2 DEF JoinTakes
  <2>5. queue # << >> /\ queue[1].to = j /\ actors[j].beh = "join_beh"
    BY <1>2, <1>4
  <2> QED
    BY <2>1, <2>3, <2>4, <2>5, JoinKeeps
<1>8. CASE WHAT.tag = MINE.k_rest /\ RestCame
  <2> DEFINE s == [cust |-> MINE.cust, k_first |-> MINE.k_first, rest |-> WHAT.val]
  <2>1. actors' = [actors EXCEPT ![SELF] = Actor("join_first_beh", s)]
        /\ queue' = Tail(queue) \o << >>
    BY <1>8, BecomeEffect DEF RestCame
  <2>2. PICK x : x = Actor("join_first_beh", s)
    OBVIOUS
  <2>3. actors' = [actors EXCEPT ![j] = x]
    BY <2>1, <2>2, <1>4
  <2>4. JoinTakes(j, x)
    BY <1>2, <1>5, <1>8, <2>2 DEF JoinTakes
  <2>5. queue # << >> /\ queue[1].to = j /\ actors[j].beh = "join_beh"
    BY <1>2, <1>4
  <2> QED
    BY <2>1, <2>3, <2>4, <2>5, JoinKeeps
<1>9. CASE Ignore
  BY <1>2, <1>9, IgnoreKeeps
<1> QED
  BY <1>6, <1>7, <1>8, <1>9

(* Both ways in which the second answer comes.                             *)
LEMMA SecondCame ==
  ASSUME JoinInv, queue # << >>, NEW j \in Fork, j = queue[1].to,
         actors[j].beh # "fork_beh", NEW s, s = actors[j].mine,
         NEW v, v = queue[1].what.val,
         \/ /\ actors[j].beh = "join_rest_beh"
            /\ queue[1].what.tag = s.k_rest
            /\ Send(s.cust, Pair(s.first, v))
         \/ /\ actors[j].beh = "join_first_beh"
            /\ queue[1].what.tag = s.k_first
            /\ Send(s.cust, Pair(v, s.rest))
  PROVE  JoinInv' /\ actors' = actors
<1> DEFINE c == j - Clients
<1>1. TypeOK /\ Expected(queue[1])
  BY QueueFacts DEF JoinInv, MessagesExpected, Elements
<1>2. /\ Subject(queue[1]) = queue[1].what.tag
      /\ Brings(queue[1].what.tag, v)
      /\ actors[queue[1].what.tag].mine = j
  BY <1>1, JoinMessage
<1>3. c \in Client /\ Clients + c = j
  BY <1>1, Kinds
<1>4. /\ s.cust = c
      /\ actors[j].beh = "join_rest_beh" => s.first = First(c)
      /\ actors[j].beh = "join_first_beh" => s.rest = Rest(c)
  BY <1>1, ForkStates
<1>5. /\ actors[j].beh = "join_rest_beh" /\ queue[1].what.tag = s.k_rest => v = Rest(c)
      /\ actors[j].beh = "join_first_beh" /\ queue[1].what.tag = s.k_first => v = First(c)
  BY <1>2 DEF Brings
<1>6. Send(c, Pair(First(c), Rest(c)))
  BY <1>4, <1>5
<1>7. PICK m : m = Message(c, Pair(First(c), Rest(c)))
  OBVIOUS
<1>8. actors' = actors /\ queue' = Tail(queue) \o <<m>>
  BY <1>1, <1>6, <1>7, SendEffect
<1>9. \/ actors[Clients + c].beh = "join_rest_beh"
         /\ Subject(queue[1]) = actors[Clients + c].mine.k_rest
      \/ actors[Clients + c].beh = "join_first_beh"
         /\ Subject(queue[1]) = actors[Clients + c].mine.k_first
  BY <1>2, <1>3
<1> HIDE DEF c
<1> QED
  BY <1>3, <1>7, <1>8, <1>9, AnswerKeeps

LEMMA JoinRestStep ==
  ASSUME JoinInv, join_rest_beh
  PROVE  JoinInv' /\ actors' = actors
<1>1. Behaves("join_rest_beh")
  BY DEF join_rest_beh
<1>2. /\ queue # << >> /\ SELF = queue[1].to /\ WHAT = queue[1].what
      /\ SELF \in DOMAIN actors /\ actors[SELF].beh = "join_rest_beh"
  BY <1>1, NextMessage
<1>3. SELF \in Fork /\ MINE = actors[SELF].mine
  BY <1>2, Behaviours DEF JoinInv, MINE
<1>4. CASE WHAT.tag = MINE.k_rest
  <2>1. Send(MINE.cust, Pair(MINE.first, WHAT.val))
    BY <1>4 DEF join_rest_beh
  <2> QED
    BY <1>2, <1>3, <1>4, <2>1, SecondCame
<1>5. CASE WHAT.tag # MINE.k_rest
  <2>1. Ignore
    BY <1>5 DEF join_rest_beh
  <2> QED
    BY <1>2, <2>1, IgnoreKeeps
<1> QED
  BY <1>4, <1>5

LEMMA JoinFirstStep ==
  ASSUME JoinInv, join_first_beh
  PROVE  JoinInv' /\ actors' = actors
<1>1. Behaves("join_first_beh")
  BY DEF join_first_beh
<1>2. /\ queue # << >> /\ SELF = queue[1].to /\ WHAT = queue[1].what
      /\ SELF \in DOMAIN actors /\ actors[SELF].beh = "join_first_beh"
  BY <1>1, NextMessage
<1>3. SELF \in Fork /\ MINE = actors[SELF].mine
  BY <1>2, Behaviours DEF JoinInv, MINE
<1>4. CASE WHAT.tag = MINE.k_first
  <2>1. Send(MINE.cust, Pair(WHAT.val, MINE.rest))
    BY <1>4 DEF join_first_beh
  <2> QED
    BY <1>2, <1>3, <1>4, <2>1, SecondCame
<1>5. CASE WHAT.tag # MINE.k_first
  <2>1. Ignore
    BY <1>5 DEF join_first_beh
  <2> QED
    BY <1>2, <2>1, IgnoreKeeps
<1> QED
  BY <1>4, <1>5

LEMMA ForkStep ==
  ASSUME JoinInv, fork_beh
  PROVE  JoinInv' /\ \A c \in Client : actors'[c] = actors[c]
<1>1. Behaves("fork_beh")
  BY DEF fork_beh
<1>2. /\ queue # << >> /\ SELF = queue[1].to /\ WHAT = queue[1].what
      /\ Expected(queue[1]) /\ SELF \in DOMAIN actors /\ actors[SELF].beh = "fork_beh"
  BY <1>1, NextMessage
<1>3. TypeOK /\ SELF \in Fork
  BY <1>2, Behaviours DEF JoinInv
<1>4. PICK j \in Fork : j = SELF
  BY <1>3
<1>5. MINE.cust = j - Clients /\ MINE.head = Heads /\ MINE.tail = Tails
  BY <1>2, <1>3, <1>4, ForkStates DEF MINE
<1>6. WHAT = ForkRequest(Ask(First(j - Clients)), Ask(Rest(j - Clients)))
  <2>1. ~(actors[queue[1].what.tag].mine = j /\ Brings(queue[1].what.tag, queue[1].what.val))
    BY <1>2, <1>4 DEF Brings
  <2> QED
    BY <2>1, <1>2, <1>3, <1>4, Kinds DEF Expected
<1>7. WHAT.h_req = Ask(First(j - Clients)) /\ WHAT.t_req = Ask(Rest(j - Clients))
  BY <1>6 DEF ForkRequest
<1>8. PICK k1, k2 : k1 = Len(actors) + 1 /\ k2 = Len(actors) + 2
  OBVIOUS
<1>9. New(1) = k1 /\ New(2) = k2
  BY <1>8 DEF New
<1>10. PICK x : x = Actor("join_beh", [cust |-> j - Clients, k_first |-> k1, k_rest |-> k2])
  OBVIOUS
<1>11. PICK t : t = Actor("tag_beh", j)
  OBVIOUS
<1>13. PICK m1, m2 : /\ m1 = Message(Heads, For(k1, Ask(First(j - Clients))))
                     /\ m2 = Message(Tails, For(k2, Ask(Rest(j - Clients))))
  OBVIOUS
<1>14. Grown(actors', j, x, t)
  BY <1>4, <1>5, <1>9, <1>10, <1>11 DEF fork_beh, Handle, Changed, Grown
<1>15. queue' = Tail(queue) \o <<m1, m2>>
  BY <1>5, <1>7, <1>9, <1>13 DEF fork_beh, Handle, Asks
<1>16. PICK sent : sent = <<m1, m2>>
  OBVIOUS
<1>17. SentBoth(sent, m1, m2)
  BY <1>15, <1>16 DEF SentBoth
<1>18. /\ Requests(m1, Heads, k1, First(j - Clients))
       /\ Requests(m2, Tails, k2, Rest(j - Clients))
  BY <1>13, Asked
<1>19. /\ actors' \in Seq(Elements(actors'))
       /\ Len(actors') = Len(actors) + 2
       /\ DOMAIN actors' = 1 .. Len(actors) + 2
       /\ actors'[j] = x
       /\ \A b \in DOMAIN actors : b # j => actors'[b] = actors[b]
       /\ actors'[k1] = t
       /\ actors'[k2] = t
  BY <1>3, <1>8, <1>14, ForkMakes
<1>20. Made(j, k1, k2, x, t)
  BY <1>8, <1>10, <1>11, <1>19 DEF Made
<1>21. queue # << >> /\ queue[1].to = j /\ actors[j].beh = "fork_beh"
  BY <1>2, <1>4
<1> QED
  BY <1>17, <1>18, <1>20, <1>21, ForkKeeps

-----------------------------------------------------------------------------
(* The invariant.                                                          *)

LEMMA JoinInit == Init => JoinInv
<1> SUFFICES ASSUME Init
             PROVE  JoinInv
  OBVIOUS
<1>1. Clients \in Nat \ {0}
  BY ForkClientsAssumption
<1> DEFINE n == 2 * Clients + 2
<1>2. /\ n \in Nat
      /\ DOMAIN actors = 1 .. n
      /\ actors = [a \in 1 .. n |-> actors[a]]
      /\ \A a \in 1 .. n :
           actors[a] = IF a <= Clients THEN Actor("client", << >>)
                       ELSE IF a <= 2 * Clients
                       THEN Actor("fork_beh", [cust |-> a - Clients, head |-> Heads, tail |-> Tails])
                       ELSE Actor("service", NIL)
  BY <1>1 DEF Init
<1>3. actors \in Seq(Elements(actors)) /\ Len(actors) = n
  <2>1. actors \in [1 .. n -> Elements(actors)]
    BY <1>2 DEF Elements
  <2> HIDE DEF n
  <2>2. actors \in Seq(Elements(actors))
    BY <2>1, <1>2, SeqDef
  <2>3. Len(actors) \in Nat /\ 1 .. Len(actors) = 1 .. n
    BY <2>2, <1>2, LenProperties
  <2>4. \A k, l \in Nat : k < l => l \in 1 .. l /\ l \notin 1 .. k
    OBVIOUS
  <2>5. ~(Len(actors) < n) /\ ~(n < Len(actors))
    BY <2>3, <2>4, <1>2
  <2> QED
    BY <2>2, <2>3, <2>5, <1>2
<1>4. /\ DOMAIN queue = Client
      /\ queue = [c \in Client |-> queue[c]]
      /\ \A c \in Client :
           queue[c] = Message(Clients + c, ForkRequest(Ask(First(c)), Ask(Rest(c))))
  BY DEF Init
<1>5. queue \in Seq(Elements(queue))
  <2>1. queue \in [1 .. Clients -> Elements(queue)]
    BY <1>4 DEF Elements, Client
  <2> QED
    BY <2>1, <1>1, SeqDef
<1>6. Tag = {}
  BY <1>1, <1>2 DEF Tag
<1>7. \A c \in Client : /\ actors[c] = Actor("client", << >>)
                        /\ actors[c].mine = << >>
  <2>1. \A c \in Client : c \in 1 .. n /\ c <= Clients
    BY <1>1 DEF Client
  <2>2. \A c \in Client : actors[c] = Actor("client", << >>)
    BY <2>1, <1>2
  <2> QED
    BY <2>2 DEF Actor
<1>8. ASSUME NEW c \in Client
      PROVE  /\ actors[Clients + c]
                  = Actor("fork_beh", [cust |-> c, head |-> Heads, tail |-> Tails])
             /\ actors[Clients + c].beh = "fork_beh"
             /\ Clients + c \in Fork
             /\ (Clients + c) - Clients = c
  <2>1. c \in 1 .. Clients
    BY DEF Client
  <2>2. /\ Clients + c \in 1 .. n /\ ~(Clients + c <= Clients) /\ Clients + c <= 2 * Clients
        /\ (Clients + c) - Clients = c
        /\ Clients + c \in Fork
    BY <2>1, <1>1 DEF Fork
  <2>3. actors[Clients + c] = Actor("fork_beh", [cust |-> c, head |-> Heads, tail |-> Tails])
    BY <2>2, <1>2
  <2> QED
    BY <2>2, <2>3 DEF Actor
<1>9. \A a \in Service : actors[a] = Actor("service", NIL)
  <2>1. /\ Heads \in 1 .. n /\ ~(Heads <= Clients) /\ ~(Heads <= 2 * Clients)
        /\ Tails \in 1 .. n /\ ~(Tails <= Clients) /\ ~(Tails <= 2 * Clients)
    BY <1>1 DEF Heads, Tails
  <2> QED
    BY <2>1, <1>2 DEF Service
<1>10. TypeOK
  <2>1. \A c \in Client : ForkState(c, actors[Clients + c])
    BY <1>8 DEF ForkState
  <2>2. ASSUME NEW c \in Client
        PROVE  /\ actors[c] = Actor("client", actors[c].mine)
               /\ actors[c].mine \in Seq({Pair(First(c), Rest(c))})
    <3>1. actors[c] = Actor("client", << >>) /\ actors[c].mine = << >>
      BY <1>7
    <3>2. << >> \in Seq({Pair(First(c), Rest(c))})
      OBVIOUS
    <3> QED
      BY <3>1, <3>2
  <2>3. Len(actors) >= 2 * Clients + 2
    BY <1>2, <1>3
  <2> QED
    BY <1>3, <1>5, <1>6, <1>9, <2>1, <2>2, <2>3, SequenceElements DEF TypeOK
<1>11. ASSUME NEW c \in Client
       PROVE  /\ queue[c].to = Clients + c
              /\ queue[c].what = ForkRequest(Ask(First(c)), Ask(Rest(c)))
              /\ Subject(queue[c]) = Clients + c
  <2>1. /\ queue[c].to = Clients + c
        /\ queue[c].what = ForkRequest(Ask(First(c)), Ask(Rest(c)))
    BY <1>4 DEF Message
  <2>2. queue[c].what.op = "fork"
    BY <2>1 DEF ForkRequest
  <2> QED
    BY <2>1, <2>2 DEF Subject
<1>12. MessagesExpected
  <2> SUFFICES ASSUME NEW c \in Client
               PROVE  Expected(queue[c])
    BY <1>4 DEF MessagesExpected, Elements
  <2>1. /\ queue[c].to \in Fork
        /\ queue[c].to - Clients = c
        /\ actors[queue[c].to].beh = "fork_beh"
    BY <1>8, <1>11
  <2>2. queue[c].what = ForkRequest(Ask(First(queue[c].to - Clients)),
                                    Ask(Rest(queue[c].to - Clients)))
    BY <2>1, <1>11
  <2> QED
    BY <2>1, <2>2 DEF Expected
<1>13. OneEach
  <2>1. \A c, d \in Client : Clients + c = Clients + d => c = d
    BY <1>1 DEF Client
  <2> QED
    BY <2>1, <1>4, <1>11 DEF OneEach
<1>14. AnswersOutstanding
  <2> SUFFICES ASSUME NEW c \in Client
               PROVE  Outstanding(actors[Clients + c], c)
    BY DEF AnswersOutstanding
  <2>1. \A d \in Client : queue[d].to # c
    BY <1>1, <1>11 DEF Client
  <2>2. Unanswered(c)
    BY <2>1, <1>4, <1>7 DEF Unanswered
  <2> QED
    BY <2>2, <1>7 DEF Outstanding
<1> QED
  BY <1>10, <1>12, <1>13, <1>14 DEF JoinInv

(* A step keeps the invariant and gives at most one client its answer.     *)
Answers ==
  \/ \A c \in Client : actors'[c] = actors[c]
  \/ \E c \in Client : /\ actors[c].mine = << >>
                       /\ actors'[c].mine = <<Pair(First(c), Rest(c))>>
                       /\ \A d \in Client : d # c => actors'[d] = actors[d]

LEMMA JoinInvStep ==
  ASSUME JoinInv, [Next]_vars
  PROVE  JoinInv' /\ Answers
<1>1. CASE fork_beh
  BY <1>1, ForkStep DEF Answers
<1>2. CASE tag_beh
  BY <1>2, TagStep DEF Answers
<1>3. CASE join_beh
  BY <1>3, JoinStep DEF Answers
<1>4. CASE join_rest_beh
  BY <1>4, JoinRestStep DEF Answers
<1>5. CASE join_first_beh
  BY <1>5, JoinFirstStep DEF Answers
<1>6. CASE service
  BY <1>6, ServiceStep DEF Answers
<1>7. CASE client
  BY <1>7, ClientStep DEF Answers
<1>8. CASE UNCHANGED vars
  <2>1. actors' = actors /\ queue' = queue
    BY <1>8 DEF vars
  <2>2. TypeOK'
    BY <2>1, SameActorsType DEF JoinInv, TypeOK
  <2>3. MessagesExpected'
    <3>1. \A m : Expected(m)' <=> Expected(m)
      BY <2>1, SameActorsExpect
    <3>2. \A i \in DOMAIN queue' : Expected(queue'[i])
      BY <2>1 DEF JoinInv, MessagesExpected, Elements
    <3> QED
      BY <3>1, <3>2, AllExpected
  <2>4. AnswersOutstanding'
    BY <2>1 DEF JoinInv, AnswersOutstanding, Outstanding, Unanswered, Coming
  <2>5. OneEach'
    BY <2>1 DEF JoinInv, OneEach
  <2> QED
    BY <2>1, <2>2, <2>3, <2>4, <2>5 DEF JoinInv, Answers
<1> QED
  BY <1>1, <1>2, <1>3, <1>4, <1>5, <1>6, <1>7, <1>8 DEF Next, ForkJoinNext, Idle

(* Forks, joins and tags (kernel.c fork_beh, join_beh, tag_beh): no two    *)
(* messages are ever about the same tag, each brings what the join behind  *)
(* that tag awaits, and a client of whose fork something is still to come  *)
(* has no answer yet.                                                      *)
THEOREM JoinInvariant == Spec => []JoinInv
<1>1. Init => JoinInv
  BY JoinInit
<1>2. JoinInv /\ [Next]_vars => JoinInv'
  BY JoinInvStep
<1> QED
  BY <1>1, <1>2, PTL DEF Spec

(* A client never gets an answer that is not the pair of what its own fork *)
(* asked for, in its order, for any number of clients and any delays.      *)
THEOREM JoinsMatch == Spec => []JoinMatches
<1>1. JoinInv => JoinMatches
  <2> SUFFICES ASSUME JoinInv, NEW c \in Client, NEW i \in DOMAIN actors[c].mine
               PROVE  actors[c].mine[i] = Pair(First(c), Rest(c))
    BY DEF JoinMatches
  <2>1. actors[c].mine \in Seq({Pair(First(c), Rest(c))})
    BY ClientStates DEF JoinInv
  <2>2. actors[c].mine[i] \in {Pair(First(c), Rest(c))}
    BY <2>1, LenProperties, ElementOfSeq
  <2> QED
    BY <2>2
<1> QED
  BY <1>1, JoinInvariant, PTL

(* Every client is served at most once, with its pair, and the others are  *)
(* left alone: the safety half of the refinement of module Pairing.        *)
THEOREM ForksServeOnce == Spec => Pairs!Safety
<1> DEFINE got == [c \in Client |-> actors[c].mine]
<1>1. Init => Pairs!Init
  <2> SUFFICES ASSUME Init
               PROVE  \A c \in Client : actors[c].mine = << >>
    BY DEF Pairs!Init
  <2> SUFFICES ASSUME NEW c \in Client
               PROVE  actors[c].mine = << >>
    OBVIOUS
  <2>1. c \in 1 .. 2 * Clients + 2 /\ c <= Clients
    BY ForkClientsAssumption DEF Client
  <2>2. actors[c] = Actor("client", << >>)
    BY <2>1 DEF Init
  <2> QED
    BY <2>2 DEF Actor
<1>2. JoinInv /\ [Next]_vars => [Pairs!Next]_got
  <2> SUFFICES ASSUME JoinInv, [Next]_vars
               PROVE  [Pairs!Next]_got
    OBVIOUS
  <2>1. CASE \A c \in Client : actors'[c] = actors[c]
    <3>1. got' = got
      BY <2>1
    <3> QED
      BY <3>1
  <2>2. CASE \E c \in Client : /\ actors[c].mine = << >>
                               /\ actors'[c].mine = <<Pair(First(c), Rest(c))>>
                               /\ \A d \in Client : d # c => actors'[d] = actors[d]
    <3>1. PICK c \in Client : /\ actors[c].mine = << >>
                              /\ actors'[c].mine = <<Pair(First(c), Rest(c))>>
                              /\ \A d \in Client : d # c => actors'[d] = actors[d]
      BY <2>2
    <3>2. got[c] = << >>
      BY <3>1
    <3>3. got' = [got EXCEPT ![c] = <<Pair(First(c), Rest(c))>>]
      BY <3>1
    <3>4. Pairs!Serve(c)
      BY <3>2, <3>3 DEF Pairs!Serve
    <3> QED
      BY <3>4 DEF Pairs!Next
  <2> QED
    BY <2>1, <2>2, JoinInvStep DEF Answers
<1> QED
  BY <1>1, <1>2, JoinInvariant, PTL DEF Spec, Pairs!Safety
=============================================================================
