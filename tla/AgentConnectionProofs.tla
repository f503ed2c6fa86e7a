----------------------- MODULE AgentConnectionProofs -----------------------
(***************************************************************************)
(* Theorems about module AgentConnection: a client's responses come in the *)
(* order of its frames, each request reaches the broker with the context   *)
(* of its connection, no request is lost between the tasks, the channel    *)
(* and the broker, and identity requests are answered with the list in     *)
(* force.                                                                  *)
(***************************************************************************)
EXTENDS AgentConnection, SequenceTheorems, WellFoundedInduction, TLAPS

(* Induction over the naturals with a set for the predicate, from the      *)
(* least-element principle.                                                *)
LEMMA SetInduction ==
  ASSUME NEW T, 0 \in T, \A n \in Nat : n \in T => n + 1 \in T
  PROVE  Nat \subseteq T
<1> SUFFICES ASSUME Nat \ T # {} PROVE FALSE
  OBVIOUS
<1>1. PICK n \in Nat \ T : \A m \in Nat \ T : <<m, n>> \notin OpToRel(<, Nat)
  BY NatLessThanWellFounded, WFMin
<1>2. n # 0 /\ n - 1 \in Nat
  OBVIOUS
<1>3. <<n - 1, n>> \in OpToRel(<, Nat)
  BY <1>2 DEF OpToRel
<1>4. n - 1 \in T
  BY <1>1, <1>2, <1>3
<1>5. (n - 1) + 1 \in T
  BY <1>2, <1>4
<1>6. (n - 1) + 1 = n
  OBVIOUS
<1> QED BY <1>5, <1>6
-----------------------------------------------------------------------------
(* Kept *)

(* One step of the function that Kept defines.                             *)
KeptStep(q, S, f, i) ==
  IF i = 0 THEN <<>> ELSE IF q[i] \in S THEN Append(f[i - 1], q[i]) ELSE f[i - 1]

(* The recursive function of Kept exists: it is built up from shorter      *)
(* ones.                                                                   *)
LEMMA KeptExists ==
  ASSUME NEW E, NEW q \in Seq(E), NEW S
  PROVE  \E f \in [0..Len(q) -> Seq(E)] : \A i \in 0..Len(q) : f[i] = KeptStep(q, S, f, i)
<1> DEFINE Upto(k) == \E f \in [0..k -> Seq(E)] : \A i \in 0..k : f[i] = KeptStep(q, S, f, i)
           T == {k \in Nat : k <= Len(q) => Upto(k)}
<1>1. Len(q) \in Nat
  OBVIOUS
<1>2. 0 \in T
  <2> DEFINE g == [i \in 0..0 |-> <<>>]
  <2>1. g \in [0..0 -> Seq(E)]
    OBVIOUS
  <2>2. \A i \in 0..0 : g[i] = KeptStep(q, S, g, i)
    BY DEF KeptStep
  <2>3. Upto(0)
    BY <2>1, <2>2
  <2> QED BY <2>3
<1>3. ASSUME NEW n \in Nat, n \in T PROVE n + 1 \in T
  <2> SUFFICES ASSUME n + 1 <= Len(q) PROVE Upto(n + 1)
    <3> HIDE DEF Upto
    <3> QED OBVIOUS
  <2>1. PICK f \in [0..n -> Seq(E)] : \A i \in 0..n : f[i] = KeptStep(q, S, f, i)
    BY <1>1, <1>3
  <2> DEFINE next == IF q[n + 1] \in S THEN Append(f[n], q[n + 1]) ELSE f[n]
             g == [i \in 0..(n + 1) |-> IF i = n + 1 THEN next ELSE f[i]]
  <2>2. f[n] \in Seq(E) /\ q[n + 1] \in E
    BY <1>1, <2>1
  <2>3. next \in Seq(E)
    BY <2>2
  <2>4. g \in [0..(n + 1) -> Seq(E)]
    <3> HIDE DEF next
    <3> QED BY <2>1, <2>3
  <2>5. \A i \in 0..(n + 1) : g[i] = KeptStep(q, S, g, i)
    <3> TAKE i \in 0..(n + 1)
    <3>1. CASE i = n + 1
      <4>1. g[i] = next /\ g[i - 1] = f[n]
        BY <3>1
      <4> QED BY <3>1, <4>1 DEF KeptStep
    <3>2. CASE i # n + 1
      <4>1. i \in 0..n /\ (i # 0 => i - 1 \in 0..n)
        BY <3>2
      <4>2. g[i] = f[i] /\ (i # 0 => g[i - 1] = f[i - 1])
        BY <4>1
      <4> QED BY <2>1, <4>1, <4>2 DEF KeptStep
    <3> QED BY <3>1, <3>2
  <2> HIDE DEF g
  <2> QED BY <2>4, <2>5
<1> HIDE DEF T
<1>4. Nat \subseteq T
  BY <1>2, <1>3, SetInduction
<1>5. Upto(Len(q))
  <2> HIDE DEF Upto
  <2> QED BY <1>1, <1>4 DEF T
<1> QED BY <1>5

(* The elements kept are those of q that are in S, each as often as in q.  *)
LEMMA KeptFacts ==
  ASSUME NEW E, NEW q \in Seq(E), NEW S
  PROVE  /\ Kept(q, S) \in Seq(E)
         /\ \A e : (\E j \in 1..Len(Kept(q, S)) : Kept(q, S)[j] = e)
                     <=> e \in S /\ \E j \in 1..Len(q) : q[j] = e
         /\ (\A i, j \in 1..Len(q) : q[i] = q[j] => i = j) =>
              \A i, j \in 1..Len(Kept(q, S)) : Kept(q, S)[i] = Kept(q, S)[j] => i = j
<1> DEFINE D(f) == f = [i \in 0..Len(q) |-> KeptStep(q, S, f, i)]
<1>1. PICK g \in [0..Len(q) -> Seq(E)] : \A i \in 0..Len(q) : g[i] = KeptStep(q, S, g, i)
  BY KeptExists
<1>2. D(g)
  BY <1>1
<1> DEFINE f == CHOOSE f : D(f)
<1>3. D(f)
  BY <1>2
<1>4. Kept(q, S) = f[Len(q)]
  BY DEF Kept, KeptStep
<1> HIDE DEF f
<1>5. \A i \in 0..Len(q) : f[i] = KeptStep(q, S, f, i)
  BY <1>3
<1>6. Len(q) \in Nat
  OBVIOUS
<1> DEFINE Good(i) ==
             /\ f[i] \in Seq(E)
             /\ \A e : (\E j \in 1..Len(f[i]) : f[i][j] = e)
                         <=> e \in S /\ \E j \in 1..i : q[j] = e
             /\ (\A j, k \in 1..i : q[j] = q[k] => j = k) =>
                  \A j, k \in 1..Len(f[i]) : f[i][j] = f[i][k] => j = k
           T == {i \in Nat : i <= Len(q) => Good(i)}
<1>7. Good(0)
  <2>1. f[0] = <<>>
    BY <1>5, <1>6 DEF KeptStep
  <2> QED BY <2>1
<1>8. ASSUME NEW n \in Nat, n + 1 <= Len(q), Good(n) PROVE Good(n + 1)
  <2>1. q[n + 1] \in E
    BY <1>6, <1>8
  <2>2. f[n + 1] = IF q[n + 1] \in S THEN Append(f[n], q[n + 1]) ELSE f[n]
    BY <1>5, <1>6, <1>8 DEF KeptStep
  <2>3. 1..(n + 1) = 1..n \cup {n + 1}
    OBVIOUS
  <2>4. CASE q[n + 1] \notin S
    BY <1>8, <2>2, <2>3, <2>4
  <2>5. CASE q[n + 1] \in S
    <3> DEFINE a == f[n]  b == f[n + 1]
    <3>1. /\ a \in Seq(E) /\ Len(a) \in Nat
          /\ b \in Seq(E)
          /\ Len(b) = Len(a) + 1
          /\ \A j \in 1..Len(a) : b[j] = a[j]
          /\ b[Len(a) + 1] = q[n + 1]
      BY <1>8, <2>1, <2>2, <2>5, AppendProperties
    <3> HIDE DEF a, b
    <3>2. 1..Len(b) = 1..Len(a) \cup {Len(a) + 1}
      BY <3>1
    <3>3. \A e : (\E j \in 1..Len(a) : a[j] = e) <=> e \in S /\ \E j \in 1..n : q[j] = e
      BY <1>8 DEF a
    <3>4. \A e : (\E j \in 1..Len(b) : b[j] = e) <=> e \in S /\ \E j \in 1..(n + 1) : q[j] = e
      BY <2>3, <2>5, <3>1, <3>2, <3>3
    <3>5. ASSUME \A j, k \in 1..(n + 1) : q[j] = q[k] => j = k
          PROVE  \A j, k \in 1..Len(b) : b[j] = b[k] => j = k
      <4>1. \A j, k \in 1..Len(a) : a[j] = a[k] => j = k
        BY <1>8, <2>3, <3>5 DEF a
      <4>2. \A j \in 1..Len(a) : a[j] # q[n + 1]
        <5> SUFFICES ASSUME NEW j \in 1..Len(a), a[j] = q[n + 1] PROVE FALSE
          OBVIOUS
        <5>1. PICK k \in 1..n : q[k] = q[n + 1]
          BY <3>3
        <5> QED BY <2>3, <3>5, <5>1
      <4> QED BY <3>1, <3>2, <4>1, <4>2
    <3> QED BY <3>1, <3>4, <3>5 DEF b
  <2> QED BY <2>4, <2>5
<1> HIDE DEF Good
<1>9. Nat \subseteq T
  <2>1. 0 \in T
    BY <1>7
  <2>2. \A n \in Nat : n \in T => n + 1 \in T
    BY <1>6, <1>8
  <2> HIDE DEF T
  <2> QED BY <2>1, <2>2, SetInduction
<1>10. Good(Len(q))
  BY <1>6, <1>9
<1> QED BY <1>4, <1>10 DEF Good
-----------------------------------------------------------------------------
(* The invariant. *)

Response ==
  [packet : Nat, state : {"new", "sending", "sent", "ready"}, reply : Reply \cup {None},
   context : Nat \cup {None}]

Messages == [from : Connections, packet : Nat, context : Nat \cup {None}]

Routers ==
  [answer : Lists \cup {None}, unseen : BOOLEAN, context : Nat \cup {None}, accepts : BOOLEAN]

TypeOK ==
  /\ phase \in [Connections -> {"new", "selecting", "writing", "failing", "closed"}]
  /\ sent \in [Connections -> Seq(Frame)]
  /\ router \in [Connections -> Routers]
  /\ identities \in Lists \cup {None}
  /\ published \in BOOLEAN
  /\ responses \in [Connections -> Seq(Response)]
  /\ writing \in [Connections -> Response \cup {None}]
  /\ written \in [Connections -> Seq(Response)]
  /\ senders \in Seq(Messages)
  /\ channel \in Seq(Messages)
  /\ held \subseteq Messages
  /\ cancelled \subseteq Connections

(* The context that the first frame of a connection gives all its          *)
(* requests.                                                               *)
Context(c) == IF sent[c][1] = "context" THEN 1 ELSE None

(* Responses that a task has written or is writing.                        *)
Done(c) == Len(written[c]) + IF phase[c] \in {"writing", "failing"} THEN 1 ELSE 0

(* Every frame decoded has been answered, is being answered or is owed a   *)
(* response, in this order and by number, unless the task has ended.       *)
Numbered(c) ==
  /\ phase[c] = "new" => sent[c] = <<>> /\ written[c] = <<>>
  /\ phase[c] \in {"new", "failing", "closed"} => responses[c] = <<>>
  /\ phase[c] # "closed" => Len(sent[c]) = Done(c) + Len(responses[c]) /\ c \notin cancelled
  /\ Len(written[c]) <= Len(sent[c])
  /\ \A i \in 1..Len(responses[c]) : responses[c][i].packet = Done(c) + i
  /\ phase[c] \in {"writing", "failing"} =>
       writing[c] \in Response /\ writing[c].packet = Len(written[c]) + 1

(* What is ready, being written or written is a reply to its frame; what   *)
(* is not ready has gone, or will go, to the broker with the context.      *)
Owed(c, f) ==
  IF f.state = "ready"
  THEN f.reply \in Replies(sent[c][f.packet], f.packet)
  ELSE sent[c][f.packet] \in {"identities", "sign"} /\ f.context = Context(c)

Matched(c) ==
  /\ \A i \in 1..Len(responses[c]) : Owed(c, responses[c][i])
  /\ phase[c] \in {"writing", "failing"} =>
       writing[c].reply \in Replies(sent[c][writing[c].packet], writing[c].packet)
  /\ \A n \in 1..Len(written[c]) :
       written[c][n].packet = n /\ written[c][n].reply \in Replies(sent[c][n], n)

(* The router takes a context as the first frame only, and keeps it.       *)
Configuring(c) ==
  phase[c] \in {"new", "selecting", "writing"} =>
    /\ router[c].accepts <=> Len(sent[c]) = 0
    /\ router[c].context = IF Len(sent[c]) = 0 THEN None ELSE Context(c)

ConnectionOK(c) == Numbered(c) /\ Matched(c) /\ Configuring(c)

Elements(q) == {q[i] : i \in 1..Len(q)}

Waiting == Elements(senders)
InChannel == Elements(channel)

(* A request is in one place only, with the context of its connection.     *)
Placed ==
  /\ \A i, j \in 1..Len(senders) : senders[i] = senders[j] => i = j
  /\ Len(channel) <= 1
  /\ InChannel \cap held = {}
  /\ \A m \in InChannel \cup held : Len(sent[m.from]) >= 1 /\ m.context = Context(m.from)

(* RequestsTracked, with positions.                                        *)
Tracked ==
  /\ \A c \in Connections : \A i \in 1..Len(responses[c]) :
       /\ responses[c][i].state = "sending" => Message(c, responses[c][i]) \in Waiting
       /\ responses[c][i].state = "sent" => Message(c, responses[c][i]) \in InChannel \cup held
  /\ \A m \in Waiting : \E i \in 1..Len(responses[m.from]) :
       responses[m.from][i].state = "sending" /\ m = Message(m.from, responses[m.from][i])
  /\ \A m \in InChannel \cup held : m.from \notin cancelled =>
       \E i \in 1..Len(responses[m.from]) :
         responses[m.from][i].state = "sent" /\ m = Message(m.from, responses[m.from][i])
  /\ ~running => senders = <<>> /\ channel = <<>> /\ held = {}

(* Inductive.                                                              *)
Inv == TypeOK /\ (\A c \in Connections : ConnectionOK(c)) /\ Placed /\ Tracked

(* A router that has not seen the latest list knows that there is one.     *)
RoutersCurrent ==
  \A c \in Connections : phase[c] \in {"selecting", "writing", "failing"} =>
    router[c].unseen \/ router[c].answer = identities
-----------------------------------------------------------------------------
(* Facts that several steps need. *)

(* A function on 1..n is a sequence of length n.                           *)
LEMMA SeqOfFunction ==
  ASSUME NEW E, NEW n \in Nat, NEW g \in [1..n -> E]
  PROVE  g \in Seq(E) /\ Len(g) = n /\ DOMAIN g = 1..n
<1>1. g \in Seq(E)
  BY IsASeq
<1> QED BY <1>1, LenProperties

(* What Elements says of a sequence, position by position.                 *)
LEMMA ElementsFacts ==
  ASSUME NEW E, NEW q \in Seq(E)
  PROVE  /\ Elements(q) \subseteq E
         /\ Elements(q) = Range(q)
         /\ \A e : e \in Elements(q) <=> \E i \in 1..Len(q) : q[i] = e
         /\ Elements(q) = {} <=> q = <<>>
<1>1. Len(q) \in Nat /\ DOMAIN q = 1..Len(q) /\ \A i \in 1..Len(q) : q[i] \in E
  OBVIOUS
<1>2. \A e : e \in Elements(q) <=> \E i \in 1..Len(q) : q[i] = e
  BY DEF Elements
<1>3. Elements(q) = Range(q) /\ Elements(q) \subseteq E
  BY <1>1, <1>2 DEF Range
<1>4. Elements(q) = {} => q = <<>>
  <2> SUFFICES ASSUME Elements(q) = {} PROVE q = <<>>
    OBVIOUS
  <2>1. ~(1 \in 1..Len(q))
    BY <1>2
  <2> QED BY <1>1, <2>1, EmptySeq
<1>5. q = <<>> => Elements(q) = {}
  BY <1>2
<1> QED BY <1>2, <1>3, <1>4, <1>5

(* Requests name the connection they are from.                             *)
LEMMA PlacesAreTyped ==
  ASSUME TypeOK
  PROVE  /\ Waiting \subseteq Messages
         /\ InChannel \subseteq Messages
         /\ \A m \in Waiting \cup InChannel \cup held : m.from \in Connections
<1>1. Waiting \subseteq Messages /\ InChannel \subseteq Messages /\ held \subseteq Messages
  BY ElementsFacts DEF TypeOK, Waiting, InChannel
<1>2. \A m \in Messages : m.from \in Connections
  BY DEF Messages
<1> QED BY <1>1, <1>2

(* The request made of a response names its connection, packet and         *)
(* context.                                                                *)
LEMMA MessageFacts ==
  ASSUME NEW c \in Connections, NEW f \in Response
  PROVE  /\ Message(c, f) \in Messages
         /\ Message(c, f).from = c
         /\ Message(c, f).packet = f.packet
         /\ Message(c, f).context = f.context
BY DEF Message, Messages, Response

(* Packet numbers tell the responses of a connection apart.                *)
LEMMA PacketsDiffer ==
  ASSUME TypeOK, NEW c \in Connections, Numbered(c),
         NEW i \in 1..Len(responses[c]), NEW j \in 1..Len(responses[c]),
         responses[c][i].packet = responses[c][j].packet
  PROVE  i = j
<1>1. Done(c) \in Nat /\ Len(responses[c]) \in Nat
  BY DEF Done, TypeOK
<1>2. Done(c) + i = Done(c) + j
  BY DEF Numbered
<1> QED BY <1>1, <1>2

(* A response that is owed belongs to a frame received, and its task is    *)
(* alive.                                                                  *)
LEMMA PacketsInRange ==
  ASSUME TypeOK, NEW c \in Connections, Numbered(c), NEW i \in 1..Len(responses[c])
  PROVE  /\ responses[c][i] \in Response
         /\ responses[c][i].packet \in 1..Len(sent[c])
         /\ Len(sent[c]) \in Nat /\ Len(sent[c]) >= 1
         /\ phase[c] \in {"selecting", "writing"}
         /\ c \notin cancelled
<1>1. responses[c] \in Seq(Response) /\ Len(responses[c]) \in Nat /\ Len(sent[c]) \in Nat
      /\ Len(written[c]) \in Nat
  BY DEF TypeOK
<1>2. phase[c] \in {"selecting", "writing"}
  <2>1. responses[c] # <<>>
    BY <1>1
  <2> QED BY <2>1 DEF Numbered, TypeOK
<1>3. Done(c) \in Nat
  BY <1>1 DEF Done, TypeOK
<1>4. responses[c][i].packet = Done(c) + i /\ Len(sent[c]) = Done(c) + Len(responses[c])
      /\ c \notin cancelled
  BY <1>2 DEF Numbered
<1> QED BY <1>1, <1>2, <1>3, <1>4

(* A step that leaves a connection alone.                                  *)
LEMMA SameConnection ==
  ASSUME NEW d \in Connections, ConnectionOK(d),
         phase'[d] = phase[d], sent'[d] = sent[d], responses'[d] = responses[d],
         writing'[d] = writing[d], written'[d] = written[d],
         router'[d].accepts = router[d].accepts, router'[d].context = router[d].context,
         d \in cancelled' => d \in cancelled
  PROVE  ConnectionOK(d)'
<1>1. Numbered(d)'
  BY DEF ConnectionOK, Numbered, Done
<1>2. Matched(d)'
  BY DEF ConnectionOK, Matched, Owed, Context
<1>3. Configuring(d)'
  BY DEF ConnectionOK, Configuring, Context
<1> QED BY <1>1, <1>2, <1>3 DEF ConnectionOK

(* Another frame changes neither the earlier ones nor the context.         *)
LEMMA AnotherFrame ==
  ASSUME TypeOK, NEW c \in Connections, NEW frame \in Frame,
         sent' = [sent EXCEPT ![c] = Append(@, frame)]
  PROVE  /\ sent' \in [Connections -> Seq(Frame)]
         /\ Len(sent[c]) \in Nat
         /\ Len(sent'[c]) = Len(sent[c]) + 1
         /\ \A n \in 1..Len(sent[c]) : sent'[c][n] = sent[c][n]
         /\ sent'[c][Len(sent[c]) + 1] = frame
         /\ \A d \in Connections : d # c => sent'[d] = sent[d]
         /\ \A d \in Connections : Len(sent[d]) >= 1 =>
              Len(sent'[d]) >= 1 /\ Context(d)' = Context(d)
<1>1. sent[c] \in Seq(Frame) /\ sent'[c] = Append(sent[c], frame) /\ Len(sent[c]) \in Nat
  BY DEF TypeOK
<1>2. /\ Append(sent[c], frame) \in Seq(Frame)
      /\ Len(Append(sent[c], frame)) = Len(sent[c]) + 1
      /\ \A n \in 1..Len(sent[c]) : Append(sent[c], frame)[n] = sent[c][n]
      /\ Append(sent[c], frame)[Len(sent[c]) + 1] = frame
  BY <1>1, AppendProperties
<1>3. sent' \in [Connections -> Seq(Frame)] /\ \A d \in Connections : d # c => sent'[d] = sent[d]
  BY <1>2 DEF TypeOK
<1>4. \A d \in Connections : Len(sent[d]) >= 1 =>
        Len(sent'[d]) >= 1 /\ Context(d)' = Context(d)
  BY <1>1, <1>2, <1>3 DEF Context
<1> QED BY <1>1, <1>2, <1>3, <1>4

(* The responses of a connection change state, and nothing else changes.   *)
LEMMA Relabelled ==
  ASSUME TypeOK, NEW d \in Connections, ConnectionOK(d),
         responses'[d] \in Seq(Response),
         Len(responses'[d]) = Len(responses[d]),
         \A i \in 1..Len(responses[d]) :
           /\ responses'[d][i].packet = responses[d][i].packet
           /\ \/ responses'[d][i] = responses[d][i]
              \/ /\ responses[d][i].state # "ready"
                 /\ responses'[d][i].state # "ready"
                 /\ responses'[d][i].context = responses[d][i].context
              \/ /\ responses[d][i].state # "ready"
                 /\ responses'[d][i].state = "ready"
                 /\ responses'[d][i].reply \in {"Remote", "Failure"},
         UNCHANGED <<phase, sent, router, writing, written, cancelled>>
  PROVE  ConnectionOK(d)'
<1>1. responses[d] \in Seq(Response) /\ Len(responses[d]) \in Nat
  BY DEF TypeOK
<1>2. Numbered(d)'
  <2>1. responses[d] = <<>> => responses'[d] = <<>>
    BY <1>1, EmptySeq
  <2> QED BY <2>1 DEF ConnectionOK, Numbered, Done
<1>3. \A i \in 1..Len(responses[d]) : Owed(d, responses'[d][i])
  <2> TAKE i \in 1..Len(responses[d])
  <2>1. Owed(d, responses[d][i])
    BY DEF ConnectionOK, Matched
  <2> QED BY <2>1 DEF Owed, Replies
<1>4. Matched(d)'
  <2>1. \A i \in 1..Len(responses[d]) : Owed(d, responses[d][i])'
    BY <1>3 DEF Owed, Context
  <2> QED BY <2>1 DEF ConnectionOK, Matched
<1>5. Configuring(d)'
  BY DEF ConnectionOK, Configuring, Context
<1> QED BY <1>2, <1>4, <1>5 DEF ConnectionOK

(* Steps that move no request.                                             *)
LEMMA SamePlaces ==
  ASSUME Placed, Tracked, UNCHANGED <<sent, responses, senders, channel, held, running, cancelled>>
  PROVE  Placed' /\ Tracked'
<1>1. Placed'
  BY DEF Placed, InChannel, Context
<1>2. Tracked'
  BY DEF Tracked, Waiting, InChannel, Message
<1> QED BY <1>1, <1>2

(* Before any connection is accepted.                                      *)
LEMMA InvInit == ConnectionInit => Inv /\ RoutersCurrent
<1> SUFFICES ASSUME ConnectionInit PROVE Inv /\ RoutersCurrent
  OBVIOUS
<1>1. TypeOK
  <2>1. NoRouter \in Routers
    BY DEF NoRouter, NewRouter, Routers
  <2>2. published \in BOOLEAN
    BY DEF ConnectionInit
  <2> QED BY <2>1, <2>2 DEF ConnectionInit, TypeOK
<1>2. ASSUME NEW c \in Connections PROVE ConnectionOK(c)
  <2>1. /\ phase[c] = "new" /\ sent[c] = <<>> /\ responses[c] = <<>> /\ written[c] = <<>>
        /\ c \notin cancelled
        /\ router[c].accepts = TRUE /\ router[c].context = None
    BY DEF ConnectionInit, NoRouter, NewRouter
  <2> QED BY <2>1 DEF ConnectionOK, Numbered, Done, Matched, Configuring
<1>3. Placed /\ Tracked
  <2>1. Elements(<<>>) = {}
    BY DEF Elements
  <2>2. /\ senders = <<>> /\ channel = <<>> /\ held = {} /\ Waiting = {} /\ InChannel = {}
        /\ \A c \in Connections : responses[c] = <<>>
    BY <2>1 DEF ConnectionInit, Waiting, InChannel
  <2> QED BY <2>2 DEF Placed, Tracked
<1>4. RoutersCurrent
  BY DEF ConnectionInit, RoutersCurrent
<1> QED BY <1>1, <1>2, <1>3, <1>4 DEF Inv
-----------------------------------------------------------------------------
(* The connection's task. *)

(* serve: a new task with a router that has seen the list in force.        *)
LEMMA AcceptKeepsInv ==
  ASSUME Inv, NEW c \in Connections, Accept(c)
  PROVE  Inv'
<1>1. /\ phase[c] = "new"
      /\ phase' = [phase EXCEPT ![c] = "selecting"]
      /\ router' = [router EXCEPT ![c] = NewRouter(identities, published)]
      /\ UNCHANGED <<identities, published, sent, responses, writing, written,
                     senders, channel, held, running, cancelled>>
  BY DEF Accept, watchVars, brokerVars
<1>2. NewRouter(identities, published) \in Routers
  BY DEF Inv, TypeOK, NewRouter, Routers
<1>3. TypeOK'
  BY <1>1, <1>2 DEF Inv, TypeOK
<1>4. ASSUME NEW d \in Connections PROVE ConnectionOK(d)'
  <2>1. CASE d = c
    <3>1. /\ sent[c] = <<>> /\ written[c] = <<>> /\ responses[c] = <<>> /\ c \notin cancelled
      BY <1>1 DEF Inv, ConnectionOK, Numbered
    <3>2. phase'[c] = "selecting" /\ router'[c].accepts = TRUE /\ router'[c].context = None
      BY <1>1 DEF Inv, TypeOK, NewRouter
    <3> QED BY <1>1, <2>1, <3>1, <3>2 DEF ConnectionOK, Numbered, Done, Matched, Configuring
  <2>2. CASE d # c
    BY <1>1, <2>2, SameConnection DEF Inv, TypeOK
  <2> QED BY <2>1, <2>2
<1> QED BY <1>1, <1>3, <1>4, SamePlaces DEF Inv

(* Some tasks end, whatever their connections were sent or have answered   *)
(* in the same step.                                                       *)
LEMMA EndsKeepsInv ==
  ASSUME Inv, NEW C \in SUBSET Connections, \A c \in C : phase[c] # "new",
         Ends(C),
         sent' \in [Connections -> Seq(Frame)], written' \in [Connections -> Seq(Response)],
         \A d \in Connections \ C : sent'[d] = sent[d] /\ written'[d] = written[d],
         \A d \in Connections : Len(sent[d]) >= 1 =>
           Len(sent'[d]) >= 1 /\ Context(d)' = Context(d),
         \A d \in C : /\ Len(written'[d]) <= Len(sent'[d])
                      /\ \A n \in 1..Len(written'[d]) :
                           /\ written'[d][n].packet = n
                           /\ written'[d][n].reply \in Replies(sent'[d][n], n),
         UNCHANGED <<identities, published, channel, held, running>>
  PROVE  Inv'
<1> DEFINE S == {m \in Range(senders) : m.from \notin C}
<1>1. /\ \A d \in C : /\ phase'[d] = "closed" /\ responses'[d] = <<>> /\ writing'[d] = None
                      /\ router'[d] = NoRouter
      /\ \A d \in Connections \ C : /\ phase'[d] = phase[d] /\ responses'[d] = responses[d]
                                    /\ writing'[d] = writing[d] /\ router'[d] = router[d]
      /\ senders' = Kept(senders, S)
      /\ cancelled' = cancelled \cup C
  BY DEF Ends
<1>2. senders \in Seq(Messages) /\ Len(senders) \in Nat
  BY DEF Inv, TypeOK
<1>3. senders' \in Seq(Messages)
  BY <1>1, <1>2, KeptFacts
<1>4. \A m : m \in Waiting' <=> m \in Waiting /\ m.from \notin C
  <2>1. \A m : m \in S <=> m \in Waiting /\ m.from \notin C
    BY <1>2, ElementsFacts DEF Waiting
  <2> HIDE DEF S
  <2>2. \A m : m \in Waiting' <=> m \in S /\ m \in Waiting
    <3>1. \A m : m \in Waiting' <=> \E i \in 1..Len(senders') : senders'[i] = m
      BY <1>3, ElementsFacts DEF Waiting
    <3>2. \A m : m \in Waiting <=> \E i \in 1..Len(senders) : senders[i] = m
      BY <1>2, ElementsFacts DEF Waiting
    <3>3. \A m : (\E i \in 1..Len(senders') : senders'[i] = m)
                   <=> m \in S /\ \E i \in 1..Len(senders) : senders[i] = m
      BY <1>1, <1>2, KeptFacts
    <3> QED BY <3>1, <3>2, <3>3
  <2> QED BY <2>1, <2>2
<1>5. \A i, j \in 1..Len(senders') : senders'[i] = senders'[j] => i = j
  <2> HIDE DEF S
  <2> QED BY <1>1, <1>2, KeptFacts DEF Inv, Placed
<1>6. TypeOK'
  <2>1. NoRouter \in Routers /\ <<>> \in Seq(Response)
    BY DEF NoRouter, NewRouter, Routers
  <2>2. /\ phase' \in [Connections -> {"new", "selecting", "writing", "failing", "closed"}]
        /\ responses' \in [Connections -> Seq(Response)]
    BY <2>1 DEF Ends, Inv, TypeOK
  <2>3. /\ writing' \in [Connections -> Response \cup {None}]
        /\ router' \in [Connections -> Routers]
    BY <2>1 DEF Ends, Inv, TypeOK
  <2> QED BY <1>1, <1>3, <2>2, <2>3 DEF Inv, TypeOK
<1>7. ASSUME NEW d \in Connections PROVE ConnectionOK(d)'
  <2>1. CASE d \in C
    <3>1. Numbered(d)'
      BY <1>1, <2>1 DEF Numbered
    <3>2. Matched(d)'
      BY <1>1, <2>1 DEF Matched
    <3>3. Configuring(d)'
      BY <1>1, <2>1 DEF Configuring
    <3> QED BY <3>1, <3>2, <3>3 DEF ConnectionOK
  <2>2. CASE d \notin C
    BY <1>1, <2>2, SameConnection DEF Inv
  <2> QED BY <2>1, <2>2
<1>8. Placed'
  <2>1. InChannel' = InChannel /\ held' = held
    BY DEF InChannel
  <2>2. \A m \in InChannel \cup held : m.from \in Connections
    BY PlacesAreTyped DEF Inv
  <2> QED BY SMTT(30), <1>5, <2>1, <2>2 DEF Inv, Placed
<1>9. Tracked'
  <2>1. InChannel' = InChannel
    BY DEF InChannel
  <2>2. ASSUME NEW d \in Connections, NEW i \in 1..Len(responses'[d])
        PROVE  /\ responses'[d][i].state = "sending" => Message(d, responses'[d][i]) \in Waiting'
               /\ responses'[d][i].state = "sent" =>
                    Message(d, responses'[d][i]) \in InChannel' \cup held'
    <3>1. d \notin C
      BY <1>1, <2>2
    <3>2. responses'[d] = responses[d] /\ Message(d, responses[d][i]).from = d
      BY <1>1, <3>1 DEF Message
    <3> QED BY <1>4, <2>1, <3>1, <3>2 DEF Inv, Tracked
  <2>3. ASSUME NEW m \in Waiting'
        PROVE  \E i \in 1..Len(responses'[m.from]) :
                 responses'[m.from][i].state = "sending" /\ m = Message(m.from, responses'[m.from][i])
    <3>1. m \in Waiting /\ m.from \in Connections \ C
      BY <1>4, PlacesAreTyped DEF Inv
    <3> QED BY <1>1, <3>1 DEF Inv, Tracked
  <2>4. ASSUME NEW m \in InChannel' \cup held', m.from \notin cancelled'
        PROVE  \E i \in 1..Len(responses'[m.from]) :
                 responses'[m.from][i].state = "sent" /\ m = Message(m.from, responses'[m.from][i])
    <3>1. m \in InChannel \cup held /\ m.from \in Connections \ C /\ m.from \notin cancelled
      BY <1>1, <2>1, <2>4, PlacesAreTyped DEF Inv
    <3>2. responses'[m.from] = responses[m.from]
      BY <1>1, <3>1
    <3>3. \E i \in 1..Len(responses[m.from]) :
            responses[m.from][i].state = "sent" /\ m = Message(m.from, responses[m.from][i])
      BY <3>1 DEF Inv, Tracked
    <3> QED BY <3>2, <3>3 DEF Message
  <2>5. ~running' => senders' = <<>> /\ channel' = <<>> /\ held' = {}
    <3> SUFFICES ASSUME ~running PROVE senders' = <<>> /\ channel' = <<>> /\ held' = {}
      OBVIOUS
    <3>1. senders = <<>> /\ channel = <<>> /\ held = {}
      BY DEF Inv, Tracked
    <3>2. Waiting = {}
      BY <1>2, <3>1, ElementsFacts DEF Waiting
    <3>3. Waiting' = {}
      BY <1>4, <3>2
    <3> QED BY <1>3, <3>1, <3>3, ElementsFacts DEF Waiting
  <2> QED BY <2>2, <2>3, <2>4, <2>5 DEF Tracked, Message
<1> QED BY <1>6, <1>7, <1>8, <1>9 DEF Inv
(* What the router makes of a frame that it can route: a response to that  *)
(* frame, and its context from then on.                                    *)
LEMMA RoutedFacts ==
  ASSUME NEW rt \in Routers, NEW frame \in Frame, NEW n \in Nat \ {0},
         Routable(rt, frame), rt.accepts <=> n = 1, n = 1 => rt.context = None
  PROVE  LET f == Routed(rt, frame, n) IN
         /\ f \in Response
         /\ f.packet = n
         /\ f.state \in {"new", "ready"}
         /\ f.state = "ready" => f.reply \in Replies(frame, n)
         /\ f.state # "ready" => frame \in {"identities", "sign"} /\ f.context = rt.context
         /\ Configured(rt, frame, n) \in Routers
         /\ ~Configured(rt, frame, n).accepts
         /\ frame = "context" => n = 1 /\ Configured(rt, frame, n).context = 1
         /\ frame # "context" => Configured(rt, frame, n).context = rt.context
<1> DEFINE f == Routed(rt, frame, n)
<1>1. /\ frame \in {"context", "identities", "bind", "sign"}
      /\ frame = "context" => n = 1
  BY DEF Routable, Frame
<1>2. /\ f \in Response
      /\ f.packet = n
      /\ f.state \in {"new", "ready"}
      /\ f.state = "ready" => f.reply \in Replies(frame, n)
      /\ f.state # "ready" => frame \in {"identities", "sign"} /\ f.context = rt.context
  <2>1. CASE frame = "context"
    <3>1. f = [packet |-> n, state |-> "ready", reply |-> "Success", context |-> None]
      BY <2>1 DEF Routed, Ready
    <3>2. Replies(frame, n) = {"Success"}
      BY <1>1, <2>1 DEF Replies
    <3> QED BY <3>1, <3>2 DEF Response, Reply
  <2>2. CASE frame = "identities" /\ rt.answer # None
    <3>1. f = [packet |-> n, state |-> "ready", reply |-> rt.answer, context |-> None]
      BY <2>2 DEF Routed, Ready
    <3>2. rt.answer \in Lists /\ Lists \subseteq Replies(frame, n)
      BY <2>2 DEF Routers, Replies
    <3> QED BY <3>1, <3>2 DEF Response, Reply
  <2>3. CASE frame = "bind"
    <3>1. f = [packet |-> n, state |-> "ready", reply |-> "Failure", context |-> None]
      BY <2>3 DEF Routed, Ready
    <3>2. Replies(frame, n) = {"Failure"}
      BY <2>3 DEF Replies
    <3> QED BY <3>1, <3>2 DEF Response, Reply
  <2>4. CASE frame = "sign" \/ (frame = "identities" /\ rt.answer = None)
    <3>1. f = [packet |-> n, state |-> "new", reply |-> None, context |-> rt.context]
      BY <2>4 DEF Routed, Forward
    <3>2. rt.context \in Nat \cup {None}
      BY DEF Routers
    <3> QED BY <2>4, <3>1, <3>2 DEF Response
  <2> QED BY <1>1, <2>1, <2>2, <2>3, <2>4
<1>3. /\ Configured(rt, frame, n) \in Routers
      /\ ~Configured(rt, frame, n).accepts
      /\ frame = "context" => Configured(rt, frame, n).context = n
      /\ frame # "context" => Configured(rt, frame, n).context = rt.context
  <2>1. Settled(rt) \in Routers /\ Settled(rt).accepts = FALSE /\ Settled(rt).context = rt.context
    BY DEF Settled, Routers
  <2>2. CASE frame = "context"
    <3>1. Configured(rt, frame, n) = [Settled(rt) EXCEPT !.context = n]
      BY <2>2 DEF Configured
    <3> QED BY <2>1, <2>2, <3>1 DEF Routers
  <2>3. CASE frame # "context"
    BY <2>1, <2>3 DEF Configured
  <2> QED BY <2>2, <2>3
<1> QED BY <1>1, <1>2, <1>3

(* refresh_identity_answer changes the answer only, to the list in force.  *)
LEMMA RefreshedFacts ==
  ASSUME NEW rt \in Routers, TypeOK
  PROVE  /\ Refreshed(rt) \in Routers
         /\ Refreshed(rt).accepts = rt.accepts
         /\ Refreshed(rt).context = rt.context
         /\ (rt.unseen \/ rt.answer = identities) => Refreshed(rt).answer = identities
BY DEF Refreshed, Routers, TypeOK

(* A frame is routed: its response joins those that are owed, at the end.  *)
LEMMA RouteKeepsInv ==
  ASSUME Inv, NEW c \in Connections, NEW frame \in Frame, Route(c, frame)
  PROVE  Inv'
<1> DEFINE rt == Refreshed(router[c])
           n == Len(sent[c]) + 1
           f == Routed(rt, frame, n)
<1>1. /\ phase[c] = "selecting"
      /\ sent' = [sent EXCEPT ![c] = Append(@, frame)]
      /\ Routable(rt, frame)
      /\ router' = [router EXCEPT ![c] = Configured(rt, frame, n)]
      /\ responses' = [responses EXCEPT ![c] = Append(@, f)]
      /\ UNCHANGED <<identities, published, phase, writing, written, senders, channel, held,
                     running, cancelled>>
  BY DEF Route, Receives, watchVars, brokerVars
<1>2. TypeOK /\ ConnectionOK(c) /\ Len(sent[c]) \in Nat /\ router[c] \in Routers
  BY DEF Inv, TypeOK
<1>3. /\ rt \in Routers
      /\ rt.accepts <=> n = 1
      /\ n = 1 => rt.context = None
      /\ n # 1 => rt.context = Context(c)
  BY <1>1, <1>2, RefreshedFacts DEF ConnectionOK, Configuring
<1>4. n \in Nat \ {0}
  BY <1>2
<1> HIDE DEF rt, n
<1>5. /\ f \in Response
      /\ f.packet = n
      /\ f.state \in {"new", "ready"}
      /\ f.state = "ready" => f.reply \in Replies(frame, n)
      /\ f.state # "ready" => frame \in {"identities", "sign"} /\ f.context = rt.context
      /\ Configured(rt, frame, n) \in Routers
      /\ ~Configured(rt, frame, n).accepts
      /\ frame = "context" => n = 1 /\ Configured(rt, frame, n).context = 1
      /\ frame # "context" => Configured(rt, frame, n).context = rt.context
  BY <1>1, <1>3, <1>4, RoutedFacts
<1> HIDE DEF f
<1>6. /\ sent' \in [Connections -> Seq(Frame)]
      /\ Len(sent'[c]) = n
      /\ \A k \in 1..Len(sent[c]) : sent'[c][k] = sent[c][k]
      /\ sent'[c][n] = frame
      /\ \A d \in Connections : d # c => sent'[d] = sent[d]
      /\ \A d \in Connections : Len(sent[d]) >= 1 => Len(sent'[d]) >= 1 /\ Context(d)' = Context(d)
  BY <1>1, <1>2, AnotherFrame DEF n
<1>7. /\ responses[c] \in Seq(Response) /\ Len(responses[c]) \in Nat
      /\ responses'[c] \in Seq(Response)
      /\ Len(responses'[c]) = Len(responses[c]) + 1
      /\ \A i \in 1..Len(responses[c]) : responses'[c][i] = responses[c][i]
      /\ responses'[c][Len(responses[c]) + 1] = f
      /\ \A d \in Connections : d # c => responses'[d] = responses[d]
      /\ responses' \in [Connections -> Seq(Response)]
  <2>1. responses[c] \in Seq(Response) /\ responses'[c] = Append(responses[c], f)
    BY <1>1, <1>2 DEF TypeOK
  <2>2. responses' \in [Connections -> Seq(Response)]
    BY <1>1, <1>2, <1>5, <2>1 DEF TypeOK
  <2> QED BY <1>1, <1>2, <1>5, <2>1, <2>2, AppendProperties DEF TypeOK
<1>8. 1..Len(responses'[c]) = 1..Len(responses[c]) \cup {Len(responses[c]) + 1}
  BY <1>7
<1>9. Context(c)' = IF n = 1 THEN IF frame = "context" THEN 1 ELSE None ELSE Context(c)
  <2>1. CASE n = 1
    BY <1>6, <2>1 DEF Context
  <2>2. CASE n # 1
    BY <1>2, <1>6, <2>2 DEF n
  <2> QED BY <2>1, <2>2
<1>10. TypeOK'
  BY <1>1, <1>2, <1>5, <1>6, <1>7 DEF TypeOK
<1>11. ConnectionOK(c)'
  <2>1. Done(c)' = Done(c) /\ Done(c) = Len(written[c]) /\ Len(written[c]) \in Nat
    BY <1>1, <1>2 DEF Done, TypeOK
  <2>2. Numbered(c)'
    <3>1. Len(sent[c]) = Done(c) + Len(responses[c]) /\ c \notin cancelled
      BY <1>1, <1>2 DEF ConnectionOK, Numbered
    <3>2. \A i \in 1..Len(responses'[c]) : responses'[c][i].packet = Done(c) + i
      <4>1. \A i \in 1..Len(responses[c]) : responses[c][i].packet = Done(c) + i
        BY <1>2 DEF ConnectionOK, Numbered
      <4>2. n = Done(c) + (Len(responses[c]) + 1)
        <5>1. Len(responses[c]) \in Nat /\ Done(c) \in Nat
          BY <1>7, <2>1
        <5> QED BY <3>1, <5>1 DEF n
      <4> QED BY <1>5, <1>7, <1>8, <4>1, <4>2
    <3>3. Len(sent'[c]) = Done(c) + Len(responses'[c]) /\ Len(written'[c]) <= Len(sent'[c])
      <4> DEFINE a == Len(responses[c])  b == Done(c)
      <4>1. a \in Nat /\ b \in Nat
        BY <1>7, <2>1
      <4>2. Len(sent'[c]) = (b + a) + 1 /\ Len(responses'[c]) = a + 1
        BY <1>6, <1>7, <3>1 DEF n
      <4>3. Len(written'[c]) = b
        BY <1>1, <2>1
      <4> HIDE DEF a, b
      <4>4. (b + a) + 1 = b + (a + 1) /\ b <= (b + a) + 1
        BY <4>1
      <4> QED BY <4>2, <4>3, <4>4 DEF b
    <3> QED BY <1>1, <2>1, <3>1, <3>2, <3>3 DEF Numbered
  <2>3. Matched(c)'
    <3>1. ASSUME NEW i \in 1..Len(responses'[c])
          PROVE  Owed(c, responses[c][i])'
      <4>1. CASE i = Len(responses[c]) + 1
        <5>1. responses'[c][i] = f
          BY <1>7, <4>1
        <5>2. CASE f.state = "ready"
          BY <1>5, <1>6, <5>1, <5>2 DEF Owed
        <5>3. CASE f.state # "ready"
          <6>1. f.context = Context(c)' /\ frame \in {"identities", "sign"}
            BY <1>3, <1>5, <1>9, <5>3
          <6> QED BY <1>5, <1>6, <5>1, <5>3, <6>1 DEF Owed
        <5> QED BY <5>2, <5>3
      <4>2. CASE i # Len(responses[c]) + 1
        <5>1. i \in 1..Len(responses[c]) /\ responses'[c][i] = responses[c][i]
          BY <1>7, <1>8, <4>2
        <5>2. /\ responses[c][i].packet \in 1..Len(sent[c])
              /\ Len(sent[c]) >= 1
          BY <1>2, <5>1, PacketsInRange DEF ConnectionOK
        <5>3. Owed(c, responses[c][i])
          BY <1>2, <5>1 DEF ConnectionOK, Matched
        <5>4. /\ sent'[c][responses[c][i].packet] = sent[c][responses[c][i].packet]
              /\ Context(c)' = Context(c)
          BY <1>6, <5>2
        <5> QED BY <5>1, <5>3, <5>4 DEF Owed
      <4> QED BY <4>1, <4>2
    <3>2. \A k \in 1..Len(written[c]) : sent'[c][k] = sent[c][k]
      <4>1. Len(written[c]) <= Len(sent[c])
        BY <1>2 DEF ConnectionOK, Numbered
      <4>2. \A k \in 1..Len(written[c]) : k \in 1..Len(sent[c])
        BY <1>2, <2>1, <4>1
      <4> QED BY <1>6, <4>2
    <3> QED BY <1>1, <1>2, <3>1, <3>2 DEF ConnectionOK, Matched
  <2>4. Configuring(c)'
    <3>1. router'[c] = Configured(rt, frame, n)
      BY <1>1, <1>2 DEF TypeOK
    <3> QED BY <1>3, <1>4, <1>5, <1>6, <1>9, <3>1 DEF Configuring
  <2> QED BY <2>2, <2>3, <2>4 DEF ConnectionOK
<1>12. ASSUME NEW d \in Connections PROVE ConnectionOK(d)'
  <2>1. CASE d # c
    <3>1. router'[d] = router[d]
      BY <1>1, <1>2, <2>1 DEF TypeOK
    <3> QED BY <1>1, <1>6, <1>7, <2>1, <3>1, SameConnection DEF Inv
  <2> QED BY <1>11, <2>1
<1>13. Placed'
  <2>1. InChannel' = InChannel /\ held' = held /\ senders' = senders /\ channel' = channel
    BY <1>1 DEF InChannel
  <2>2. \A m \in InChannel \cup held : m.from \in Connections
    BY <1>2, PlacesAreTyped
  <2> QED BY <1>6, <2>1, <2>2 DEF Inv, Placed
<1>14. Tracked'
  <2>1. InChannel' = InChannel /\ Waiting' = Waiting /\ UNCHANGED <<senders, channel, held, running, cancelled>>
    BY <1>1 DEF InChannel, Waiting
  <2>2. \A m \in Waiting \cup InChannel \cup held : m.from \in Connections
    BY <1>2, PlacesAreTyped
  <2>3. \A d \in Connections : \A i \in 1..Len(responses[d]) :
          i \in 1..Len(responses'[d]) /\ responses'[d][i] = responses[d][i]
    BY <1>7, <1>8
  <2>4. ASSUME NEW d \in Connections, NEW i \in 1..Len(responses'[d])
        PROVE  \/ i \in 1..Len(responses[d]) /\ responses'[d][i] = responses[d][i]
               \/ responses'[d][i].state \notin {"sending", "sent"}
    BY <1>5, <1>7, <1>8
  <2>5. \A m \in Waiting : \E i \in 1..Len(responses'[m.from]) :
          responses'[m.from][i].state = "sending" /\ m = Message(m.from, responses'[m.from][i])
    BY <2>2, <2>3 DEF Inv, Tracked
  <2>6. \A m \in InChannel \cup held : m.from \notin cancelled =>
          \E i \in 1..Len(responses'[m.from]) :
            responses'[m.from][i].state = "sent" /\ m = Message(m.from, responses'[m.from][i])
    BY <2>2, <2>3 DEF Inv, Tracked
  <2>7. \A d \in Connections : \A i \in 1..Len(responses'[d]) :
          /\ responses'[d][i].state = "sending" => Message(d, responses'[d][i]) \in Waiting
          /\ responses'[d][i].state = "sent" => Message(d, responses'[d][i]) \in InChannel \cup held
    BY <2>4 DEF Inv, Tracked
  <2> QED BY <2>1, <2>5, <2>6, <2>7 DEF Inv, Tracked, Message
<1> QED BY <1>10, <1>12, <1>13, <1>14 DEF Inv
(* What a client was sent answers its frames, also after another frame.    *)
LEMMA StillAnswered ==
  ASSUME TypeOK, NEW c \in Connections, ConnectionOK(c), NEW frame \in Frame,
         sent' = [sent EXCEPT ![c] = Append(@, frame)] \/ sent' = sent
  PROVE  /\ Len(written[c]) \in Nat /\ Len(sent'[c]) \in Nat
         /\ Len(written[c]) <= Len(sent'[c])
         /\ \A n \in 1..Len(written[c]) :
              /\ written[c][n].packet = n
              /\ written[c][n].reply \in Replies(sent'[c][n], n)
<1>1. Len(written[c]) \in Nat /\ Len(sent[c]) \in Nat
  BY DEF TypeOK
<1>2. /\ Len(written[c]) <= Len(sent[c])
      /\ \A n \in 1..Len(written[c]) :
           /\ written[c][n].packet = n
           /\ written[c][n].reply \in Replies(sent[c][n], n)
  BY DEF ConnectionOK, Numbered, Matched
<1>3. CASE sent' = sent
  BY <1>1, <1>2, <1>3
<1>4. CASE sent' = [sent EXCEPT ![c] = Append(@, frame)]
  <2>1. Len(sent'[c]) = Len(sent[c]) + 1 /\ \A n \in 1..Len(sent[c]) : sent'[c][n] = sent[c][n]
    BY <1>4, AnotherFrame
  <2>2. \A n \in 1..Len(written[c]) : n \in 1..Len(sent[c])
    BY <1>1, <1>2
  <2> QED BY <1>1, <1>2, <2>1, <2>2
<1> QED BY <1>3, <1>4

(* A task ends on a frame: that frame is counted as received.              *)
LEMMA EndsAfterFrame ==
  ASSUME Inv, NEW c \in Connections, NEW frame \in Frame, Receives(c, frame), Ends({c}),
         UNCHANGED <<identities, published, written, channel, held, running>>
  PROVE  Inv'
<1>1. phase[c] = "selecting" /\ sent' = [sent EXCEPT ![c] = Append(@, frame)]
  BY DEF Receives
<1>2. TypeOK /\ ConnectionOK(c)
  BY DEF Inv
<1>3. /\ sent' \in [Connections -> Seq(Frame)]
      /\ \A d \in Connections \ {c} : sent'[d] = sent[d]
      /\ \A d \in Connections : Len(sent[d]) >= 1 =>
           Len(sent'[d]) >= 1 /\ Context(d)' = Context(d)
  BY <1>1, <1>2, AnotherFrame
<1>4. \A d \in {c} : /\ Len(written'[d]) <= Len(sent'[d])
                     /\ \A n \in 1..Len(written'[d]) :
                          /\ written'[d][n].packet = n
                          /\ written'[d][n].reply \in Replies(sent'[d][n], n)
  BY <1>1, <1>2, StillAnswered
<1>5. /\ {c} \in SUBSET Connections /\ \A d \in {c} : phase[d] # "new"
      /\ written' \in [Connections -> Seq(Response)]
      /\ \A d \in Connections \ {c} : written'[d] = written[d]
  BY <1>1, <1>2 DEF TypeOK
<1> QED BY <1>3, <1>4, <1>5, EndsKeepsInv

(* Tasks end without another frame or response.                            *)
LEMMA EndsAlone ==
  ASSUME Inv, NEW C \in SUBSET Connections, \A c \in C : phase[c] # "new", Ends(C),
         UNCHANGED <<identities, published, sent, written, channel, held, running>>
  PROVE  Inv'
<1>1. TypeOK /\ \A c \in C : ConnectionOK(c)
  BY DEF Inv
<1>2. \A d \in C : /\ Len(written'[d]) <= Len(sent'[d])
                   /\ \A n \in 1..Len(written'[d]) :
                        /\ written'[d][n].packet = n
                        /\ written'[d][n].reply \in Replies(sent'[d][n], n)
  BY <1>1 DEF ConnectionOK, Numbered, Matched
<1>3. \A d \in Connections : Context(d)' = Context(d)
  BY DEF Context
<1>4. sent' \in [Connections -> Seq(Frame)] /\ written' \in [Connections -> Seq(Response)]
  BY <1>1 DEF TypeOK
<1> QED BY <1>2, <1>3, <1>4, EndsKeepsInv

(* A malformed frame: the failure is written after what is owed, or not at *)
(* all.                                                                    *)
LEMMA RejectKeepsInv ==
  ASSUME Inv, NEW c \in Connections, NEW frame \in Frame, Reject(c, frame)
  PROVE  Inv'
<1> DEFINE rt == Refreshed(router[c])
           n == Len(sent[c]) + 1
<1>1. /\ Receives(c, frame)
      /\ phase[c] = "selecting"
      /\ sent' = [sent EXCEPT ![c] = Append(@, frame)]
      /\ ~Routable(rt, frame)
      /\ UNCHANGED <<identities, published, written, channel, held, running>>
  BY DEF Reject, Receives, watchVars
<1>2. TypeOK /\ ConnectionOK(c) /\ Len(sent[c]) \in Nat /\ router[c] \in Routers
  BY DEF Inv, TypeOK
<1>3. CASE responses[c] # <<>> /\ Ends({c})
  BY <1>1, <1>3, EndsAfterFrame
<1>4. CASE /\ responses[c] = <<>>
           /\ phase' = [phase EXCEPT ![c] = "failing"]
           /\ writing' = [writing EXCEPT ![c] = Ready(n, "Failure")]
           /\ UNCHANGED <<responses, router, senders, cancelled>>
  <2>1. rt.accepts <=> n = 1
    BY <1>1, <1>2, RefreshedFacts DEF ConnectionOK, Configuring
  <2>2. Replies(frame, n) = {"Failure"}
    <3>1. frame \in {"malformed", "badContext"} \/ (frame = "context" /\ n # 1)
      BY <1>1, <2>1 DEF Routable
    <3> QED BY <3>1 DEF Replies
  <2>3. n \in Nat
    BY <1>2
  <2> HIDE DEF rt, n
  <2>4. /\ Ready(n, "Failure") \in Response
        /\ Ready(n, "Failure").packet = n
        /\ Ready(n, "Failure").reply = "Failure"
    BY <2>3 DEF Ready, Response, Reply
  <2>5. /\ sent' \in [Connections -> Seq(Frame)]
        /\ Len(sent'[c]) = n
        /\ sent'[c][n] = frame
        /\ \A d \in Connections : d # c => sent'[d] = sent[d]
        /\ \A d \in Connections : Len(sent[d]) >= 1 => Len(sent'[d]) >= 1 /\ Context(d)' = Context(d)
    BY <1>1, <1>2, AnotherFrame DEF n
  <2>6. TypeOK'
    BY <1>1, <1>2, <1>4, <2>4, <2>5 DEF TypeOK
  <2>7. ASSUME NEW d \in Connections PROVE ConnectionOK(d)'
    <3>1. CASE d # c
      <4>1. phase'[d] = phase[d] /\ writing'[d] = writing[d]
        BY <1>2, <1>4, <3>1 DEF TypeOK
      <4> QED BY <1>1, <1>4, <2>5, <3>1, <4>1, SameConnection DEF Inv
    <3>2. CASE d = c
      <4>1. phase'[c] = "failing" /\ writing'[c] = Ready(n, "Failure") /\ responses'[c] = <<>>
            /\ written'[c] = written[c]
        BY <1>1, <1>2, <1>4 DEF TypeOK
      <4>2. Len(sent[c]) = Len(written[c]) + 0 /\ c \notin cancelled
        BY <1>1, <1>2, <1>4 DEF ConnectionOK, Numbered, Done
      <4>3. Len(written[c]) \in Nat /\ n = Len(written[c]) + 1
        BY <1>2, <4>2 DEF TypeOK, n
      <4>4. Numbered(c)'
        <5>1. Done(c)' = n
          BY <4>1, <4>3 DEF Done
        <5>2. Len(responses'[c]) = 0 /\ n = n + 0 /\ Len(written[c]) <= n
          BY <2>3, <4>1, <4>3
        <5>3. /\ Len(sent'[c]) = Done(c)' + Len(responses'[c]) /\ c \notin cancelled'
              /\ Len(written'[c]) <= Len(sent'[c])
              /\ writing'[c] \in Response /\ writing'[c].packet = Len(written'[c]) + 1
          BY <1>4, <2>4, <2>5, <4>1, <4>2, <4>3, <5>1, <5>2
        <5>4. \A i \in 1..Len(responses'[c]) : FALSE
          BY <5>2
        <5> QED BY <4>1, <5>3, <5>4 DEF Numbered
      <4>5. Matched(c)'
        <5>1. \A k \in 1..Len(written[c]) :
                /\ written[c][k].packet = k
                /\ written[c][k].reply \in Replies(sent'[c][k], k)
          BY <1>1, <1>2, StillAnswered
        <5> QED BY <2>2, <2>4, <2>5, <4>1, <5>1 DEF Matched
      <4>6. Configuring(c)'
        BY <4>1 DEF Configuring
      <4> QED BY <3>2, <4>4, <4>5, <4>6 DEF ConnectionOK
    <3> QED BY <3>1, <3>2
  <2>8. Placed'
    <3>1. InChannel' = InChannel /\ held' = held /\ senders' = senders /\ channel' = channel
      BY <1>1, <1>4 DEF InChannel
    <3>2. \A m \in InChannel \cup held : m.from \in Connections
      BY <1>2, PlacesAreTyped
    <3> QED BY <2>5, <3>1, <3>2 DEF Inv, Placed
  <2>9. Tracked'
    BY <1>1, <1>4 DEF Inv, Tracked, Waiting, InChannel, Message
  <2> QED BY <2>6, <2>7, <2>8, <2>9 DEF Inv
<1> QED BY <1>3, <1>4 DEF Reject

(* Excessive pipelining, a hang-up and the shutdown.                       *)
LEMMA EndingsKeepInv ==
  ASSUME Inv,
         \/ \E c \in Connections : Hangup(c) \/ \E frame \in Frame : RejectPipelined(c, frame)
         \/ Shutdown
  PROVE  Inv'
<1>1. ASSUME NEW c \in Connections, NEW frame \in Frame, RejectPipelined(c, frame) PROVE Inv'
  BY <1>1, EndsAfterFrame DEF RejectPipelined, watchVars
<1>2. ASSUME NEW c \in Connections, Hangup(c) PROVE Inv'
  <2>1. {c} \in SUBSET Connections /\ \A d \in {c} : phase[d] # "new"
    BY <1>2 DEF Hangup
  <2> QED BY <1>2, <2>1, EndsAlone DEF Hangup, watchVars
<1>3. CASE Shutdown
  <2> DEFINE C == {c \in Connections : phase[c] # "new"}
  <2>1. C \in SUBSET Connections /\ \A d \in C : phase[d] # "new"
    OBVIOUS
  <2>2. Ends(C) /\ UNCHANGED <<identities, published, sent, written, channel, held, running>>
    BY <1>3 DEF Shutdown, watchVars
  <2> HIDE DEF C
  <2> QED BY <2>1, <2>2, EndsAlone
<1> QED BY <1>1, <1>2, <1>3
(* FuturesOrdered yields the first response: it is the next in number.     *)
LEMMA RespondKeepsInv ==
  ASSUME Inv, NEW c \in Connections, Respond(c)
  PROVE  Inv'
<1> DEFINE q == responses[c]
           k == Len(written[c])
<1>1. /\ phase[c] = "selecting"
      /\ q # <<>> /\ Head(q).state = "ready"
      /\ writing' = [writing EXCEPT ![c] = Head(q)]
      /\ responses' = [responses EXCEPT ![c] = Tail(q)]
      /\ phase' = [phase EXCEPT ![c] = "writing"]
      /\ UNCHANGED <<identities, published, sent, router, written, senders, channel, held, running,
                     cancelled>>
  BY DEF Respond, watchVars, brokerVars
<1>2. TypeOK /\ ConnectionOK(c) /\ q \in Seq(Response)
  BY DEF Inv, TypeOK
<1>3. /\ Tail(q) \in Seq(Response)
      /\ Len(q) \in Nat /\ Len(q) >= 1
      /\ Len(Tail(q)) = Len(q) - 1
      /\ \A i \in 1..Len(Tail(q)) : Tail(q)[i] = q[i + 1]
      /\ Head(q) = q[1] /\ q[1] \in Response
  BY <1>1, <1>2, HeadTailProperties
<1>4. /\ phase'[c] = "writing" /\ responses'[c] = Tail(q) /\ writing'[c] = q[1]
      /\ \A d \in Connections : d # c => /\ phase'[d] = phase[d] /\ responses'[d] = responses[d]
                                         /\ writing'[d] = writing[d]
  BY <1>1, <1>2, <1>3 DEF TypeOK
<1>5. TypeOK'
  BY <1>1, <1>2, <1>3 DEF TypeOK
<1>6. /\ k \in Nat
      /\ Done(c) = k /\ Done(c)' = k + 1
  <2>1. k \in Nat
    BY <1>2 DEF TypeOK
  <2>2. phase[c] = "selecting" /\ phase'[c] = "writing" /\ Len(written'[c]) = k
    BY <1>1, <1>4
  <2> HIDE DEF k
  <2>3. Done(c) = k + 0
    BY <2>2 DEF Done, k
  <2>4. Done(c)' = k + 1
    BY <2>2 DEF Done
  <2> QED BY <2>1, <2>3, <2>4
<1>7. /\ Len(sent[c]) = k + Len(q) /\ c \notin cancelled /\ k <= Len(sent[c])
      /\ \A i \in 1..Len(q) : q[i].packet = k + i
      /\ \A i \in 1..Len(q) : Owed(c, q[i])
      /\ \A n \in 1..k : written[c][n].packet = n /\ written[c][n].reply \in Replies(sent[c][n], n)
  BY <1>1, <1>2, <1>6 DEF ConnectionOK, Numbered, Matched
<1>8. \A i \in 1..Len(Tail(q)) : i + 1 \in 1..Len(q)
  BY <1>3
<1>9. ConnectionOK(c)'
  <2> HIDE DEF k, q
  <2>1. Numbered(c)'
    <3>1. Len(sent[c]) = (k + 1) + Len(Tail(q))
      BY <1>3, <1>6, <1>7
    <3>2. \A i \in 1..Len(Tail(q)) : Tail(q)[i].packet = (k + 1) + i
      <4> TAKE i \in 1..Len(Tail(q))
      <4>1. i \in Nat /\ k + (i + 1) = (k + 1) + i
        BY <1>3, <1>6
      <4> QED BY <1>3, <1>7, <1>8, <4>1
    <3>3. q[1].packet = k + 1
      BY <1>3, <1>7
    <3> QED BY <1>1, <1>3, <1>4, <1>6, <1>7, <3>1, <3>2, <3>3 DEF Numbered, k
  <2>2. Matched(c)'
    <3>1. \A i \in 1..Len(Tail(q)) : Owed(c, Tail(q)[i])
      BY <1>3, <1>7, <1>8
    <3>2. \A i \in 1..Len(Tail(q)) : Owed(c, responses[c][i])'
      BY <1>1, <1>4, <3>1 DEF Owed, Context
    <3>3. 1 \in 1..Len(q) /\ q[1].state = "ready"
      BY <1>1, <1>3
    <3>4. q[1].reply \in Replies(sent[c][q[1].packet], q[1].packet)
      BY <1>7, <3>3 DEF Owed
    <3> QED BY <1>1, <1>4, <1>7, <3>2, <3>4 DEF Matched, k
  <2>3. Configuring(c)'
    BY <1>1, <1>2, <1>4 DEF ConnectionOK, Configuring, Context
  <2> QED BY <2>1, <2>2, <2>3 DEF ConnectionOK
<1>10. \A d \in Connections : ConnectionOK(d)'
  BY <1>1, <1>4, <1>9, SameConnection DEF Inv
<1>11. Placed'
  BY <1>1 DEF Inv, Placed, InChannel, Context
<1>12. Tracked'
  <2>1. \A m \in Waiting \cup InChannel \cup held : m.from \in Connections
    BY <1>2, PlacesAreTyped
  <2>2. ASSUME NEW d \in Connections, NEW i \in 1..Len(responses[d]), responses[d][i].state # "ready"
        PROVE  \E j \in 1..Len(responses'[d]) : responses'[d][j] = responses[d][i]
    <3>1. CASE d # c
      BY <1>4, <3>1
    <3>2. CASE d = c
      <4>1. i # 1 /\ i - 1 \in 1..Len(Tail(q)) /\ (i - 1) + 1 = i
        BY <1>1, <1>3, <2>2, <3>2
      <4>2. Tail(q)[i - 1] = q[i]
        BY <1>3, <4>1
      <4>3. responses'[d] = Tail(q) /\ responses[d] = q
        BY <1>4, <3>2
      <4> HIDE DEF q
      <4> QED BY <4>1, <4>2, <4>3
    <3> QED BY <3>1, <3>2
  <2>3. ASSUME NEW d \in Connections, NEW i \in 1..Len(responses'[d])
        PROVE  \E j \in 1..Len(responses[d]) : responses'[d][i] = responses[d][j]
    <3>1. CASE d # c
      BY <1>4, <3>1
    <3>2. CASE d = c
      <4>1. i \in 1..Len(Tail(q)) /\ responses'[d][i] = q[i + 1] /\ i + 1 \in 1..Len(q)
        BY <1>3, <1>4, <1>8, <3>2
      <4> QED BY <3>2, <4>1
    <3> QED BY <3>1, <3>2
  <2>4. InChannel' = InChannel /\ Waiting' = Waiting
    BY <1>1 DEF InChannel, Waiting
  <2>5. \A d \in Connections : \A i \in 1..Len(responses'[d]) :
          /\ responses'[d][i].state = "sending" => Message(d, responses'[d][i]) \in Waiting
          /\ responses'[d][i].state = "sent" => Message(d, responses'[d][i]) \in InChannel \cup held
    BY <2>3 DEF Inv, Tracked
  <2>6. \A m \in Waiting : \E i \in 1..Len(responses'[m.from]) :
          responses'[m.from][i].state = "sending" /\ m = Message(m.from, responses'[m.from][i])
    <3> TAKE m \in Waiting
    <3>1. PICK i \in 1..Len(responses[m.from]) :
            responses[m.from][i].state = "sending" /\ m = Message(m.from, responses[m.from][i])
      BY DEF Inv, Tracked
    <3> QED BY <2>1, <2>2, <3>1
  <2>7. \A m \in InChannel \cup held : m.from \notin cancelled =>
          \E i \in 1..Len(responses'[m.from]) :
            responses'[m.from][i].state = "sent" /\ m = Message(m.from, responses'[m.from][i])
    <3> SUFFICES ASSUME NEW m \in InChannel \cup held, m.from \notin cancelled
                 PROVE  \E i \in 1..Len(responses'[m.from]) :
                   responses'[m.from][i].state = "sent" /\ m = Message(m.from, responses'[m.from][i])
      OBVIOUS
    <3>1. PICK i \in 1..Len(responses[m.from]) :
            responses[m.from][i].state = "sent" /\ m = Message(m.from, responses[m.from][i])
      BY DEF Inv, Tracked
    <3> QED BY <2>1, <2>2, <3>1
  <2> QED BY <1>1, <2>4, <2>5, <2>6, <2>7 DEF Inv, Tracked, Message
<1> QED BY <1>5, <1>10, <1>11, <1>12 DEF Inv

(* write_all completes or fails.                                           *)
LEMMA WriteKeepsInv ==
  ASSUME Inv, NEW c \in Connections, Write(c)
  PROVE  Inv'
<1> DEFINE w == writing[c]
           k == Len(written[c])
<1>1. /\ written' = [written EXCEPT ![c] = Append(@, w)]
      /\ phase[c] \in {"writing", "failing"}
      /\ UNCHANGED <<identities, published, sent, channel, held, running>>
  BY DEF Write, watchVars
<1>2. TypeOK /\ ConnectionOK(c) /\ written[c] \in Seq(Response) /\ k \in Nat
  BY DEF Inv, TypeOK
<1>3. /\ w \in Response /\ w.packet = k + 1
      /\ w.reply \in Replies(sent[c][k + 1], k + 1)
      /\ \A n \in 1..k : written[c][n].packet = n /\ written[c][n].reply \in Replies(sent[c][n], n)
      /\ Len(sent[c]) = (k + 1) + Len(responses[c]) /\ c \notin cancelled
  BY <1>1, <1>2 DEF ConnectionOK, Numbered, Matched, Done
<1>4. /\ written'[c] \in Seq(Response)
      /\ Len(written'[c]) = k + 1
      /\ \A n \in 1..k : written'[c][n] = written[c][n]
      /\ written'[c][k + 1] = w
  <2>1. written'[c] = Append(written[c], w)
    BY <1>1, <1>2 DEF TypeOK
  <2> QED BY <1>2, <1>3, <2>1, AppendProperties
<1>5. /\ written' \in [Connections -> Seq(Response)]
      /\ \A d \in Connections : d # c => written'[d] = written[d]
  BY <1>1, <1>2, <1>3 DEF TypeOK
<1> HIDE DEF w, k
<1>6. /\ Len(written'[c]) <= Len(sent'[c])
      /\ \A n \in 1..Len(written'[c]) :
           written'[c][n].packet = n /\ written'[c][n].reply \in Replies(sent'[c][n], n)
  <2>1. Len(responses[c]) \in Nat
    BY <1>2 DEF TypeOK
  <2>2. 1..Len(written'[c]) = 1..k \cup {k + 1}
    BY <1>2, <1>4
  <2>3. Len(written'[c]) <= Len(sent[c])
    BY <1>2, <1>3, <1>4, <2>1
  <2> QED BY <1>1, <1>3, <1>4, <2>2, <2>3
<1>7. CASE phase[c] = "failing" /\ Ends({c})
  <2>1. {c} \in SUBSET Connections /\ \A d \in {c} : phase[d] # "new"
    BY <1>7
  <2>2. \A d \in Connections : Context(d)' = Context(d)
    BY <1>1 DEF Context
  <2>3. sent' \in [Connections -> Seq(Frame)]
    BY <1>1, <1>2 DEF TypeOK
  <2> QED BY <1>1, <1>5, <1>6, <1>7, <2>1, <2>2, <2>3, EndsKeepsInv
<1>8. CASE /\ phase[c] = "writing"
           /\ phase' = [phase EXCEPT ![c] = "selecting"]
           /\ writing' = [writing EXCEPT ![c] = None]
           /\ UNCHANGED <<responses, router, senders, cancelled>>
  <2>1. TypeOK'
    BY <1>1, <1>2, <1>5, <1>8 DEF TypeOK
  <2>2. /\ phase'[c] = "selecting"
        /\ \A d \in Connections : d # c => phase'[d] = phase[d] /\ writing'[d] = writing[d]
    BY <1>2, <1>8 DEF TypeOK
  <2>3. Done(c)' = k + 1 /\ Done(c) = k + 1
    <3>1. /\ phase[c] = "writing" /\ phase'[c] = "selecting" /\ k \in Nat
          /\ Len(written'[c]) = k + 1 /\ Len(written[c]) = k
      BY <1>2, <1>4, <1>8, <2>2 DEF k
    <3>2. Done(c) = k + 1
      BY <3>1 DEF Done
    <3>3. Done(c)' = (k + 1) + 0
      BY <3>1 DEF Done
    <3> QED BY <3>1, <3>2, <3>3
  <2>4. ConnectionOK(c)'
    <3>1. Numbered(c)'
      <4>1. \A i \in 1..Len(responses[c]) : responses[c][i].packet = k + 1 + i
        BY <1>2, <2>3 DEF ConnectionOK, Numbered
      <4> QED BY <1>1, <1>3, <1>6, <1>8, <2>2, <2>3, <4>1 DEF Numbered
    <3>2. Matched(c)'
      <4>1. \A i \in 1..Len(responses[c]) : Owed(c, responses[c][i])'
        BY <1>1, <1>2, <1>8 DEF ConnectionOK, Matched, Owed, Context
      <4> QED BY <1>6, <1>8, <2>2, <4>1 DEF Matched
    <3>3. Configuring(c)'
      BY <1>1, <1>2, <1>8, <2>2 DEF ConnectionOK, Configuring, Context
    <3> QED BY <3>1, <3>2, <3>3 DEF ConnectionOK
  <2>5. \A d \in Connections : ConnectionOK(d)'
    BY <1>1, <1>5, <1>8, <2>2, <2>4, SameConnection DEF Inv
  <2> QED BY <1>1, <1>8, <2>1, <2>5, SamePlaces DEF Inv
<1> QED BY <1>7, <1>8 DEF Write
-----------------------------------------------------------------------------
(* The daemon around the connections. *)

(* The pairing service publishes another list.                             *)
LEMMA PublishKeepsInv ==
  ASSUME Inv, NEW l \in Lists \cup {None}, Publish(l)
  PROVE  Inv'
<1>1. /\ identities' = l /\ published' = TRUE
      /\ router' = [c \in Connections |->
           IF phase[c] \in {"new", "closed"} THEN router[c] ELSE [router[c] EXCEPT !.unseen = TRUE]]
      /\ UNCHANGED <<phase, sent, responses, writing, written, senders, channel, held, running, cancelled>>
  BY DEF Publish, brokerVars
<1>2. \A c \in Connections : /\ router'[c] \in Routers
                             /\ router'[c].accepts = router[c].accepts
                             /\ router'[c].context = router[c].context
  <2> TAKE c \in Connections
  <2>1. router[c] \in Routers
    BY DEF Inv, TypeOK
  <2>2. router'[c] = router[c] \/ router'[c] = [router[c] EXCEPT !.unseen = TRUE]
    BY <1>1
  <2> QED BY <2>1, <2>2 DEF Routers
<1>3. TypeOK'
  <2>1. router' \in [Connections -> Routers]
    BY <1>1, <1>2
  <2> QED BY <1>1, <2>1 DEF Inv, TypeOK
<1>4. \A d \in Connections : ConnectionOK(d)'
  BY <1>1, <1>2, SameConnection DEF Inv
<1> QED BY <1>1, <1>3, <1>4, SamePlaces DEF Inv

(* The channel holds one request at most.                                  *)
LEMMA ChannelFacts ==
  ASSUME TypeOK, Placed
  PROVE  /\ channel # <<>> => /\ InChannel = {Head(channel)}
                              /\ Tail(channel) = <<>>
                              /\ Head(channel) \in Messages
         /\ Elements(<<>>) = {}
         /\ channel = <<>> => InChannel = {}
<1>1. channel \in Seq(Messages) /\ Len(channel) \in Nat /\ Len(channel) <= 1
  BY DEF TypeOK, Placed
<1>2. Elements(<<>>) = {}
  BY DEF Elements
<1>3. ASSUME channel # <<>>
      PROVE  InChannel = {Head(channel)} /\ Tail(channel) = <<>> /\ Head(channel) \in Messages
  <2>1. Len(channel) = 1 /\ Head(channel) = channel[1] /\ Head(channel) \in Messages
    <3>1. Len(channel) # 0
      BY <1>1, <1>3, EmptySeq
    <3>2. Len(channel) = 1
      BY <1>1, <3>1
    <3> QED BY <1>1, <1>3, <3>2, HeadTailProperties
  <2>2. InChannel = {channel[1]}
    BY <2>1 DEF InChannel, Elements
  <2>3. Tail(channel) \in Seq(Messages) /\ Len(Tail(channel)) = 0
    BY <1>1, <1>3, <2>1, HeadTailProperties
  <2>4. Tail(channel) = <<>>
    BY <2>3, EmptySeq
  <2> QED BY <2>1, <2>2, <2>4
<1> QED BY <1>2, <1>3 DEF InChannel

(* The broker takes the request in the channel.                            *)
LEMMA TakeKeepsInv ==
  ASSUME Inv, Take
  PROVE  Inv'
<1>1. /\ running /\ channel # <<>>
      /\ held' = held \cup {Head(channel)} /\ channel' = Tail(channel)
      /\ UNCHANGED <<identities, published, phase, sent, router, responses, writing, written,
                     senders, running, cancelled>>
  BY DEF Take, watchVars, localVars
<1>2. TypeOK /\ Placed /\ Tracked
  BY DEF Inv
<1>3. /\ InChannel = {Head(channel)} /\ Head(channel) \in Messages
      /\ channel' = <<>> /\ InChannel' = {} /\ Waiting' = Waiting
  BY <1>1, <1>2, ChannelFacts DEF InChannel, Waiting
<1>4. TypeOK'
  BY <1>1, <1>2, <1>3 DEF TypeOK
<1>5. \A d \in Connections : ConnectionOK(d)'
  BY <1>1, SameConnection DEF Inv
<1>6. InChannel' \cup held' = InChannel \cup held
  BY <1>1, <1>3
<1>7. Placed'
  <2>1. Len(channel') <= 1
    BY <1>3
  <2>2. \A m \in InChannel' \cup held' : Len(sent'[m.from]) >= 1 /\ m.context = Context(m.from)'
    BY <1>1, <1>2, <1>6 DEF Placed, Context
  <2> QED BY <1>1, <1>2, <1>3, <2>1, <2>2 DEF Placed
<1>8. Tracked'
  BY <1>1, <1>2, <1>3, <1>6 DEF Tracked, Message
<1> QED BY <1>4, <1>5, <1>7, <1>8 DEF Inv

(* A request and the response that waits for it.                           *)
LEMMA OneResponse ==
  ASSUME Inv, NEW d \in Connections, NEW i \in 1..Len(responses[d])
  PROVE  /\ Message(d, responses[d][i]) \in Waiting => responses[d][i].state = "sending"
         /\ Message(d, responses[d][i]) \in InChannel \cup held => responses[d][i].state = "sent"
<1> DEFINE m == Message(d, responses[d][i])
<1>1. TypeOK /\ Numbered(d) /\ responses[d] \in Seq(Response)
  BY DEF Inv, ConnectionOK, TypeOK
<1>2. \A j \in 1..Len(responses[d]) : m = Message(d, responses[d][j]) => j = i
  <2> TAKE j \in 1..Len(responses[d])
  <2>1. responses[d][i] \in Response /\ responses[d][j] \in Response
    BY <1>1
  <2>2. m = Message(d, responses[d][j]) => responses[d][i].packet = responses[d][j].packet
    BY <2>1, MessageFacts
  <2> QED BY <1>1, <2>2, PacketsDiffer
<1>3. m.from = d /\ d \notin cancelled
  BY <1>1, PacketsInRange, MessageFacts
<1> HIDE DEF m
<1>4. m \in Waiting => responses[d][i].state = "sending"
  BY <1>2, <1>3 DEF Inv, Tracked
<1>5. m \in InChannel \cup held => responses[d][i].state = "sent"
  BY <1>2, <1>3 DEF Inv, Tracked
<1> QED BY <1>4, <1>5 DEF m

(* A reply makes exactly the responses of the answered requests ready.     *)
LEMMA ResolveFacts ==
  ASSUME Inv, NEW M \in SUBSET (Waiting \cup InChannel \cup held), NEW reply \in {"Remote", "Failure"},
         Resolve(M, reply), UNCHANGED <<phase, sent, router, writing, written, cancelled>>
  PROVE  /\ responses' \in [Connections -> Seq(Response)]
         /\ \A d \in Connections : Len(responses'[d]) = Len(responses[d])
         /\ \A d \in Connections : \A i \in 1..Len(responses[d]) :
              IF Message(d, responses[d][i]) \in M
              THEN responses'[d][i].state = "ready"
              ELSE responses'[d][i] = responses[d][i]
         /\ \A d \in Connections : ConnectionOK(d)'
<1>1. \A d \in Connections : responses[d] \in Seq(Response) /\ Len(responses[d]) \in Nat
                             /\ DOMAIN responses[d] = 1..Len(responses[d])
  BY DEF Inv, TypeOK
<1> DEFINE g(d) == [i \in 1..Len(responses[d]) |->
             IF Message(d, responses[d][i]) \in M THEN Ready(responses[d][i].packet, reply)
             ELSE responses[d][i]]
<1>2. responses' = [d \in Connections |-> g(d)]
  BY <1>1 DEF Resolve
<1>3. \A f \in Response : Ready(f.packet, reply) \in Response
  BY DEF Ready, Response, Reply
<1>4. \A d \in Connections : g(d) \in Seq(Response) /\ Len(g(d)) = Len(responses[d])
  <2> TAKE d \in Connections
  <2>1. g(d) \in [1..Len(responses[d]) -> Response]
    BY <1>1, <1>3
  <2> HIDE DEF g
  <2> QED BY <1>1, <2>1, SeqOfFunction
<1>5. ASSUME NEW d \in Connections, NEW i \in 1..Len(responses[d])
      PROVE  IF Message(d, responses[d][i]) \in M
             THEN g(d)[i] = Ready(responses[d][i].packet, reply)
             ELSE g(d)[i] = responses[d][i]
  OBVIOUS
<1> HIDE DEF g
<1>6. responses' \in [Connections -> Seq(Response)]
      /\ \A d \in Connections : responses'[d] = g(d)
  BY <1>2, <1>4
<1>7. ASSUME NEW d \in Connections, NEW i \in 1..Len(responses[d])
      PROVE  IF Message(d, responses[d][i]) \in M
             THEN responses'[d][i].state = "ready"
             ELSE responses'[d][i] = responses[d][i]
  <2>1. responses'[d] = g(d)
    BY <1>6
  <2>2. Ready(responses[d][i].packet, reply).state = "ready"
    BY DEF Ready
  <2> QED BY <1>5, <2>1, <2>2
<1>8. ASSUME NEW d \in Connections PROVE ConnectionOK(d)'
  <2>1. TypeOK /\ ConnectionOK(d)
    BY DEF Inv
  <2>2. ASSUME NEW i \in 1..Len(responses[d])
        PROVE  /\ responses'[d][i].packet = responses[d][i].packet
               /\ \/ responses'[d][i] = responses[d][i]
                  \/ /\ responses[d][i].state # "ready"
                     /\ responses'[d][i].state = "ready"
                     /\ responses'[d][i].reply \in {"Remote", "Failure"}
    <3>1. CASE Message(d, responses[d][i]) \in M
      <4>1. responses[d][i].state # "ready"
        BY <3>1, OneResponse
      <4>2. responses'[d][i] = Ready(responses[d][i].packet, reply)
        BY <1>5, <1>6, <3>1
      <4> QED BY <4>1, <4>2 DEF Ready
    <3>2. CASE Message(d, responses[d][i]) \notin M
      BY <1>5, <1>6, <3>2
    <3> QED BY <3>1, <3>2
  <2> QED BY <1>4, <1>6, <2>1, <2>2, Relabelled
<1> QED BY <1>4, <1>6, <1>7, <1>8

(* The broker answers a request, or one whose token is cancelled.          *)
LEMMA AnswerKeepsInv ==
  ASSUME Inv, NEW m, NEW reply \in {"Remote", "Failure"}, Answer(m, reply)
  PROVE  Inv'
<1>1. /\ running /\ m \in held
      /\ held' = held \ {m}
      /\ Resolve({m}, reply)
      /\ UNCHANGED <<identities, published, phase, sent, router, writing, written, senders, channel,
                     running, cancelled>>
  BY DEF Answer, watchVars
<1>2. /\ responses' \in [Connections -> Seq(Response)]
      /\ \A d \in Connections : Len(responses'[d]) = Len(responses[d])
      /\ \A d \in Connections : \A i \in 1..Len(responses[d]) :
           IF Message(d, responses[d][i]) \in {m}
           THEN responses'[d][i].state = "ready"
           ELSE responses'[d][i] = responses[d][i]
      /\ \A d \in Connections : ConnectionOK(d)'
  <2>1. {m} \in SUBSET (Waiting \cup InChannel \cup held)
    BY <1>1
  <2> QED BY <1>1, <2>1, ResolveFacts
<1>3. TypeOK /\ Placed /\ Tracked
  BY DEF Inv
<1>4. TypeOK'
  BY <1>1, <1>2, <1>3 DEF TypeOK
<1>5. InChannel' = InChannel /\ Waiting' = Waiting /\ InChannel' \cup held' = (InChannel \cup held) \ {m}
  BY <1>1, <1>3 DEF Placed, InChannel, Waiting
<1>6. Placed'
  <2>1. \A k \in InChannel' \cup held' : Len(sent'[k.from]) >= 1 /\ k.context = Context(k.from)'
    BY <1>1, <1>3, <1>5 DEF Placed, Context
  <2> QED BY <1>1, <1>3, <1>5, <2>1 DEF Placed
<1>7. \A k \in Waiting \cup InChannel \cup held : k.from \in Connections
  BY <1>3, PlacesAreTyped
<1>8. Tracked'
  <2>1. ASSUME NEW d \in Connections, NEW i \in 1..Len(responses'[d])
        PROVE  /\ responses'[d][i].state = "sending" => Message(d, responses'[d][i]) \in Waiting'
               /\ responses'[d][i].state = "sent" =>
                    Message(d, responses'[d][i]) \in InChannel' \cup held'
    BY <1>2, <1>3, <1>5 DEF Tracked
  <2>2. ASSUME NEW k \in Waiting'
        PROVE  \E i \in 1..Len(responses'[k.from]) :
                 responses'[k.from][i].state = "sending" /\ k = Message(k.from, responses'[k.from][i])
    <3>1. k.from \in Connections
      BY <1>5, <1>7
    <3>2. PICK i \in 1..Len(responses[k.from]) :
            responses[k.from][i].state = "sending" /\ k = Message(k.from, responses[k.from][i])
      BY <1>3, <1>5 DEF Tracked
    <3>3. Message(k.from, responses[k.from][i]) \notin {m}
      BY <1>1, <3>1, <3>2, OneResponse
    <3> QED BY <1>2, <3>1, <3>2, <3>3
  <2>3. ASSUME NEW k \in InChannel' \cup held', k.from \notin cancelled'
        PROVE  \E i \in 1..Len(responses'[k.from]) :
                 responses'[k.from][i].state = "sent" /\ k = Message(k.from, responses'[k.from][i])
    <3>1. k.from \in Connections /\ k # m /\ k \in InChannel \cup held
      BY <1>5, <1>7
    <3>2. PICK i \in 1..Len(responses[k.from]) :
            responses[k.from][i].state = "sent" /\ k = Message(k.from, responses[k.from][i])
      BY <1>1, <1>3, <2>3, <3>1 DEF Tracked
    <3> QED BY <1>2, <3>1, <3>2
  <2> QED BY <1>1, <2>1, <2>2, <2>3 DEF Tracked, Message
<1> QED BY <1>2, <1>4, <1>6, <1>8 DEF Inv

(* The broker stops: whatever waits for it fails.                          *)
LEMMA BrokerStopsKeepsInv ==
  ASSUME Inv, BrokerStops
  PROVE  Inv'
<1> DEFINE M == held \cup Range(channel) \cup Range(senders)
<1>1. /\ running' = FALSE
      /\ Resolve(M, "Failure")
      /\ held' = {} /\ channel' = <<>> /\ senders' = <<>>
      /\ UNCHANGED <<identities, published, phase, sent, router, writing, written, cancelled>>
  BY DEF BrokerStops, watchVars
<1>2. TypeOK /\ Placed /\ Tracked
  BY DEF Inv
<1>3. M = Waiting \cup InChannel \cup held
  BY <1>2, ElementsFacts DEF TypeOK, Waiting, InChannel
<1> HIDE DEF M
<1>4. /\ responses' \in [Connections -> Seq(Response)]
      /\ \A d \in Connections : Len(responses'[d]) = Len(responses[d])
      /\ \A d \in Connections : \A i \in 1..Len(responses[d]) :
           IF Message(d, responses[d][i]) \in M
           THEN responses'[d][i].state = "ready"
           ELSE responses'[d][i] = responses[d][i]
      /\ \A d \in Connections : ConnectionOK(d)'
  BY <1>1, <1>3, ResolveFacts
<1>5. TypeOK'
  BY <1>1, <1>2, <1>4 DEF TypeOK
<1>6. InChannel' = {} /\ Waiting' = {} /\ Len(senders') = 0 /\ Len(channel') = 0
  BY <1>1, <1>2, ChannelFacts DEF InChannel, Waiting
<1>7. Placed'
  BY <1>1, <1>6 DEF Placed
<1>8. \A d \in Connections : \A i \in 1..Len(responses'[d]) :
        responses'[d][i].state \notin {"sending", "sent"}
  BY <1>2, <1>3, <1>4 DEF Tracked
<1>9. Tracked'
  BY <1>1, <1>6, <1>8 DEF Tracked
<1> QED BY <1>4, <1>5, <1>7, <1>9 DEF Inv
-----------------------------------------------------------------------------
(* Polling the responses. *)

(* The first sender in line gets the place in the channel.                 *)
LEMMA SubmitKeepsInv ==
  ASSUME Inv, NEW c \in Connections, Submit(c)
  PROVE  Inv'
<1> DEFINE h == Head(senders)
           q == responses[c]
           g == [i \in 1..Len(q) |-> IF q[i].packet = h.packet THEN [q[i] EXCEPT !.state = "sent"] ELSE q[i]]
<1>1. /\ phase[c] = "selecting" /\ running
      /\ senders # <<>> /\ h.from = c
      /\ Len(channel) < 1
      /\ channel' = Append(channel, h) /\ senders' = Tail(senders)
      /\ responses' = [responses EXCEPT ![c] =
           [i \in DOMAIN q |-> IF q[i].packet = h.packet THEN [q[i] EXCEPT !.state = "sent"] ELSE q[i]]]
      /\ UNCHANGED <<identities, published, phase, sent, router, writing, written, held, running, cancelled>>
  BY DEF Submit, watchVars, ChannelCapacity
<1>2. TypeOK /\ Placed /\ Tracked /\ ConnectionOK(c) /\ q \in Seq(Response) /\ Len(q) \in Nat
  BY DEF Inv, TypeOK
<1>3. /\ senders \in Seq(Messages) /\ Len(senders) \in Nat
      /\ Len(senders) >= 1 /\ h = senders[1] /\ h \in Messages
      /\ Tail(senders) \in Seq(Messages)
      /\ Len(Tail(senders)) = Len(senders) - 1
      /\ \A i \in 1..Len(Tail(senders)) : Tail(senders)[i] = senders[i + 1]
  <2>1. senders \in Seq(Messages)
    BY <1>2 DEF TypeOK
  <2> QED BY <1>1, <2>1, HeadTailProperties, EmptySeq
<1>4. channel = <<>> /\ channel' = <<h>> /\ InChannel = {} /\ InChannel' = {h}
  <2>1. channel \in Seq(Messages) /\ Len(channel) = 0
    BY <1>1, <1>2 DEF TypeOK
  <2>2. channel = <<>>
    BY <2>1, EmptySeq
  <2>3. channel' = <<h>>
    BY <1>1, <2>2
  <2>4. InChannel' = {h}
    <3>1. Len(channel') = 1 /\ channel'[1] = h
      BY <2>3
    <3> QED BY <3>1 DEF InChannel, Elements
  <2> QED BY <1>2, <2>2, <2>3, <2>4, ChannelFacts
<1>5. h \in Waiting /\ \A m : m \in Waiting' <=> m \in Waiting /\ m # h
  <2>1. 1 \in 1..Len(senders)
    BY <1>3
  <2>2. \A m : m \in Waiting <=> \E i \in 1..Len(senders) : senders[i] = m
    BY DEF Waiting, Elements
  <2>3. \A m : m \in Waiting' <=> \E i \in 1..Len(Tail(senders)) : Tail(senders)[i] = m
    BY <1>1 DEF Waiting, Elements
  <2>4. \A i, j \in 1..Len(senders) : senders[i] = senders[j] => i = j
    BY <1>2 DEF Placed
  <2>5. ASSUME NEW m, m \in Waiting' PROVE m \in Waiting /\ m # h
    <3>1. PICK i \in 1..Len(Tail(senders)) : Tail(senders)[i] = m
      BY <2>3, <2>5
    <3>2. i + 1 \in 1..Len(senders) /\ i + 1 # 1 /\ senders[i + 1] = m
      BY <1>3, <3>1
    <3> QED BY <1>3, <2>1, <2>2, <2>4, <3>2
  <2>6. ASSUME NEW m, m \in Waiting, m # h PROVE m \in Waiting'
    <3>1. PICK i \in 1..Len(senders) : senders[i] = m
      BY <2>2, <2>6
    <3>2. i # 1
      BY <1>3, <2>6, <3>1
    <3>3. i - 1 \in 1..Len(Tail(senders)) /\ (i - 1) + 1 = i
      BY <1>3, <3>2
    <3> QED BY <1>3, <2>3, <3>1, <3>3
  <2> QED BY <1>3, <2>1, <2>2, <2>5, <2>6
<1> HIDE DEF h
<1>6. PICK j \in 1..Len(q) : q[j].state = "sending" /\ h = Message(c, q[j])
  BY <1>1, <1>2, <1>5 DEF Tracked
<1>7. /\ q[j] \in Response /\ h.packet = q[j].packet /\ h.context = q[j].context
      /\ Len(sent[c]) >= 1
      /\ h.context = Context(c)
  <2>1. q[j] \in Response /\ Len(sent[c]) >= 1
    BY <1>2, PacketsInRange DEF ConnectionOK
  <2>2. h.packet = q[j].packet /\ h.context = q[j].context
    BY <1>6, <2>1, MessageFacts
  <2>3. Owed(c, q[j])
    BY <1>2 DEF ConnectionOK, Matched
  <2> QED BY <1>6, <2>1, <2>2, <2>3 DEF Owed
<1>8. \A i \in 1..Len(q) : q[i].packet = h.packet <=> i = j
  BY <1>2, <1>7, PacketsDiffer DEF ConnectionOK
<1>9. /\ g \in Seq(Response) /\ Len(g) = Len(q)
      /\ responses' \in [Connections -> Seq(Response)]
      /\ responses'[c] = g
      /\ \A d \in Connections : d # c => responses'[d] = responses[d]
  <2>1. g \in [1..Len(q) -> Response]
    <3>1. \A f \in Response : [f EXCEPT !.state = "sent"] \in Response
      BY DEF Response
    <3>2. \A i \in 1..Len(q) : q[i] \in Response
      BY <1>2
    <3> HIDE DEF q
    <3> QED BY <3>1, <3>2
  <2>2. DOMAIN q = 1..Len(q)
    BY <1>2
  <2>3. responses' = [responses EXCEPT ![c] = g]
    BY <1>1, <2>2
  <2> HIDE DEF g, q
  <2>4. g \in Seq(Response) /\ Len(g) = Len(q)
    BY <1>2, <2>1, SeqOfFunction
  <2> QED BY <1>2, <2>3, <2>4 DEF TypeOK
<1>10. /\ g[j].state = "sent" /\ g[j].packet = q[j].packet /\ g[j].context = q[j].context
       /\ \A i \in 1..Len(q) : i # j => g[i] = q[i]
  <2>1. g[j] = [q[j] EXCEPT !.state = "sent"]
    BY <1>7
  <2>2. \A i \in 1..Len(q) : i # j => g[i] = q[i]
    BY <1>8
  <2> HIDE DEF g, q
  <2> QED BY <1>7, <2>1, <2>2 DEF Response
<1> HIDE DEF g
<1>11. TypeOK'
  <2>1. channel' \in Seq(Messages)
    BY <1>3, <1>4
  <2> QED BY <1>1, <1>2, <1>3, <1>9, <2>1 DEF TypeOK
<1>12. ConnectionOK(c)'
  <2>1. \A i \in 1..Len(responses[c]) :
           /\ responses'[c][i].packet = responses[c][i].packet
           /\ \/ responses'[c][i] = responses[c][i]
              \/ /\ responses[c][i].state # "ready"
                 /\ responses'[c][i].state # "ready"
                 /\ responses'[c][i].context = responses[c][i].context
    BY <1>6, <1>9, <1>10
  <2>2. responses'[c] \in Seq(Response) /\ Len(responses'[c]) = Len(responses[c])
    BY <1>9
  <2>3. UNCHANGED <<phase, sent, router, writing, written, cancelled>>
    BY <1>1
  <2>4. TypeOK /\ ConnectionOK(c)
    BY <1>2
  <2> QED BY <2>1, <2>2, <2>3, <2>4, Relabelled
<1>13. \A d \in Connections : ConnectionOK(d)'
  BY <1>1, <1>9, <1>12, SameConnection DEF Inv
<1>14. Placed'
  <2>1. \A i, k \in 1..Len(senders') : senders'[i] = senders'[k] => i = k
    <3> TAKE i, k \in 1..Len(senders')
    <3>1. i + 1 \in 1..Len(senders) /\ k + 1 \in 1..Len(senders)
          /\ senders'[i] = senders[i + 1] /\ senders'[k] = senders[k + 1]
      BY <1>1, <1>3
    <3>2. senders'[i] = senders'[k] => i + 1 = k + 1
      BY <1>2, <3>1 DEF Placed
    <3> QED BY <1>3, <3>2
  <2>2. h \notin held
    BY <1>6, OneResponse
  <2>3. \A m \in held : Len(sent'[m.from]) >= 1 /\ m.context = Context(m.from)'
    BY <1>1, <1>2 DEF Placed, Context
  <2>4. \A m \in {h} : Len(sent'[m.from]) >= 1 /\ m.context = Context(m.from)'
    BY <1>1, <1>7 DEF Context
  <2>5. Len(channel') <= 1
    BY <1>4
  <2> QED BY <1>1, <1>4, <2>1, <2>2, <2>3, <2>4, <2>5 DEF Placed
<1>15. Tracked'
  <2>1. \A m \in Waiting \cup InChannel \cup held : m.from \in Connections
    BY <1>2, PlacesAreTyped
  <2>2. ASSUME NEW d \in Connections, NEW i \in 1..Len(responses'[d])
        PROVE  /\ responses'[d][i].state = "sending" => Message(d, responses'[d][i]) \in Waiting'
               /\ responses'[d][i].state = "sent" =>
                    Message(d, responses'[d][i]) \in InChannel' \cup held'
    <3>1. CASE d = c /\ i = j
      <4>1. responses'[d][i] = g[j]
        BY <1>9, <3>1
      <4>2. Message(c, g[j]) = h
        BY <1>6, <1>10 DEF Message
      <4> QED BY <1>4, <1>10, <3>1, <4>1, <4>2
    <3>2. CASE ~(d = c /\ i = j)
      <4>1. /\ i \in 1..Len(responses[d]) /\ responses'[d][i] = responses[d][i]
            /\ responses[d][i] \in Response
        BY <1>2, <1>9, <1>10, <3>2 DEF TypeOK
      <4>2. Message(d, responses[d][i]) # h
        <5>1. d # c \/ responses[d][i].packet # h.packet
          BY <1>8, <3>2, <4>1
        <5> QED BY <1>1, <4>1, <5>1, MessageFacts
      <4>3. /\ responses[d][i].state = "sending" => Message(d, responses[d][i]) \in Waiting
            /\ responses[d][i].state = "sent" => Message(d, responses[d][i]) \in InChannel \cup held
        BY <1>2, <4>1 DEF Tracked
      <4> QED BY <1>1, <1>4, <1>5, <4>1, <4>2, <4>3
    <3> QED BY <3>1, <3>2
  <2>3. ASSUME NEW m \in Waiting'
        PROVE  \E i \in 1..Len(responses'[m.from]) :
                 responses'[m.from][i].state = "sending" /\ m = Message(m.from, responses'[m.from][i])
    <3>1. m \in Waiting /\ m # h /\ m.from \in Connections
      BY <1>5, <2>1
    <3>2. PICK i \in 1..Len(responses[m.from]) :
            responses[m.from][i].state = "sending" /\ m = Message(m.from, responses[m.from][i])
      BY <1>2, <3>1 DEF Tracked
    <3>3. ~(m.from = c /\ i = j)
      BY <1>6, <3>1, <3>2
    <3>4. i \in 1..Len(responses'[m.from]) /\ responses'[m.from][i] = responses[m.from][i]
      BY <1>9, <1>10, <3>1, <3>3
    <3> QED BY <3>2, <3>4
  <2>4. ASSUME NEW m \in InChannel' \cup held', m.from \notin cancelled'
        PROVE  \E i \in 1..Len(responses'[m.from]) :
                 responses'[m.from][i].state = "sent" /\ m = Message(m.from, responses'[m.from][i])
    <3>1. CASE m = h
      <4>1. m.from = c /\ j \in 1..Len(responses'[c]) /\ responses'[c][j] = g[j]
        BY <1>1, <1>9, <3>1
      <4>2. Message(c, g[j]) = h
        BY <1>6, <1>10 DEF Message
      <4> QED BY <1>10, <3>1, <4>1, <4>2
    <3>2. CASE m # h
      <4>1. m \in held /\ m.from \in Connections /\ m.from \notin cancelled
        BY <1>1, <1>4, <2>1, <2>4, <3>2
      <4>2. PICK i \in 1..Len(responses[m.from]) :
              responses[m.from][i].state = "sent" /\ m = Message(m.from, responses[m.from][i])
        BY <1>2, <4>1 DEF Tracked
      <4>3. ~(m.from = c /\ i = j)
        BY <1>6, <3>2, <4>2
      <4>4. i \in 1..Len(responses'[m.from]) /\ responses'[m.from][i] = responses[m.from][i]
        BY <1>9, <1>10, <4>1, <4>3
      <4> QED BY <4>2, <4>4
    <3> QED BY <3>1, <3>2
  <2> QED BY <1>1, <2>2, <2>3, <2>4 DEF Tracked, Message
<1> QED BY <1>11, <1>13, <1>14, <1>15 DEF Inv
(* The requests that a poll queues: those of the responses that are new,   *)
(* each once.                                                              *)
LEMMA NewRequests ==
  ASSUME TypeOK, NEW c \in Connections, Numbered(c)
  PROVE  LET new == NewIn(c)
             added == [i \in DOMAIN new |-> Message(c, new[i])]
         IN  /\ added \in Seq(Messages)
             /\ \A m : m \in Elements(added) <=>
                  \E i \in 1..Len(responses[c]) :
                    responses[c][i].state = "new" /\ m = Message(c, responses[c][i])
             /\ \A i, j \in 1..Len(added) : added[i] = added[j] => i = j
<1> DEFINE q == responses[c]
           S == {f \in Range(q) : f.state = "new"}
           new == NewIn(c)
           added == [i \in DOMAIN new |-> Message(c, new[i])]
<1>1. q \in Seq(Response) /\ Len(q) \in Nat /\ DOMAIN q = 1..Len(q)
  BY DEF TypeOK
<1>2. new = Kept(q, S)
  BY DEF NewIn
<1>3. \A f : f \in S <=> f.state = "new" /\ \E i \in 1..Len(q) : q[i] = f
  BY <1>1 DEF Range
<1>4. \A i, j \in 1..Len(q) : q[i].packet = q[j].packet => i = j
  BY PacketsDiffer
<1>5. \A i, j \in 1..Len(q) : q[i] = q[j] => i = j
  BY <1>4
<1> HIDE DEF S, q, new
<1>6. /\ new \in Seq(Response)
      /\ \A f : (\E j \in 1..Len(new) : new[j] = f) <=> f \in S /\ \E j \in 1..Len(q) : q[j] = f
      /\ \A i, j \in 1..Len(new) : new[i] = new[j] => i = j
  <2>1. /\ Kept(q, S) \in Seq(Response)
        /\ \A f : (\E j \in 1..Len(Kept(q, S)) : Kept(q, S)[j] = f)
                    <=> f \in S /\ \E j \in 1..Len(q) : q[j] = f
    BY <1>1, KeptFacts
  <2>2. \A i, j \in 1..Len(Kept(q, S)) : Kept(q, S)[i] = Kept(q, S)[j] => i = j
    BY <1>1, <1>5, KeptFacts
  <2> QED BY <1>2, <2>1, <2>2
<1>7. /\ Len(new) \in Nat /\ DOMAIN new = 1..Len(new)
      /\ \A i \in 1..Len(new) : new[i] \in Response
  BY <1>6
<1>8. added \in Seq(Messages) /\ Len(added) = Len(new)
  <2>1. added \in [1..Len(new) -> Messages]
    BY <1>7, MessageFacts
  <2> HIDE DEF added
  <2> QED BY <1>7, <2>1, SeqOfFunction
<1>9. \A i \in 1..Len(new) : added[i] = Message(c, new[i])
  BY <1>7
<1> HIDE DEF added
<1>10. \A f : (\E j \in 1..Len(new) : new[j] = f) <=> f.state = "new" /\ \E i \in 1..Len(q) : q[i] = f
  BY <1>3, <1>6
<1>11. \A m : m \in Elements(added) <=>
         \E i \in 1..Len(q) : q[i].state = "new" /\ m = Message(c, q[i])
  <2>1. \A m : m \in Elements(added) <=> \E j \in 1..Len(new) : m = Message(c, new[j])
    BY <1>8, <1>9 DEF Elements
  <2>2. ASSUME NEW m, NEW j \in 1..Len(new), m = Message(c, new[j])
        PROVE  \E i \in 1..Len(q) : q[i].state = "new" /\ m = Message(c, q[i])
    BY <1>10, <2>2
  <2>3. ASSUME NEW m, NEW i \in 1..Len(q), q[i].state = "new", m = Message(c, q[i])
        PROVE  \E j \in 1..Len(new) : m = Message(c, new[j])
    BY <1>10, <2>3
  <2> QED BY <2>1, <2>2, <2>3
<1>12. ASSUME NEW i \in 1..Len(added), NEW j \in 1..Len(added), added[i] = added[j]
       PROVE  i = j
  <2>1. i \in 1..Len(new) /\ j \in 1..Len(new) /\ Message(c, new[i]) = Message(c, new[j])
    BY <1>8, <1>9, <1>12
  <2>2. new[i].packet = new[j].packet
    BY <1>7, <2>1, MessageFacts
  <2>3. PICK k \in 1..Len(q) : q[k] = new[i]
    BY <1>10, <2>1
  <2>4. PICK l \in 1..Len(q) : q[l] = new[j]
    BY <1>10, <2>1
  <2>5. k = l
    BY <1>4, <2>2, <2>3, <2>4
  <2> QED BY <1>6, <2>1, <2>3, <2>4, <2>5
<1> QED BY <1>8, <1>11, <1>12 DEF added, new, q

(* A first poll: new requests enter the channel or queue up for it.        *)
LEMMA PollKeepsInv ==
  ASSUME Inv, NEW c \in Connections, Poll(c)
  PROVE  Inv'
<1> DEFINE q == responses[c]
           g == [i \in 1..Len(q) |-> Polled(q[i])]
           added == [i \in DOMAIN NewIn(c) |-> Message(c, NewIn(c)[i])]
<1>1. /\ phase[c] = "selecting"
      /\ responses' = [responses EXCEPT ![c] = [i \in DOMAIN q |-> Polled(q[i])]]
      /\ senders' = IF running THEN senders \o added ELSE senders
      /\ UNCHANGED <<identities, published, phase, sent, router, writing, written, channel, held,
                     running, cancelled>>
  BY DEF Poll, watchVars
<1>2. TypeOK /\ Placed /\ Tracked /\ ConnectionOK(c) /\ Numbered(c)
      /\ q \in Seq(Response) /\ Len(q) \in Nat /\ DOMAIN q = 1..Len(q)
  BY DEF Inv, TypeOK, ConnectionOK
<1>3. \A f \in Response : /\ Polled(f) \in Response
                          /\ Polled(f).packet = f.packet
                          /\ f.state # "new" => Polled(f) = f
                          /\ f.state = "new" /\ running =>
                               Polled(f).state = "sending" /\ Polled(f).context = f.context
                          /\ f.state = "new" /\ ~running =>
                               Polled(f).state = "ready" /\ Polled(f).reply = "Failure"
  <2> TAKE f \in Response
  <2>1. CASE f.state # "new"
    BY <2>1 DEF Polled
  <2>2. CASE f.state = "new" /\ running
    <3>1. Polled(f) = [f EXCEPT !.state = "sending"]
      BY <2>2 DEF Polled
    <3> QED BY <2>2, <3>1 DEF Response
  <2>3. CASE f.state = "new" /\ ~running
    <3>1. Polled(f) = Ready(f.packet, "Failure")
      BY <2>3 DEF Polled
    <3> QED BY <2>3, <3>1 DEF Ready, Response, Reply
  <2> QED BY <2>1, <2>2, <2>3
<1>4. /\ responses' \in [Connections -> Seq(Response)]
      /\ responses'[c] \in Seq(Response) /\ Len(responses'[c]) = Len(q)
      /\ \A i \in 1..Len(q) : responses'[c][i] = Polled(q[i])
      /\ \A d \in Connections : d # c => responses'[d] = responses[d]
  <2>1. \A i \in 1..Len(q) : q[i] \in Response
    BY <1>2
  <2>2. responses' = [responses EXCEPT ![c] = g]
    BY <1>1, <1>2
  <2> HIDE DEF q
  <2>3. g \in [1..Len(q) -> Response] /\ \A i \in 1..Len(q) : g[i] = Polled(q[i])
    BY <1>3, <2>1
  <2> HIDE DEF g
  <2>4. g \in Seq(Response) /\ Len(g) = Len(q)
    BY <1>2, <2>3, SeqOfFunction
  <2> QED BY <1>2, <2>2, <2>3, <2>4 DEF TypeOK
<1>5. /\ added \in Seq(Messages)
      /\ \A m : m \in Elements(added) <=>
           \E i \in 1..Len(q) : q[i].state = "new" /\ m = Message(c, q[i])
      /\ \A i, j \in 1..Len(added) : added[i] = added[j] => i = j
  BY <1>2, NewRequests
<1> HIDE DEF added, g
<1>6. \A m \in Elements(added) : m \notin Waiting
  BY <1>5, OneResponse
<1>7. /\ senders' \in Seq(Messages)
      /\ \A m : m \in Waiting' <=> m \in Waiting \/ (running /\ m \in Elements(added))
      /\ \A i, j \in 1..Len(senders') : senders'[i] = senders'[j] => i = j
  <2>1. /\ senders \in Seq(Messages) /\ Len(senders) \in Nat
        /\ \A i, j \in 1..Len(senders) : senders[i] = senders[j] => i = j
    BY <1>2 DEF TypeOK, Placed
  <2>2. CASE ~running
    <3>1. senders' = senders /\ Waiting' = Waiting
      BY <1>1, <2>2 DEF Waiting
    <3> QED BY <2>1, <2>2, <3>1
  <2>3. CASE running
    <3> DEFINE k == Len(senders)
               l == Len(added)
    <3>1. senders' = senders \o added
      BY <1>1, <2>3
    <3>2. /\ senders' \in Seq(Messages)
          /\ k \in Nat /\ l \in Nat
          /\ Len(senders') = k + l
          /\ \A i \in 1..(k + l) : senders'[i] = IF i <= k THEN senders[i] ELSE added[i - k]
      BY <1>5, <2>1, <3>1, ConcatProperties
    <3> HIDE DEF k, l
    <3>3. \A i \in 1..k : i \in 1..(k + l) /\ senders'[i] = senders[i]
      BY <3>2
    <3>4. \A i \in 1..l : k + i \in 1..(k + l) /\ senders'[k + i] = added[i]
      <4> TAKE i \in 1..l
      <4>1. k + i \in 1..(k + l) /\ ~(k + i <= k) /\ (k + i) - k = i
        BY <3>2
      <4> QED BY <3>2, <4>1
    <3>5. ASSUME NEW i \in 1..(k + l)
          PROVE  \/ i \in 1..k
                 \/ i - k \in 1..l /\ i = k + (i - k)
      BY <3>2
    <3>6. \A m : m \in Waiting' <=> m \in Waiting \/ m \in Elements(added)
      <4>1. \A m : m \in Waiting' <=> \E i \in 1..(k + l) : senders'[i] = m
        BY <3>2 DEF Waiting, Elements
      <4>2. \A m : m \in Waiting <=> \E i \in 1..k : senders[i] = m
        BY DEF Waiting, Elements, k
      <4>3. \A m : m \in Elements(added) <=> \E i \in 1..l : added[i] = m
        BY DEF Elements, l
      <4>4. \A m : m \in Waiting => m \in Waiting'
        BY <3>3, <4>1, <4>2
      <4>5. \A m : m \in Elements(added) => m \in Waiting'
        BY <3>4, <4>1, <4>3
      <4>6. ASSUME NEW m, m \in Waiting' PROVE m \in Waiting \/ m \in Elements(added)
        <5>1. PICK i \in 1..(k + l) : senders'[i] = m
          BY <4>1, <4>6
        <5>2. CASE i \in 1..k
          BY <3>3, <4>2, <5>1, <5>2
        <5>3. CASE i - k \in 1..l /\ i = k + (i - k)
          BY <3>4, <4>3, <5>1, <5>3
        <5> QED BY <3>5, <5>2, <5>3
      <4> QED BY <4>4, <4>5, <4>6
    <3>7. ASSUME NEW i \in 1..(k + l), NEW j \in 1..(k + l), senders'[i] = senders'[j]
          PROVE  i = j
      <4>1. \A m : m \in Waiting <=> \E x \in 1..k : senders[x] = m
        BY DEF Waiting, Elements, k
      <4>2. \A m : m \in Elements(added) <=> \E x \in 1..l : added[x] = m
        BY DEF Elements, l
      <4>3. CASE i \in 1..k /\ j \in 1..k
        BY <2>1, <3>3, <3>7, <4>3 DEF k
      <4>4. CASE i \in 1..k /\ j - k \in 1..l /\ j = k + (j - k)
        <5>1. senders[i] = added[j - k]
          BY <3>3, <3>4, <3>7, <4>4
        <5> QED BY <1>6, <4>1, <4>2, <4>4, <5>1
      <4>5. CASE j \in 1..k /\ i - k \in 1..l /\ i = k + (i - k)
        <5>1. senders[j] = added[i - k]
          BY <3>3, <3>4, <3>7, <4>5
        <5> QED BY <1>6, <4>1, <4>2, <4>5, <5>1
      <4>6. CASE j - k \in 1..l /\ j = k + (j - k) /\ i - k \in 1..l /\ i = k + (i - k)
        <5>1. added[i - k] = added[j - k]
          BY <3>4, <3>7, <4>6
        <5>2. i - k = j - k
          BY <1>5, <4>6, <5>1 DEF l
        <5> QED BY <4>6, <5>2
      <4> QED BY <3>5, <4>3, <4>4, <4>5, <4>6
    <3> QED BY <2>3, <3>2, <3>6, <3>7
  <2> QED BY <2>2, <2>3
<1>8. \A i \in 1..Len(q) :
        /\ q[i] \in Response
        /\ responses'[c][i].packet = q[i].packet
        /\ q[i].state # "new" => responses'[c][i] = q[i]
        /\ q[i].state = "new" /\ running =>
             responses'[c][i].state = "sending" /\ responses'[c][i].context = q[i].context
        /\ q[i].state = "new" /\ ~running =>
             responses'[c][i].state = "ready" /\ responses'[c][i].reply = "Failure"
  BY <1>2, <1>3, <1>4
<1>9. TypeOK'
  BY <1>1, <1>2, <1>4, <1>7 DEF TypeOK
<1>10. ConnectionOK(c)'
  <2>1. \A i \in 1..Len(responses[c]) :
           /\ responses'[c][i].packet = responses[c][i].packet
           /\ \/ responses'[c][i] = responses[c][i]
              \/ /\ responses[c][i].state # "ready"
                 /\ responses'[c][i].state # "ready"
                 /\ responses'[c][i].context = responses[c][i].context
              \/ /\ responses[c][i].state # "ready"
                 /\ responses'[c][i].state = "ready"
                 /\ responses'[c][i].reply \in {"Remote", "Failure"}
    BY <1>8
  <2> QED BY <1>1, <1>2, <1>4, <2>1, Relabelled
<1>11. \A d \in Connections : ConnectionOK(d)'
  BY <1>1, <1>4, <1>10, SameConnection DEF Inv
<1>12. Placed'
  <2>1. InChannel' = InChannel
    BY <1>1 DEF InChannel
  <2>2. \A m \in InChannel \cup held : Len(sent'[m.from]) >= 1 /\ m.context = Context(m.from)'
    BY <1>1, <1>2 DEF Placed, Context
  <2> QED BY <1>1, <1>2, <1>7, <2>1, <2>2 DEF Placed
<1>13. Tracked'
  <2>1. InChannel' = InChannel
    BY <1>1 DEF InChannel
  <2>2. \A m \in Waiting \cup InChannel \cup held : m.from \in Connections
    BY <1>2, PlacesAreTyped
  <2>3. ASSUME NEW d \in Connections, NEW i \in 1..Len(responses'[d])
        PROVE  /\ responses'[d][i].state = "sending" => Message(d, responses'[d][i]) \in Waiting'
               /\ responses'[d][i].state = "sent" =>
                    Message(d, responses'[d][i]) \in InChannel' \cup held'
    <3>1. CASE d = c /\ q[i].state = "new"
      <4>1. i \in 1..Len(q)
        BY <1>4, <3>1
      <4>2. running => Message(c, responses'[c][i]) = Message(c, q[i])
        BY <1>8, <3>1, <4>1 DEF Message
      <4>3. running => Message(c, q[i]) \in Waiting'
        BY <1>5, <1>7, <3>1, <4>1
      <4> QED BY <1>8, <3>1, <4>1, <4>2, <4>3
    <3>2. CASE d # c \/ q[i].state # "new"
      <4>1. i \in 1..Len(responses[d]) /\ responses'[d][i] = responses[d][i]
        BY <1>4, <1>8, <3>2
      <4>2. /\ responses[d][i].state = "sending" => Message(d, responses[d][i]) \in Waiting
            /\ responses[d][i].state = "sent" => Message(d, responses[d][i]) \in InChannel \cup held
        BY <1>2, <4>1 DEF Tracked
      <4> QED BY <1>1, <1>7, <2>1, <4>1, <4>2
    <3> QED BY <3>1, <3>2
  <2>4. ASSUME NEW d \in Connections, NEW i \in 1..Len(responses[d]), responses[d][i].state # "new"
        PROVE  i \in 1..Len(responses'[d]) /\ responses'[d][i] = responses[d][i]
    BY <1>4, <1>8, <2>4
  <2>5. ASSUME NEW m \in Waiting'
        PROVE  \E i \in 1..Len(responses'[m.from]) :
                 responses'[m.from][i].state = "sending" /\ m = Message(m.from, responses'[m.from][i])
    <3>1. CASE m \in Waiting
      <4>1. PICK i \in 1..Len(responses[m.from]) :
              responses[m.from][i].state = "sending" /\ m = Message(m.from, responses[m.from][i])
        BY <1>2, <3>1 DEF Tracked
      <4> QED BY <2>2, <2>4, <3>1, <4>1
    <3>2. CASE running /\ m \in Elements(added)
      <4>1. PICK i \in 1..Len(q) : q[i].state = "new" /\ m = Message(c, q[i])
        BY <1>5, <3>2
      <4>2. m.from = c
        BY <1>8, <4>1, MessageFacts
      <4>3. i \in 1..Len(responses'[c]) /\ responses'[c][i].state = "sending"
            /\ Message(c, responses'[c][i]) = Message(c, q[i])
        BY <1>4, <1>8, <3>2, <4>1 DEF Message
      <4> QED BY <4>1, <4>2, <4>3
    <3> QED BY <1>7, <3>1, <3>2
  <2>6. ASSUME NEW m \in InChannel' \cup held', m.from \notin cancelled'
        PROVE  \E i \in 1..Len(responses'[m.from]) :
                 responses'[m.from][i].state = "sent" /\ m = Message(m.from, responses'[m.from][i])
    <3>1. m \in InChannel \cup held /\ m.from \notin cancelled
      BY <1>1, <2>1, <2>6
    <3>2. PICK i \in 1..Len(responses[m.from]) :
            responses[m.from][i].state = "sent" /\ m = Message(m.from, responses[m.from][i])
      BY <1>2, <3>1 DEF Tracked
    <3> QED BY <2>2, <2>4, <3>1, <3>2
  <2>7. ~running' => senders' = <<>> /\ channel' = <<>> /\ held' = {}
    BY <1>1, <1>2 DEF Tracked
  <2> QED BY <2>3, <2>5, <2>6, <2>7 DEF Tracked, Message
<1> QED BY <1>9, <1>11, <1>12, <1>13 DEF Inv
-----------------------------------------------------------------------------
(* Every step keeps the invariant. *)

(* One action after the other.                                             *)
LEMMA InvStep == Inv /\ [ConnectionNext]_connectionVars => Inv'
<1> SUFFICES ASSUME Inv, [ConnectionNext]_connectionVars PROVE Inv'
  OBVIOUS
<1>1. CASE UNCHANGED connectionVars
  <2>1. UNCHANGED <<identities, published, phase, sent, router, responses, writing, written, senders,
                    channel, held, running, cancelled>>
    BY <1>1 DEF connectionVars, watchVars, localVars, brokerVars
  <2>2. TypeOK'
    BY <2>1 DEF Inv, TypeOK
  <2>3. \A d \in Connections : ConnectionOK(d)'
    BY <2>1, SameConnection DEF Inv
  <2> QED BY <2>1, <2>2, <2>3, SamePlaces DEF Inv
<1>2. ASSUME NEW c \in Connections, ConnectionSteps(c) PROVE Inv'
  <2>1. CASE Accept(c)
    BY <2>1, AcceptKeepsInv
  <2>2. CASE Hangup(c)
    BY <2>2, EndingsKeepInv
  <2>3. CASE Poll(c)
    BY <2>3, PollKeepsInv
  <2>4. CASE Submit(c)
    BY <2>4, SubmitKeepsInv
  <2>5. CASE Respond(c)
    BY <2>5, RespondKeepsInv
  <2>6. CASE Write(c)
    BY <2>6, WriteKeepsInv
  <2>7. ASSUME NEW frame \in Frame, Route(c, frame) PROVE Inv'
    BY <2>7, RouteKeepsInv
  <2>8. ASSUME NEW frame \in Frame, Reject(c, frame) PROVE Inv'
    BY <2>8, RejectKeepsInv
  <2>9. ASSUME NEW frame \in Frame, RejectPipelined(c, frame) PROVE Inv'
    BY <2>9, EndingsKeepInv
  <2> QED BY <1>2, <2>1, <2>2, <2>3, <2>4, <2>5, <2>6, <2>7, <2>8, <2>9 DEF ConnectionSteps
<1>3. CASE BrokerSteps
  <2>1. CASE Take
    BY <2>1, TakeKeepsInv
  <2>2. CASE BrokerStops
    BY <2>2, BrokerStopsKeepsInv
  <2>3. ASSUME NEW m \in held, AnswerCancelled(m) PROVE Inv'
    BY <2>3, AnswerKeepsInv DEF AnswerCancelled
  <2>4. ASSUME NEW m \in held, NEW reply \in {"Remote", "Failure"}, Answer(m, reply) PROVE Inv'
    BY <2>4, AnswerKeepsInv
  <2> QED BY <1>3, <2>1, <2>2, <2>3, <2>4 DEF BrokerSteps
<1>4. ASSUME NEW l \in Lists \cup {None}, Publish(l) PROVE Inv'
  BY <1>4, PublishKeepsInv
<1>5. CASE Shutdown
  BY <1>5, EndingsKeepInv
<1> QED BY <1>1, <1>2, <1>3, <1>4, <1>5 DEF ConnectionNext

(* A step other than Route, Accept, Publish and the end of tasks leaves    *)
(* the routers alone.                                                      *)
LEMMA RoutersStep == Inv /\ RoutersCurrent /\ [ConnectionNext]_connectionVars => RoutersCurrent'
<1> SUFFICES ASSUME Inv, RoutersCurrent, [ConnectionNext]_connectionVars PROVE RoutersCurrent'
  OBVIOUS
<1>1. TypeOK
  BY DEF Inv
<1>2. ASSUME identities' = identities,
             \A d \in Connections :
               \/ phase'[d] \in {"new", "closed"}
               \/ /\ phase[d] \in {"selecting", "writing", "failing"}
                  /\ router'[d] = router[d] \/ router'[d].answer = identities
               \/ phase'[d] = phase[d] /\ router'[d] = router[d]
               \/ router'[d].unseen \/ router'[d].answer = identities
      PROVE  RoutersCurrent'
  BY <1>2 DEF RoutersCurrent
<1>3. CASE UNCHANGED connectionVars
  BY <1>2, <1>3 DEF connectionVars, watchVars, localVars
<1>4. ASSUME NEW C \in SUBSET Connections, Ends(C), identities' = identities PROVE RoutersCurrent'
  BY <1>2, <1>4 DEF Ends
<1>5. ASSUME NEW c \in Connections, ConnectionSteps(c) PROVE RoutersCurrent'
  <2>1. CASE Accept(c)
    <3>1. \A d \in Connections : d # c => phase'[d] = phase[d] /\ router'[d] = router[d]
      BY <1>1, <2>1 DEF Accept, TypeOK
    <3>2. router'[c].answer = identities
      BY <1>1, <2>1 DEF Accept, TypeOK, NewRouter
    <3> QED BY <1>2, <2>1, <3>1, <3>2 DEF Accept, watchVars
  <2>2. CASE Hangup(c)
    BY <1>4, <2>2 DEF Hangup, watchVars
  <2>3. CASE Poll(c)
    BY <1>2, <2>3 DEF Poll, watchVars
  <2>4. CASE Submit(c)
    BY <1>2, <2>4 DEF Submit, watchVars
  <2>5. CASE Respond(c)
    <3>1. phase[c] = "selecting" /\ router' = router /\ identities' = identities
          /\ phase' = [phase EXCEPT ![c] = "writing"]
      BY <2>5 DEF Respond, watchVars
    <3> QED BY <1>1, <1>2, <3>1 DEF TypeOK
  <2>6. CASE Write(c)
    <3>1. CASE Ends({c})
      BY <1>4, <2>6, <3>1 DEF Write, watchVars
    <3>2. CASE phase[c] = "writing" /\ phase' = [phase EXCEPT ![c] = "selecting"] /\ router' = router
      BY <1>1, <1>2, <2>6, <3>2 DEF Write, watchVars, TypeOK
    <3> QED BY <2>6, <3>1, <3>2 DEF Write
  <2>7. ASSUME NEW frame \in Frame, Route(c, frame) PROVE RoutersCurrent'
    <3> DEFINE rt == Refreshed(router[c])
               n == Len(sent[c]) + 1
    <3>1. /\ phase[c] = "selecting" /\ UNCHANGED <<identities, phase>>
          /\ router' = [router EXCEPT ![c] = Configured(rt, frame, n)]
      BY <2>7 DEF Route, Receives, watchVars
    <3>2. router[c] \in Routers /\ (router[c].unseen \/ router[c].answer = identities)
      BY <1>1, <3>1 DEF TypeOK, RoutersCurrent
    <3>3. rt \in Routers /\ rt.answer = identities
      BY <1>1, <3>2, RefreshedFacts
    <3> HIDE DEF rt, n
    <3>4. Configured(rt, frame, n).answer = identities
      BY <3>3 DEF Configured, Settled, Routers
    <3>5. router'[c].answer = identities /\ \A d \in Connections : d # c => router'[d] = router[d]
      BY <1>1, <3>1, <3>4 DEF TypeOK
    <3> QED BY <1>2, <3>1, <3>5
  <2>8. ASSUME NEW frame \in Frame, Reject(c, frame) PROVE RoutersCurrent'
    <3>1. phase[c] = "selecting" /\ identities' = identities
      BY <2>8 DEF Reject, Receives, watchVars
    <3>2. CASE Ends({c})
      BY <1>4, <3>1, <3>2
    <3>3. CASE phase' = [phase EXCEPT ![c] = "failing"] /\ router' = router
      BY <1>1, <1>2, <3>1, <3>3 DEF TypeOK
    <3> QED BY <2>8, <3>2, <3>3 DEF Reject
  <2>9. ASSUME NEW frame \in Frame, RejectPipelined(c, frame) PROVE RoutersCurrent'
    BY <1>4, <2>9 DEF RejectPipelined, watchVars
  <2> QED BY <1>5, <2>1, <2>2, <2>3, <2>4, <2>5, <2>6, <2>7, <2>8, <2>9 DEF ConnectionSteps
<1>6. CASE BrokerSteps
  BY <1>2, <1>6 DEF BrokerSteps, Take, BrokerStops, AnswerCancelled, Answer, watchVars, localVars
<1>7. ASSUME NEW l \in Lists \cup {None}, Publish(l) PROVE RoutersCurrent'
  <2>1. \A d \in Connections : phase[d] \in {"selecting", "writing", "failing"} => router'[d].unseen
    <3> TAKE d \in Connections
    <3>1. router[d] \in Routers
      BY <1>1 DEF TypeOK
    <3>2. phase[d] \in {"selecting", "writing", "failing"} =>
            router'[d] = [router[d] EXCEPT !.unseen = TRUE]
      BY <1>7 DEF Publish
    <3> QED BY <3>1, <3>2 DEF Routers
  <2>2. phase' = phase
    BY <1>7 DEF Publish
  <2> QED BY <2>1, <2>2 DEF RoutersCurrent
<1>8. CASE Shutdown
  <2> DEFINE C == {c \in Connections : phase[c] # "new"}
  <2>1. Ends(C) /\ C \in SUBSET Connections /\ identities' = identities
    BY <1>8 DEF Shutdown, watchVars
  <2> HIDE DEF C
  <2> QED BY <1>4, <2>1
<1> QED BY <1>3, <1>5, <1>6, <1>7, <1>8 DEF ConnectionNext
-----------------------------------------------------------------------------
(* The theorems. *)

(* Every reachable state is typed, its responses are numbered without gaps *)
(* and its requests are where their responses say they are.                *)
THEOREM InvHolds == ConnectionSpec => [](Inv /\ RoutersCurrent)
BY InvInit, InvStep, RoutersStep, PTL DEF ConnectionSpec

(* handle_connection answers the frames of a client in their order, with a *)
(* reply that fits each, for any number of connections and pipelined       *)
(* requests, whatever the broker does.                                     *)
THEOREM ResponsesComeInOrder == ConnectionSpec => []AnswersInOrder
<1>1. Inv => AnswersInOrder
  <2> SUFFICES ASSUME Inv, NEW c \in Connections, NEW n \in DOMAIN written[c]
               PROVE  written[c][n].packet = n /\ written[c][n].reply \in Replies(sent[c][n], n)
    BY DEF AnswersInOrder
  <2>1. written[c] \in Seq(Response)
    BY DEF Inv, TypeOK
  <2>2. DOMAIN written[c] = 1..Len(written[c])
    BY <2>1
  <2> QED BY <2>2 DEF Inv, ConnectionOK, Matched
<1> QED BY <1>1, InvHolds, PTL

(* Each request is with the broker under the context that the first frame  *)
(* of its connection gave, however long it waited for the channel.         *)
THEOREM RequestsCarryTheContext == ConnectionSpec => []ContextShared
<1>1. Inv => ContextShared
  <2> SUFFICES ASSUME Inv PROVE ContextShared
    OBVIOUS
  <2>1. AtBroker = InChannel \cup held
    BY ElementsFacts DEF AtBroker, InChannel, Inv, TypeOK
  <2> QED BY <2>1 DEF ContextShared, Inv, Placed, Context
<1> QED BY <1>1, InvHolds, PTL

(* No request is lost or answered to nobody between the tasks, the channel *)
(* of one place and the broker, when tasks end and the broker stops at any *)
(* moment.                                                                 *)
THEOREM NoRequestIsLost == ConnectionSpec => []RequestsTracked
<1>1. Inv => RequestsTracked
  <2> SUFFICES ASSUME Inv PROVE RequestsTracked
    OBVIOUS
  <2>1. /\ AtBroker = InChannel \cup held /\ Range(senders) = Waiting
        /\ channel = <<>> => InChannel = {}
    BY ElementsFacts DEF AtBroker, InChannel, Waiting, Inv, TypeOK
  <2>2. \A c \in Connections : \A f : f \in Range(responses[c]) <=>
          \E i \in 1..Len(responses[c]) : responses[c][i] = f
    <3> TAKE c \in Connections
    <3>1. responses[c] \in Seq(Response)
      BY DEF Inv, TypeOK
    <3> QED BY <3>1, ElementsFacts
  <2>3. \A m \in Waiting \cup InChannel \cup held : m.from \in Connections
    BY PlacesAreTyped DEF Inv
  <2>4. \A c \in Connections : \A f \in Range(responses[c]) :
          /\ f.state = "sending" => Message(c, f) \in Waiting
          /\ f.state = "sent" => Message(c, f) \in InChannel \cup held
    BY <2>2 DEF Inv, Tracked
  <2>5. \A m \in Waiting : \E f \in Range(responses[m.from]) :
          f.state = "sending" /\ m = Message(m.from, f)
    <3> TAKE m \in Waiting
    <3>1. PICK i \in 1..Len(responses[m.from]) :
            responses[m.from][i].state = "sending" /\ m = Message(m.from, responses[m.from][i])
      BY DEF Inv, Tracked
    <3>2. responses[m.from][i] \in Range(responses[m.from])
      BY <2>2, <2>3
    <3> QED BY <3>1, <3>2
  <2>6. ASSUME NEW m \in InChannel \cup held, m.from \notin cancelled
        PROVE  \E f \in Range(responses[m.from]) : f.state = "sent" /\ m = Message(m.from, f)
    <3>1. PICK i \in 1..Len(responses[m.from]) :
            responses[m.from][i].state = "sent" /\ m = Message(m.from, responses[m.from][i])
      BY <2>6 DEF Inv, Tracked
    <3>2. responses[m.from][i] \in Range(responses[m.from])
      BY <2>2, <2>3
    <3> QED BY <3>1, <3>2
  <2>7. ~running => senders = <<>> /\ AtBroker = {}
    BY <2>1 DEF Inv, Tracked
  <2> QED BY <2>1, <2>4, <2>5, <2>6, <2>7 DEF RequestsTracked
<1> QED BY <1>1, InvHolds, PTL
(* Only Route adds to the responses that a connection is owed.             *)
LEMMA OnlyRouteOwes ==
  ASSUME Inv, [ConnectionNext]_connectionVars, NEW d \in Connections
  PROVE  \/ Len(responses'[d]) <= Len(responses[d])
         \/ \E frame \in Frame : Route(d, frame)
<1>1. /\ responses \in [Connections -> Seq(Response)]
      /\ \A e \in Connections : responses[e] \in Seq(Response) /\ Len(responses[e]) \in Nat
  BY DEF Inv, TypeOK
<1>2. ASSUME responses'[d] = responses[d] \/ responses'[d] = <<>>
      PROVE  Len(responses'[d]) <= Len(responses[d])
  BY <1>1, <1>2
<1>3. ASSUME NEW g(_), responses'[d] = [i \in DOMAIN responses[d] |-> g(i)]
      PROVE  Len(responses'[d]) <= Len(responses[d])
  <2>1. DOMAIN responses[d] = 1..Len(responses[d])
    BY <1>1
  <2>2. Len(responses'[d]) = Len(responses[d])
    BY <1>1, <1>3, <2>1
  <2> QED BY <1>1, <2>2
<1>4. CASE UNCHANGED connectionVars
  BY <1>2, <1>4 DEF connectionVars, localVars
<1>5. ASSUME NEW C, Ends(C) PROVE Len(responses'[d]) <= Len(responses[d])
  BY <1>2, <1>5 DEF Ends
<1>6. ASSUME NEW M, NEW reply, Resolve(M, reply) PROVE Len(responses'[d]) <= Len(responses[d])
  <2> DEFINE g(i) == IF Message(d, responses[d][i]) \in M THEN Ready(responses[d][i].packet, reply)
                     ELSE responses[d][i]
  <2>1. responses'[d] = [i \in DOMAIN responses[d] |-> g(i)]
    BY <1>6 DEF Resolve
  <2> HIDE DEF g
  <2> QED BY <1>3, <2>1
<1>7. ASSUME NEW c \in Connections, ConnectionSteps(c)
      PROVE  \/ Len(responses'[d]) <= Len(responses[d])
             \/ \E frame \in Frame : Route(d, frame)
  <2>1. CASE Accept(c)
    BY <1>2, <2>1 DEF Accept
  <2>2. CASE Hangup(c)
    BY <1>5, <2>2 DEF Hangup
  <2>3. CASE Poll(c)
    <3> DEFINE g(i) == Polled(responses[d][i])
    <3>1. CASE d # c
      BY <1>1, <1>2, <2>3, <3>1 DEF Poll
    <3>2. CASE d = c
      <4>1. responses'[d] = [i \in DOMAIN responses[d] |-> g(i)]
        BY <1>1, <2>3, <3>2 DEF Poll
      <4> HIDE DEF g
      <4> QED BY <1>3, <4>1
    <3> QED BY <3>1, <3>2
  <2>4. CASE Submit(c)
    <3> DEFINE g(i) == IF responses[d][i].packet = Head(senders).packet
                       THEN [responses[d][i] EXCEPT !.state = "sent"] ELSE responses[d][i]
    <3>1. CASE d # c
      BY <1>1, <1>2, <2>4, <3>1 DEF Submit
    <3>2. CASE d = c
      <4>1. responses'[d] = [i \in DOMAIN responses[d] |-> g(i)]
        BY <1>1, <2>4, <3>2 DEF Submit
      <4> HIDE DEF g
      <4> QED BY <1>3, <4>1
    <3> QED BY <3>1, <3>2
  <2>5. CASE Respond(c)
    <3>1. CASE d # c
      BY <1>1, <1>2, <2>5, <3>1 DEF Respond
    <3>2. CASE d = c
      <4>1. responses[d] # <<>> /\ responses'[d] = Tail(responses[d])
        BY <1>1, <2>5, <3>2 DEF Respond
      <4>2. Len(responses'[d]) = Len(responses[d]) - 1
        BY <1>1, <4>1, HeadTailProperties
      <4> QED BY <1>1, <4>2
    <3> QED BY <3>1, <3>2
  <2>6. CASE Write(c)
    BY <1>2, <1>5, <2>6 DEF Write
  <2>7. ASSUME NEW frame \in Frame, Route(c, frame)
        PROVE  \/ Len(responses'[d]) <= Len(responses[d])
               \/ \E fr \in Frame : Route(d, fr)
    <3>1. CASE d # c
      BY <1>1, <1>2, <2>7, <3>1 DEF Route
    <3> QED BY <2>7, <3>1
  <2>8. ASSUME NEW frame \in Frame, Reject(c, frame) PROVE Len(responses'[d]) <= Len(responses[d])
    BY <1>2, <1>5, <2>8 DEF Reject
  <2>9. ASSUME NEW frame \in Frame, RejectPipelined(c, frame)
        PROVE  Len(responses'[d]) <= Len(responses[d])
    BY <1>5, <2>9 DEF RejectPipelined
  <2> QED BY <1>7, <2>1, <2>2, <2>3, <2>4, <2>5, <2>6, <2>7, <2>8, <2>9 DEF ConnectionSteps
<1>8. CASE BrokerSteps
  BY <1>2, <1>6, <1>8 DEF BrokerSteps, Take, BrokerStops, AnswerCancelled, Answer, localVars
<1>9. ASSUME NEW l, Publish(l) PROVE Len(responses'[d]) <= Len(responses[d])
  BY <1>2, <1>9 DEF Publish
<1>10. CASE Shutdown
  BY <1>5, <1>10 DEF Shutdown
<1> QED BY <1>4, <1>7, <1>8, <1>9, <1>10 DEF ConnectionNext

(* refresh_identity_answer: an identity request is answered from the list  *)
(* in force when it is routed, and forwarded when there is none, however   *)
(* often pairing has published another since the connection opened.        *)
THEOREM IdentityAnswersAreCurrent == ConnectionSpec => IdentitiesCurrent
<1> DEFINE A == \A c \in Connections :
             Len(responses'[c]) > Len(responses[c]) /\ Last(sent'[c]) = "identities" =>
               Last(responses'[c]).reply = identities
<1>1. Inv /\ RoutersCurrent /\ [ConnectionNext]_connectionVars => A
  <2> SUFFICES ASSUME Inv, RoutersCurrent, [ConnectionNext]_connectionVars,
                      NEW c \in Connections, Len(responses'[c]) > Len(responses[c]),
                      Last(sent'[c]) = "identities"
               PROVE  Last(responses'[c]).reply = identities
    OBVIOUS
  <2>1. /\ TypeOK /\ responses[c] \in Seq(Response) /\ Len(responses[c]) \in Nat
        /\ router[c] \in Routers
    BY DEF Inv, TypeOK
  <2>2. TypeOK' /\ Len(responses'[c]) \in Nat
    BY InvStep DEF Inv, TypeOK
  <2>3. PICK frame \in Frame : Route(c, frame)
    BY <2>1, <2>2, OnlyRouteOwes
  <2> DEFINE rt == Refreshed(router[c])
             n == Len(sent[c]) + 1
             f == Routed(rt, frame, n)
  <2>4. /\ phase[c] = "selecting"
        /\ sent' = [sent EXCEPT ![c] = Append(@, frame)]
        /\ responses' = [responses EXCEPT ![c] = Append(@, f)]
    BY <2>3 DEF Route, Receives
  <2>5. rt.answer = identities
    BY <2>1, <2>4, RefreshedFacts DEF RoutersCurrent
  <2>6. Last(sent'[c]) = frame
    <3>1. Len(sent'[c]) = n /\ sent'[c][n] = frame
      BY <2>1, <2>4, AnotherFrame
    <3> HIDE DEF n
    <3> QED BY <3>1 DEF Last
  <2> HIDE DEF rt, n
  <2>7. f.reply = identities
    <3>1. CASE rt.answer # None
      <4>1. f = Ready(n, rt.answer)
        BY <2>6, <3>1 DEF Routed
      <4> QED BY <2>5, <4>1 DEF Ready
    <3>2. CASE rt.answer = None
      <4>1. f = Forward(n, rt.context)
        BY <2>6, <3>2 DEF Routed
      <4> QED BY <2>5, <3>2, <4>1 DEF Forward
    <3> QED BY <3>1, <3>2
  <2> HIDE DEF f
  <2>8. Last(responses'[c]) = f
    <3>1. responses'[c] = Append(responses[c], f)
      BY <2>1, <2>4 DEF TypeOK
    <3>2. Len(responses'[c]) = Len(responses[c]) + 1 /\ responses'[c][Len(responses[c]) + 1] = f
      BY <2>1, <3>1
    <3> QED BY <3>2 DEF Last
  <2> QED BY <2>7, <2>8
<1> QED BY <1>1, InvHolds, PTL DEF ConnectionSpec, IdentitiesCurrent
=============================================================================
