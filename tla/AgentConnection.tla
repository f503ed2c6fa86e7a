-------------------------- MODULE AgentConnection --------------------------
(***************************************************************************)
(* The local side of the daemon: one task per connection to the SSH-agent  *)
(* socket (agent_socket/listener.rs), each with its own packet router      *)
(* (request_router.rs), sharing the one-place channel to the broker.       *)
(*                                                                         *)
(* A step is what a task does between two awaits.  While it writes a       *)
(* response it reads no frame and polls none of its other requests: a      *)
(* request that waits for the channel then keeps its turn but cannot use   *)
(* it.  Of a packet only its class is kept; of the broker, that it takes   *)
(* requests, answers each once and stops (module Broker models the rest).  *)
(***************************************************************************)
EXTENDS Integers, Sequences, FiniteSets, SequencesExt

CONSTANTS
  Connections,    \* connections accepted, each used once
  Lists,          \* encoded identity answers
  None,           \* no identity list known, no context, no response
  MaxPipelined,   \* MAX_PIPELINED_REQUESTS
  MaxFrames       \* bound on the frames all clients send

ASSUME ConnectionAssumption ==
  /\ MaxPipelined \in Nat \ {0}
  /\ MaxFrames \in Nat \ {0}
  /\ None \notin Lists

VARIABLES
  identities,  \* the pairing service's watch: an identity list, or None
  published,   \* the watch has changed since the router was made
  serving,     \* the accept loop runs
  phase,       \* where each task stands
  sent,        \* the classes of the frames each task has decoded
  router,      \* the ConnectionRouter of each task
  responses,   \* FuturesOrdered: the responses each task still owes
  writing,     \* the response each task is writing
  written,     \* the responses each client was sent
  senders,     \* requests that wait for a place in the channel, first come first
  channel,     \* requests in the channel
  held,        \* requests the broker has taken and not answered
  running,     \* the broker runs
  cancelled    \* connections whose cancellation token has fired

localVars  == <<phase, sent, router, responses, writing, written>>
brokerVars == <<senders, channel, held, running>>
watchVars  == <<identities, published>>
connectionVars == <<watchVars, serving, localVars, brokerVars, cancelled>>

(* What the frame codec and the classifiers make of a frame.               *)
Frame == {"malformed", "context", "badContext", "identities", "bind", "sign"}

Reply == {"Success", "Failure", "Remote"} \cup Lists

(* One place: BROKER_REQUEST_CHANNEL_CAPACITY.                             *)
ChannelCapacity == 1

(* No packet seen yet.  A task has its router from Accept until it ends.   *)
NewRouter(answer, unseen) == [answer |-> answer, unseen |-> unseen, context |-> None, accepts |-> TRUE]
NoRouter == NewRouter(None, FALSE)

ConnectionInit ==
  /\ identities \in Lists \cup {None}
  /\ published = FALSE
  /\ serving = TRUE
  /\ phase = [c \in Connections |-> "new"]
  /\ sent = [c \in Connections |-> <<>>]
  /\ router = [c \in Connections |-> NoRouter]
  /\ responses = [c \in Connections |-> <<>>]
  /\ writing = [c \in Connections |-> None]
  /\ written = [c \in Connections |-> <<>>]
  /\ senders = <<>>
  /\ channel = <<>>
  /\ held = {}
  /\ running = TRUE
  /\ cancelled = {}

-----------------------------------------------------------------------------
(* The connection's task. *)

(* A connection clones the shared receiver, which has not seen any change  *)
(* since the router was made, and derives its answer from the value now.   *)
Accept(c) ==
  /\ serving
  /\ phase[c] = "new"
  /\ phase' = [phase EXCEPT ![c] = "selecting"]
  /\ router' = [router EXCEPT ![c] = NewRouter(identities, published)]
  /\ UNCHANGED <<watchVars, serving, sent, responses, writing, written, brokerVars, cancelled>>

(* The elements of a queue that are in S, in their order; a recursive      *)
(* function, because TLAPS knows nothing of SelectSeq.                     *)
Kept(queue, S) ==
  LET kept[i \in 0..Len(queue)] ==
        IF i = 0 THEN <<>>
        ELSE IF queue[i] \in S THEN Append(kept[i - 1], queue[i]) ELSE kept[i - 1]
  IN  kept[Len(queue)]

(* Mutant: nothing cancels the requests of a task that ends. *)
Ends_KeepsToken(C) ==
  /\ phase' = [c \in Connections |-> IF c \in C THEN "closed" ELSE phase[c]]
  /\ responses' = [c \in Connections |-> IF c \in C THEN <<>> ELSE responses[c]]
  /\ writing' = [c \in Connections |-> IF c \in C THEN None ELSE writing[c]]
  /\ router' = [c \in Connections |-> IF c \in C THEN NoRouter ELSE router[c]]
  /\ senders' = Kept(senders, {m \in Range(senders) : m.from \notin C})
  /\ cancelled' = cancelled

(* The tasks of C end: their futures are dropped, those that wait for the  *)
(* channel with them, and the drop guard cancels all their tokens.         *)
Ends(C) ==
  /\ phase' = [c \in Connections |-> IF c \in C THEN "closed" ELSE phase[c]]
  /\ responses' = [c \in Connections |-> IF c \in C THEN <<>> ELSE responses[c]]
  /\ writing' = [c \in Connections |-> IF c \in C THEN None ELSE writing[c]]
  /\ router' = [c \in Connections |-> IF c \in C THEN NoRouter ELSE router[c]]
  /\ senders' = Kept(senders, {m \in Range(senders) : m.from \notin C})
  /\ cancelled' = cancelled \cup C

(* A response: at once, or from submit, which has taken the context along. *)
Ready(n, reply) == [packet |-> n, state |-> "ready", reply |-> reply, context |-> None]
Forward(n, context) == [packet |-> n, state |-> "new", reply |-> None, context |-> context]

(* Mutant: the answer of the time of the connection is kept. *)
Refreshed_Never(rt) == rt

(* refresh_identity_answer                                                 *)
Refreshed(rt) == IF rt.unseen THEN [rt EXCEPT !.answer = identities, !.unseen = FALSE] ELSE rt

(* Mutant: a packet other than a context leaves the connection open to one. *)
Settled_StaysOpen(rt) == rt

(* The first packet decides: it is the context or there is none.           *)
Settled(rt) == [rt EXCEPT !.accepts = FALSE]

(* What route makes of a frame: a response, or an error.                   *)
Routable(rt, frame) ==
  /\ frame \notin {"malformed", "badContext"}
  /\ frame = "context" => rt.accepts

Routed(rt, frame, n) ==
  CASE frame = "context" -> Ready(n, "Success")
    [] frame = "identities" /\ rt.answer # None -> Ready(n, rt.answer)
    [] frame = "bind" -> Ready(n, "Failure")
    [] OTHER -> Forward(n, rt.context)

Configured(rt, frame, n) ==
  IF frame = "context" THEN [Settled(rt) EXCEPT !.context = n] ELSE Settled(rt)

Receives(c, frame) ==
  /\ phase[c] = "selecting"
  /\ FoldFunctionOnSet(LAMBDA q, n : Len(q) + n, 0, sent, Connections) < MaxFrames
  /\ sent' = [sent EXCEPT ![c] = Append(@, frame)]

Full(c) == Len(responses[c]) >= MaxPipelined

Route(c, frame) ==
  /\ Receives(c, frame)
  /\ ~Full(c)
  /\ LET rt == Refreshed(router[c])
         n  == Len(sent[c]) + 1
     IN  /\ Routable(rt, frame)
         /\ router' = [router EXCEPT ![c] = Configured(rt, frame, n)]
         /\ responses' = [responses EXCEPT ![c] = Append(@, Routed(rt, frame, n))]
  /\ UNCHANGED <<watchVars, serving, phase, writing, written, brokerVars, cancelled>>

(* Mutant: a rejected frame is answered although responses are owed. *)
Reject_Overtakes(c, frame) ==
  /\ Receives(c, frame)
  /\ frame # "malformed" => ~Full(c)
  /\ ~Routable(Refreshed(router[c]), frame)
  /\ phase' = [phase EXCEPT ![c] = "failing"]
  /\ writing' = [writing EXCEPT ![c] = Ready(Len(sent[c]) + 1, "Failure")]
  /\ UNCHANGED <<watchVars, serving, router, responses, written, brokerVars, cancelled>>

(* A frame that cannot be decoded or routed ends the connection, with a    *)
(* failure response only where no response is owed before it.              *)
Reject(c, frame) ==
  /\ Receives(c, frame)
  /\ frame # "malformed" => ~Full(c)
  /\ ~Routable(Refreshed(router[c]), frame)
  /\ \/ /\ responses[c] = <<>>
        /\ phase' = [phase EXCEPT ![c] = "failing"]
        /\ writing' = [writing EXCEPT ![c] = Ready(Len(sent[c]) + 1, "Failure")]
        /\ UNCHANGED <<responses, router, senders, cancelled>>
     \/ responses[c] # <<>> /\ Ends({c})
  /\ UNCHANGED <<watchVars, serving, written, channel, held, running>>

RejectPipelined(c, frame) ==
  /\ Receives(c, frame)
  /\ frame # "malformed" /\ Full(c)
  /\ Ends({c})
  /\ UNCHANGED <<watchVars, serving, written, channel, held, running>>

(* The client closes its side, or the socket fails.                        *)
Hangup(c) ==
  /\ phase[c] \in {"selecting", "writing", "failing"}
  /\ Ends({c})
  /\ UNCHANGED <<watchVars, serving, sent, written, channel, held, running>>

-----------------------------------------------------------------------------
(* Polling the responses. *)

Message(c, f) == [from |-> c, packet |-> f.packet, context |-> f.context]

NewIn(c) == Kept(responses[c], {f \in Range(responses[c]) : f.state = "new"})

(* The first poll of submit: the request joins those that wait for the     *)
(* channel, in the order of its connection, or fails if it is closed.      *)
Polled(f) ==
  IF f.state # "new" THEN f
  ELSE IF running THEN [f EXCEPT !.state = "sending"] ELSE Ready(f.packet, "Failure")

Poll(c) ==
  /\ phase[c] = "selecting"
  /\ NewIn(c) # <<>>
  /\ responses' = [responses EXCEPT ![c] = [i \in DOMAIN @ |-> Polled(@[i])]]
  /\ senders' = IF running THEN senders \o [i \in DOMAIN NewIn(c) |-> Message(c, NewIn(c)[i])] ELSE senders
  /\ UNCHANGED <<watchVars, serving, phase, sent, router, writing, written, channel, held, running, cancelled>>

(* The channel has a place for the request that waited longest; its task   *)
(* must poll it to use the place.                                          *)
Submit(c) ==
  /\ phase[c] = "selecting"
  /\ running
  /\ senders # <<>> /\ Head(senders).from = c
  /\ Len(channel) < ChannelCapacity
  /\ channel' = Append(channel, Head(senders))
  /\ senders' = Tail(senders)
  /\ responses' = [responses EXCEPT ![c] =
       [i \in DOMAIN @ |-> IF @[i].packet = Head(senders).packet THEN [@[i] EXCEPT !.state = "sent"] ELSE @[i]]]
  /\ UNCHANGED <<watchVars, serving, phase, sent, router, writing, written, held, running, cancelled>>

(* The response owed longest is ready.                                     *)
Respond(c) ==
  /\ phase[c] = "selecting"
  /\ responses[c] # <<>> /\ Head(responses[c]).state = "ready"
  /\ writing' = [writing EXCEPT ![c] = Head(responses[c])]
  /\ responses' = [responses EXCEPT ![c] = Tail(@)]
  /\ phase' = [phase EXCEPT ![c] = "writing"]
  /\ UNCHANGED <<watchVars, serving, sent, router, written, brokerVars, cancelled>>

(* The client has read the response; after a failure response to a         *)
(* rejected frame the task ends.                                           *)
Write(c) ==
  /\ written' = [written EXCEPT ![c] = Append(@, writing[c])]
  /\ \/ /\ phase[c] = "writing"
        /\ phase' = [phase EXCEPT ![c] = "selecting"]
        /\ writing' = [writing EXCEPT ![c] = None]
        /\ UNCHANGED <<responses, router, senders, cancelled>>
     \/ phase[c] = "failing" /\ Ends({c})
  /\ UNCHANGED <<watchVars, serving, sent, channel, held, running>>

-----------------------------------------------------------------------------
(* The daemon around the connections. *)

(* shutdown aborts all connection tasks, wherever they stand.              *)
Shutdown ==
  /\ serving
  /\ serving' = FALSE
  /\ Ends({c \in Connections : phase[c] # "new"})
  /\ UNCHANGED <<watchVars, sent, written, channel, held, running>>

(* The pairing service publishes another identity list, or none.           *)
Publish(l) ==
  /\ identities' = l
  /\ published' = TRUE
  /\ router' = [c \in Connections |-> 
       IF phase[c] \in {"new", "closed"} THEN router[c] ELSE [router[c] EXCEPT !.unseen = TRUE]]
  /\ UNCHANGED <<serving, phase, sent, responses, writing, written, brokerVars, cancelled>>

(* The broker takes a request into its pending set.                        *)
Take ==
  /\ running
  /\ channel # <<>>
  /\ held' = held \cup {Head(channel)}
  /\ channel' = Tail(channel)
  /\ UNCHANGED <<watchVars, serving, localVars, senders, running, cancelled>>

(* submit receives the reply, or finds the sender of it dropped.           *)
Resolve(M, reply) ==
  responses' = [c \in Connections |-> [i \in DOMAIN responses[c] |->
    IF Message(c, responses[c][i]) \in M THEN Ready(responses[c][i].packet, reply) ELSE responses[c][i]]]

(* The broker answers a request: with the remote's answer, or with an      *)
(* error at its deadline or because it has no room for it.                 *)
Answer(m, reply) ==
  /\ running
  /\ m \in held
  /\ held' = held \ {m}
  /\ Resolve({m}, reply)
  /\ UNCHANGED <<watchVars, serving, phase, sent, router, writing, written, senders, channel, running, cancelled>>

(* The token of a request has fired: the broker drops it.                  *)
AnswerCancelled(m) == m.from \in cancelled /\ Answer(m, "Failure")

(* The broker stops: what it holds, what is in the channel and what waits  *)
(* for the channel fails.                                                  *)
BrokerStops ==
  /\ running
  /\ running' = FALSE
  /\ Resolve(held \cup Range(channel) \cup Range(senders), "Failure")
  /\ held' = {}
  /\ channel' = <<>>
  /\ senders' = <<>>
  /\ UNCHANGED <<watchVars, serving, phase, sent, router, writing, written, cancelled>>

-----------------------------------------------------------------------------
ConnectionSteps(c) ==
  \/ Accept(c) \/ Hangup(c)
  \/ Poll(c) \/ Submit(c) \/ Respond(c) \/ Write(c)
  \/ \E frame \in Frame : Route(c, frame) \/ Reject(c, frame) \/ RejectPipelined(c, frame)

BrokerSteps ==
  \/ Take \/ BrokerStops
  \/ \E m \in held : AnswerCancelled(m) \/ \E reply \in {"Remote", "Failure"} : Answer(m, reply)

ConnectionNext ==
  \/ \E c \in Connections : ConnectionSteps(c)
  \/ BrokerSteps
  \/ \E l \in Lists \cup {None} : Publish(l)
  \/ Shutdown

ConnectionSpec == ConnectionInit /\ [][ConnectionNext]_connectionVars

-----------------------------------------------------------------------------
(* Properties. *)

(* The replies a client may take for the answer to its n-th frame.         *)
Replies(frame, n) ==
  CASE frame = "context"    -> IF n = 1 THEN {"Success"} ELSE {"Failure"}
    [] frame = "sign"       -> {"Remote", "Failure"}
    [] frame = "identities" -> Lists \cup {"Remote", "Failure"}
    [] OTHER                -> {"Failure"}

(* "preserving response order for one Unix client": SSH-agent responses    *)
(* carry no number, so the n-th response a client reads must answer its    *)
(* n-th frame, whatever order the broker answers in and however frames are *)
(* rejected.                                                               *)
AnswersInOrder ==
  \A c \in Connections : \A n \in DOMAIN written[c] :
    /\ written[c][n].packet = n
    /\ written[c][n].reply \in Replies(sent[c][n], n)

AtBroker == Range(channel) \cup held

(* "Context established when the local connection opened": every request   *)
(* of a connection, however long it waits and whatever is sent after it,   *)
(* reaches the broker with the context of the connection's first frame.    *)
ContextShared ==
  \A m \in AtBroker : m.context = IF sent[m.from][1] = "context" THEN 1 ELSE None

(* No request is lost between the tasks, the one-place channel and a       *)
(* broker that may stop: what a task waits for is where it can be answered,*)
(* and what the broker has is owed to somebody or its token has fired      *)
(* ("Cancel each packet token when its local connection ends"), even if it *)
(* was in the channel when the connection ended.                           *)
RequestsTracked ==
  /\ \A c \in Connections : \A f \in Range(responses[c]) :
       /\ f.state = "sending" => Message(c, f) \in Range(senders)
       /\ f.state = "sent" => Message(c, f) \in AtBroker
  /\ \A m \in Range(senders) : \E f \in Range(responses[m.from]) :
       f.state = "sending" /\ m = Message(m.from, f)
  /\ \A m \in AtBroker : m.from \notin cancelled =>
       \E f \in Range(responses[m.from]) : f.state = "sent" /\ m = Message(m.from, f)
  /\ ~running => senders = <<>> /\ AtBroker = {}

(* An identity request is answered with the list in force when it arrives, *)
(* and forwarded when there is none, however often pairing changed since   *)
(* the connection opened.                                                  *)
IdentitiesCurrent ==
  [][\A c \in Connections :
       Len(responses'[c]) > Len(responses[c]) /\ Last(sent'[c]) = "identities" =>
         Last(responses'[c]).reply = identities]_connectionVars
=============================================================================
