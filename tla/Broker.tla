------------------------------- MODULE Broker -------------------------------
(***************************************************************************)
(* The broker actor, crates/server/src/broker/task.rs: one task that owns  *)
(* the request model of BrokerModel, the local callers waiting for an      *)
(* answer and the channel to the single remote agent.                      *)
(*                                                                         *)
(* Every action below is one iteration of run_broker: the select! branch   *)
(* that fired, the model event it applies (expire, event, reconcile) and   *)
(* all the effects it executes, since none of these awaits.  Local         *)
(* connections, WebSocket sessions and the clock are the environment: they *)
(* submit and cancel requests, connect, answer and drop channels at any    *)
(* moment and in any order.                                                *)
(***************************************************************************)
EXTENDS BrokerModel

VARIABLES
  state,         \* BrokerActor.state, the request model
  waiters,       \* requests whose local caller waits on a oneshot
  cancellations, \* requests whose cancellation future is still polled
  remote,        \* session whose outbound sender the actor holds, or None
  running,       \* the actor's loop has not returned
  answers,       \* what each caller's oneshot received
  outbound,      \* every command sent to each session, in order
  announced,     \* requests covered by the latest WakeRequest
  accepted,      \* sessions that were registered
  dropped,       \* sessions whose command receiver is gone
  overdue,       \* requests whose deadline has been reached
  cancelled      \* requests whose cancellation token has fired

actorVars == <<state, waiters, cancellations, remote, running>>
effectVars == <<answers, outbound, announced>>
environmentVars == <<accepted, dropped, overdue, cancelled>>
vars == <<actorVars, effectVars, environmentVars>>

-----------------------------------------------------------------------------
(* Messages to the remote and results for the local callers. *)

RemoteCommand == [type : {"Request", "Cancel"}, request : Requests, attempt : Nat \ {0}]

RequestCommand(r, a) == [type |-> "Request", request |-> r, attempt |-> a]
CancelCommand(r, a)  == [type |-> "Cancel", request |-> r, attempt |-> a]

RequestError == {"QueueFull", "TimedOut", "Cancelled", "Unavailable"}

NoAnswer      == [result |-> "None", session |-> None, attempt |-> 0]
Failure(e)    == [result |-> e, session |-> None, attempt |-> 0]
Success(s, a) == [result |-> "Ok", session |-> s, attempt |-> a]

Answer ==
  {NoAnswer} \cup {Failure(e) : e \in RequestError}
    \cup [result : {"Ok"}, session : Sessions, attempt : Nat \ {0}]

Answered(r) == answers[r] # NoAnswer

Init ==
  /\ state = NewState
  /\ waiters = {}
  /\ cancellations = {}
  /\ remote = None
  /\ running = TRUE
  /\ answers = [r \in Requests |-> NoAnswer]
  /\ outbound = [s \in Sessions |-> <<>>]
  /\ announced = {}
  /\ accepted = {}
  /\ dropped = {}
  /\ overdue = {}
  /\ cancelled = {}

-----------------------------------------------------------------------------
(* The effects of one event. *)

(* Mutants: queued requests are cancelled at the remote, or none is.       *)
CancelCommands_Queued(st, s, S) ==
  LET order == BySequence(st, S)
  IN  [i \in DOMAIN order |-> CancelCommand(order[i], st.pending[order[i]].attempt)]

CancelCommands_Never(st, s, S) == <<>>

(* Cancel commands for the requests of S in flight on session s.           *)
CancelCommands(st, s, S) ==
  LET order == BySequence(st, S \cap InFlightFor(st, s))
  IN  [i \in DOMAIN order |-> CancelCommand(order[i], st.pending[order[i]].state.attempt)]

RequestCommands(st) ==
  LET order == Dispatched(st)
  IN  [i \in DOMAIN order |-> RequestCommand(order[i], st.pending[order[i]].attempt + 1)]

(* Dispatch, Cancel and WakeRequired.  st is the model after expiry and    *)
(* the event, link the session whose channel the actor holds by then, and  *)
(* cancel the request the event itself withdraws.  Cancels are sent before *)
(* dispatches.  A dispatch that cannot be sent disconnects the session: it *)
(* and every dispatch behind it return to the queue.                       *)
Execute(st, link, cancel) ==
  LET expired   == Expired(state, overdue)
      delivered == Dispatched(st) = <<>> \/ (link = st.agent.session /\ link \notin dropped)
      settled   == IF delivered THEN st ELSE Disconnect(Dispatch(st), st.agent.session)
      commands  == CancelCommands(state, link, expired)
                     \o CancelCommands(state, link, cancel \ expired)
                     \o RequestCommands(st)
  IN  /\ state' = Reconcile(settled)
      /\ remote' = IF delivered THEN link ELSE None
      /\ outbound' = IF link \in Sessions \ dropped
                     THEN [outbound EXCEPT ![link] = @ \o commands]
                     ELSE outbound
      /\ announced' = IF WakeRequired(settled) THEN Range(settled.queue) ELSE announced

(* Complete: every expired request fails with TimedOut and the requests of *)
(* done get the event's result.  A request without a waiter is ignored.    *)
Complete(waiting, watching, done, result) ==
  LET expired == Expired(state, overdue)
  IN  /\ answers' = [r \in Requests |->
                       IF r \in waiting \cap expired THEN Failure("TimedOut")
                       ELSE IF r \in waiting \cap done THEN result
                       ELSE answers[r]]
      /\ waiters' = waiting \ (expired \cup done)
      /\ cancellations' = watching \ (expired \cup done)

(* Mutant: the callers of expired requests are not told.                   *)
CompleteExpired_Silent == UNCHANGED <<answers, waiters, cancellations>>

(* An event that completes nothing by itself.                              *)
CompleteExpired == Complete(waiters, cancellations, {}, NoAnswer)

-----------------------------------------------------------------------------
(* Local requests. *)

HandleLocal(r) ==
  LET st   == Expire(state, overdue)
      full == IsFull(st)
  IN  /\ running
      /\ r \notin waiters /\ ~Answered(r)
      /\ Execute(IF full THEN st ELSE Submit(st, r), remote, {})
      /\ Complete(waiters \cup {r}, cancellations \cup {r},
                  IF full THEN {r} ELSE {}, Failure("QueueFull"))
      /\ UNCHANGED <<running, environmentVars>>

(* Mutant: a request in flight is not cancelled.                           *)
HandleCancellation_QueuedOnly(r) ==
  LET st   == Expire(state, overdue)
      done == QueuedIn(st) \cap {r}
  IN  /\ running
      /\ r \in cancellations \cap cancelled
      /\ Execute(Remove(st, done), remote, done)
      /\ Complete(waiters, cancellations \ {r}, done, Failure("Cancelled"))
      /\ UNCHANGED <<running, environmentVars>>

(* The cancellation future of r is ready.  It is polled once.              *)
HandleCancellation(r) ==
  LET st   == Expire(state, overdue)
      done == Pending(st) \cap {r}
  IN  /\ running
      /\ r \in cancellations \cap cancelled
      /\ Execute(Remove(st, done), remote, done)
      /\ Complete(waiters, cancellations \ {r}, done, Failure("Cancelled"))
      /\ UNCHANGED <<running, environmentVars>>

(* The timer of the earliest deadline fires.                               *)
Tick ==
  /\ running
  /\ Expired(state, overdue) # {}
  /\ Execute(Expire(state, overdue), remote, {})
  /\ CompleteExpired
  /\ UNCHANGED <<running, environmentVars>>

-----------------------------------------------------------------------------
(* Commands of the mailbox. *)

HandleConnect(s) ==
  /\ running
  /\ s \notin accepted
  /\ state.agent.session = None
  /\ Execute(Connect(Expire(state, overdue), s), s, {})
  /\ CompleteExpired
  /\ accepted' = accepted \cup {s}
  /\ UNCHANGED <<running, dropped, overdue, cancelled>>

(* A second remote is refused.  The model has expired overdue requests by  *)
(* then, but the error takes the place of the effects and of the           *)
(* reconciliation: nobody is told.                                         *)
RejectConnect ==
  /\ running
  /\ state.agent.session # None
  /\ state' = Expire(state, overdue)
  /\ UNCHANGED <<waiters, cancellations, remote, running, effectVars, environmentVars>>

HandleReady(s) ==
  /\ running
  /\ s \in accepted
  /\ Execute(SetReady(Expire(state, overdue), s), remote, {})
  /\ CompleteExpired
  /\ UNCHANGED <<running, environmentVars>>

HandleLocked(s) ==
  /\ running
  /\ s \in accepted
  /\ Execute(SetLocked(Expire(state, overdue), s), remote, {})
  /\ CompleteExpired
  /\ UNCHANGED <<running, environmentVars>>

HandleDisconnected(s) ==
  /\ running
  /\ s \in accepted
  /\ Execute(Disconnect(Expire(state, overdue), s), IF remote = s THEN None ELSE remote, {})
  /\ CompleteExpired
  /\ UNCHANGED <<running, environmentVars>>

(* A session may answer any request with any attempt number.               *)
HandleResponse(s, r, a) ==
  LET st      == Expire(state, overdue)
      matches == Matches(st, s, r, a)
  IN  /\ running
      /\ s \in accepted
      /\ Execute(IF matches THEN Respond(st, r) ELSE st, remote, {})
      /\ Complete(waiters, cancellations, IF matches THEN {r} ELSE {}, Success(s, a))
      /\ UNCHANGED <<running, environmentVars>>

(* Shutdown, or the last command handle is dropped.                        *)
Stop ==
  /\ running
  /\ running' = FALSE
  /\ answers' = [r \in Requests |-> IF r \in waiters THEN Failure("Unavailable") ELSE answers[r]]
  /\ waiters' = {}
  /\ cancellations' = {}
  /\ UNCHANGED <<state, remote, outbound, announced, environmentVars>>

-----------------------------------------------------------------------------
(* The environment. *)

(* The local connection that owns r goes away.                             *)
CancelRequest(r) ==
  /\ running
  /\ r \notin cancelled /\ ~Answered(r)
  /\ cancelled' = cancelled \cup {r}
  /\ UNCHANGED <<actorVars, effectVars, accepted, dropped, overdue>>

(* A session task ends and drops its receiver; its Disconnected command    *)
(* may still be in the mailbox.                                            *)
DropReceiver(s) ==
  /\ running
  /\ s \in accepted \ dropped
  /\ dropped' = dropped \cup {s}
  /\ UNCHANGED <<actorVars, effectVars, accepted, overdue, cancelled>>

(* Time reaches the deadline of r.  A deadline is the instant of admission *)
(* plus a fixed timeout, so deadlines pass in the order of admission.      *)
DeadlinePasses(r) ==
  /\ running
  /\ r \in Pending(state) \ overdue
  /\ \A q \in Pending(state) \ overdue : state.pending[r].sequence <= state.pending[q].sequence
  /\ overdue' = overdue \cup {r}
  /\ UNCHANGED <<actorVars, effectVars, accepted, dropped, cancelled>>

-----------------------------------------------------------------------------
CONSTANT MaxAttempt   \* largest attempt number a session puts in a response

ASSUME MaxAttemptNatural == MaxAttempt \in Nat \ {0}

LocalSteps ==
  \/ \E r \in Requests : HandleLocal(r) \/ HandleCancellation(r)
  \/ Tick

RemoteSteps ==
  \E s \in Sessions :
    \/ HandleConnect(s)
    \/ HandleReady(s)
    \/ HandleLocked(s)
    \/ HandleDisconnected(s)
    \/ \E r \in Requests, a \in 1..MaxAttempt : HandleResponse(s, r, a)

EnvironmentSteps ==
  \/ \E r \in Requests : CancelRequest(r) \/ DeadlinePasses(r)
  \/ \E s \in Sessions : DropReceiver(s)

(* One remote client: it reconnects only after its session was removed.    *)
SingleClientNext == LocalSteps \/ RemoteSteps \/ EnvironmentSteps \/ Stop

(* Any number of clients knock at any time.                                *)
Next == SingleClientNext \/ RejectConnect

SingleClientSpec == Init /\ [][SingleClientNext]_vars
Spec == Init /\ [][Next]_vars

-----------------------------------------------------------------------------
(* Properties. *)

Connected == state.agent.session # None

(* The type of every variable of the actor and of its environment.         *)
TypeOK ==
  /\ IsBrokerState(state)
  /\ waiters \subseteq Requests
  /\ cancellations \subseteq Requests
  /\ remote \in Sessions \cup {None}
  /\ running \in BOOLEAN
  /\ answers \in [Requests -> Answer]
  /\ outbound \in [Sessions -> Seq(RemoteCommand)]
  /\ announced \subseteq Requests
  /\ accepted \subseteq Sessions
  /\ dropped \subseteq Sessions
  /\ overdue \subseteq Requests
  /\ cancelled \subseteq Requests

(* The queue holds exactly the pending requests that are not in flight,    *)
(* each once, in the order of admission, and every request in flight was   *)
(* admitted before all of them: dispatch, requeue, expiry and cancellation *)
(* never let a request overtake an older one or fall out of the queue.     *)
QueueInAdmissionOrder == SequencesDistinct(state) /\ Ordered(state)

(* The model and the actor agree on the active session, and all work in    *)
(* flight belongs to it: nothing is in flight on a session that is gone.   *)
WorkOnActiveSession ==
  /\ remote = state.agent.session
  /\ OnActiveSession(state)

(* "The remote capacity bounds requests delivered to the worker but not    *)
(* yet answered" and admission is bounded: a requeue, a redispatch or a    *)
(* burst of submissions never exceeds the two limits.                      *)
WithinLimits == Limited(state)

(* A pending request still has the local caller that asked for it: no      *)
(* request is answered and then worked on.                                 *)
PendingIsAwaited == running => Pending(state) \subseteq waiters

(* A waiting caller has a pending request behind it, hence a deadline that *)
(* will answer it (reconciliation removes a request only together with its *)
(* waiter).                                                                *)
AwaitedIsPending == running => waiters \subseteq Pending(state)

(* Reconciliation leaves no request queued while the connected remote has  *)
(* room: "request queued + client connected + capacity available" is       *)
(* dispatched in the same step that makes it true.                         *)
WorkConserving ==
  running /\ Connected => state.queue = <<>> \/ Cardinality(InFlightIn(state)) >= Capacity

(* While the remote is offline, every queued request is covered by the     *)
(* latest wake announcement, including work requeued by a disconnect.      *)
WaitingIsAnnounced ==
  running /\ ~Connected => Range(state.queue) \subseteq announced

(* What a session has been told: asked(s) are the requests it was sent,    *)
(* withdrawn(s) the ones it was told to drop.                              *)
Asked(s)     == {c.request : c \in {d \in Range(outbound[s]) : d.type = "Request"}}
Withdrawn(s) == {c.request : c \in {d \in Range(outbound[s]) : d.type = "Cancel"}}
AnsweredBy(s) == {r \in Requests : answers[r].result = "Ok" /\ answers[r].session = s}

(* The worker of the active session, which sees only the commands, knows   *)
(* which of its requests are still wanted: what it was asked, less what    *)
(* was withdrawn or answered, is what the broker counts as in flight.      *)
WorkerViewAgrees ==
  running /\ Connected /\ remote \notin dropped =>
    (Asked(remote) \ Withdrawn(remote)) \ AnsweredBy(remote) = InFlightIn(state)

(* A session is asked each request at most once, and a withdrawal names    *)
(* the attempt it was asked and comes after it.  The client treats a       *)
(* duplicate request as a protocol error that ends its session.            *)
CommandsWellFormed ==
  \A s \in Sessions : \A i, j \in DOMAIN outbound[s] :
    /\ outbound[s][i].request = outbound[s][j].request /\ i < j =>
         /\ outbound[s][i].type = "Request"
         /\ outbound[s][j] = [outbound[s][i] EXCEPT !.type = "Cancel"]
    /\ outbound[s][i].type = "Cancel" =>
         \E k \in 1..i : outbound[s][k] = [outbound[s][i] EXCEPT !.type = "Request"]

(* An accepted response answers the last attempt the request was given, on *)
(* the session it was given to, and that attempt was not withdrawn: late   *)
(* responses of earlier sessions or attempts never complete a request.     *)
AnswerFromLastAttempt ==
  \A r \in Requests : answers[r].result = "Ok" =>
    LET s == answers[r].session
        a == answers[r].attempt
    IN  /\ RequestCommand(r, a) \in Range(outbound[s])
        /\ r \notin Withdrawn(s)
        /\ \A t \in Sessions : \A c \in Range(outbound[t]) :
             c.request = r /\ t # s => c.attempt < a

(* Once its caller has been answered, with a result or an error, a request *)
(* is left alone: no later step sends a session a command about it, not    *)
(* even after the session that worked on it is lost and its work requeued, *)
(* and the step that answers it does not dispatch it as well.              *)
AnsweredIsLeftAlone ==
  [][\A s \in Sessions : \A c \in Range(outbound'[s]) \ Range(outbound[s]) :
       /\ answers[c.request] = NoAnswer
       /\ c.type = "Request" => answers'[c.request] = NoAnswer]_vars

-----------------------------------------------------------------------------
(* Fairness and liveness. *)

(* <>[]E => []<><<A>>_vars below is WF_vars(A) with E, the condition that  *)
(* enables <<A>>_vars, written out: TLC evaluates ENABLED of these actions *)
(* too slowly.  None of them is ever a stutter where E holds.              *)

(* The branches that select! eventually takes: the timer of a deadline     *)
(* that has been reached, and a fired cancellation token.                  *)
TimerElapsed == running /\ Expired(state, overdue) # {}
TokenFired(r) == running /\ r \in cancellations \cap cancelled

ActorFairness ==
  /\ <>[]TimerElapsed => []<><<Tick>>_vars
  /\ \A r \in Requests : <>[]TokenFired(r) => []<><<HandleCancellation(r)>>_vars

ActorSpec == SingleClientSpec /\ ActorFairness

(* The same branches and the Disconnected command of every session, with   *)
(* any number of clients knocking.                                         *)
ContendedFairSpec ==
  /\ Spec
  /\ WF_vars(Tick)
  /\ \A r \in Requests : WF_vars(HandleCancellation(r))
  /\ \A s \in Sessions : WF_vars(HandleDisconnected(s))

(* A caller whose deadline has passed is answered, whatever remotes do.    *)
OverdueAnswered == \A r \in Requests : r \in waiters \cap overdue ~> Answered(r)

(* A cancelled request is answered without waiting for its deadline.       *)
CancellationAnswered == \A r \in Requests : r \in waiters \cap cancelled ~> Answered(r)

-----------------------------------------------------------------------------
(* Refinement. *)

(* The waiting line behind a running broker: its pending requests by       *)
(* sequence number, of which the remote holds those in flight.             *)
Line ==
  INSTANCE RequestLine WITH
    line   <- IF running THEN BySequence(state, Pending(state)) ELSE <<>>,
    held   <- IF running THEN InFlightIn(state) ELSE {},
    online <- running /\ Connected,
    served <- {r \in Requests : answers[r].result = "Ok"},
    failed <- {r \in Requests : answers[r].result \in RequestError}

(* With one remote client, the broker implements the waiting line: no      *)
(* interleaving of submissions, reconnections, lost sessions, late         *)
(* responses, cancellations and deadlines lets a request overtake another, *)
(* be held twice, or be answered without leaving the line.                 *)
ImplementsLine == Line!Spec
=============================================================================
