---------------------------- MODULE BrokerProofs ----------------------------
(***************************************************************************)
(* The safety of the broker actor for every set of requests and sessions,  *)
(* every limit and every number of attempts: its invariant, what refused   *)
(* connections do, the commands a session gets, the refinement of          *)
(* RequestLine, and the announcements that module Push publishes.          *)
(***************************************************************************)
EXTENDS Push, BrokerModelProofs

(* The inductive invariant.  Everything the actor does rests on Consistent *)
(* (its queue, its in-flight work and its limits fit together) and on the  *)
(* channel belonging to the active session.                                *)
EnvironmentType ==
  /\ waiters \subseteq Requests
  /\ cancellations \subseteq Requests
  /\ running \in BOOLEAN
  /\ answers \in [Requests -> Answer]
  /\ outbound \in [Sessions -> Seq(RemoteCommand)]
  /\ announced \subseteq Requests
  /\ accepted \subseteq Sessions
  /\ dropped \subseteq Sessions
  /\ overdue \subseteq Requests
  /\ cancelled \subseteq Requests

WaitersUnanswered == \A r \in waiters : answers[r] = NoAnswer

Inv ==
  /\ Consistent(state)
  /\ remote = state.agent.session
  /\ EnvironmentType
  /\ PendingIsAwaited
  /\ WaitersUnanswered

(* Commands are well typed.                                                *)
LEMMA CancelCommandsType ==
  ASSUME NEW st, Consistent(st), NEW s \in Sessions, NEW S
  PROVE  CancelCommands(st, s, S) \in Seq(RemoteCommand)
<1> DEFINE T == S \cap InFlightFor(st, s)
           key == [r \in T |-> st.pending[r].sequence]
           order == InOrder(T, key)
           n == Cardinality(T)
<1>1. \A r \in Pending(st) : /\ r \in Requests
                             /\ st.pending[r].sequence \in Nat
                             /\ st.pending[r].state \in PendingState
  BY DEF Consistent, IsBrokerState, Pending, PendingRequest
<1>2. T \in SUBSET Pending(st) /\ IsFiniteSet(T)
  BY PendingFinite DEF InFlightFor, Consistent
<1>3. \A r \in T : r \in Requests /\ st.pending[r].state.attempt \in Nat \ {0}
  BY <1>1, <1>2, NoneIsNoSession DEF InFlightFor, PendingState, Queued
<1>4. key \in [T -> Int] /\ \A x, y \in T : key[x] = key[y] => x = y
  BY <1>1, <1>2 DEF Consistent, SequencesDistinct
<1>5. n \in Nat /\ order \in [1..n -> T]
  <2> HIDE DEF T, key
  <2> QED
    BY <1>2, <1>4, InOrderSorts
<1>6. CancelCommands(st, s, S)
        = [i \in 1..n |-> CancelCommand(order[i], st.pending[order[i]].state.attempt)]
  <2>1. DOMAIN order = 1..n
    BY <1>5
  <2> QED
    BY <2>1 DEF CancelCommands, BySequence
<1> HIDE DEF T, key, order, n
<1>7. \A i \in 1..n : CancelCommand(order[i], st.pending[order[i]].state.attempt) \in RemoteCommand
  BY <1>3, <1>5 DEF CancelCommand, RemoteCommand
<1> QED
  BY <1>5, <1>6, <1>7

(* Request commands are well typed.                                        *)
LEMMA RequestCommandsType ==
  ASSUME NEW st, Consistent(st)
  PROVE  RequestCommands(st) \in Seq(RemoteCommand)
<1> DEFINE order == Dispatched(st)
<1>1. order \in Seq(Requests) /\ Range(order) = {st.queue[i] : i \in 1..Popped(st)}
  BY DispatchedPrefix
<1>2. \A i \in DOMAIN order : order[i] \in Pending(st)
  <2>1. \A i \in 1..Popped(st) : i \in DOMAIN st.queue
    BY PoppedFillsRoom DEF Consistent, IsBrokerState
  <2>2. \A i \in DOMAIN st.queue : st.queue[i] \in Pending(st)
    BY DEF Consistent, Ordered, Range, QueuedIn
  <2> HIDE DEF order
  <2> QED
    BY <1>1, <2>1, <2>2 DEF Range
<1>3. \A r \in Pending(st) : r \in Requests /\ st.pending[r].attempt + 1 \in Nat \ {0}
  BY DEF Consistent, IsBrokerState, Pending, PendingRequest
<1> HIDE DEF order
<1>4. \A i \in DOMAIN order : RequestCommand(order[i], st.pending[order[i]].attempt + 1) \in RemoteCommand
  BY <1>2, <1>3 DEF RequestCommand, RemoteCommand
<1>5. RequestCommands(st) = [i \in DOMAIN order |-> RequestCommand(order[i], st.pending[order[i]].attempt + 1)]
  BY DEF RequestCommands, order
<1> QED
  BY <1>1, <1>4, <1>5

(* Nothing is dispatched while no remote is connected.                     *)
LEMMA DispatchNeedsSession ==
  ASSUME NEW st, Consistent(st), Dispatched(st) # <<>>
  PROVE  st.agent.session \in Sessions
<1> SUFFICES ASSUME st.agent.session = None PROVE FALSE
  BY AgentSession DEF Consistent
<1>1. Popped(st) = 0
  <2>1. Room(st) = 0
    BY DEF Room
  <2>2. Popped(st) \in 0..Len(st.queue) /\ Popped(st) <= Room(st) /\ Len(st.queue) \in Nat
    BY PoppedFillsRoom DEF Consistent, IsBrokerState
  <2> QED
    BY <2>1, <2>2
<1>2. Dispatched(st) \in Seq(Requests) /\ Range(Dispatched(st)) = {}
  BY <1>1, DispatchedPrefix
<1>3. DOMAIN Dispatched(st) = {}
  BY <1>2 DEF Range
<1> QED
  BY <1>2, <1>3

(* Executing the effects of an event on a consistent state.                *)
LEMMA ExecuteConsistent ==
  ASSUME Consistent(state), EnvironmentType,
         NEW st, Consistent(st), NEW link, link = st.agent.session,
         NEW cancel, Execute(st, link, cancel)
  PROVE  /\ Consistent(state')
         /\ Pending(state') = Pending(st)
         /\ remote' = state'.agent.session
         /\ outbound' \in [Sessions -> Seq(RemoteCommand)]
         /\ announced' \subseteq Requests
         /\ \/ state'.agent.session = None
            \/ state'.queue = <<>>
            \/ Cardinality(InFlightIn(state')) >= Capacity
<1> DEFINE delivered == Dispatched(st) = <<>> \/ (link = st.agent.session /\ link \notin dropped)
           settled == IF delivered THEN st ELSE Disconnect(Dispatch(st), st.agent.session)
           commands == CancelCommands(state, link, Expired(state, overdue))
                         \o CancelCommands(state, link, cancel \ Expired(state, overdue))
                         \o RequestCommands(st)
<1>1. /\ state' = Reconcile(settled)
      /\ remote' = IF delivered THEN link ELSE None
      /\ outbound' = IF link \in Sessions \ dropped
                     THEN [outbound EXCEPT ![link] = @ \o commands]
                     ELSE outbound
      /\ announced' = IF WakeRequired(settled) THEN Range(settled.queue) ELSE announced
  BY DEF Execute
<1>2. /\ Consistent(settled)
      /\ Pending(settled) = Pending(st)
      /\ settled.agent.session = IF delivered THEN link ELSE None
  <2>1. CASE delivered
    BY <2>1
  <2>2. CASE ~delivered
    <3>1. st.agent.session \in Sessions
      BY <2>2, DispatchNeedsSession
    <3>2. Consistent(Dispatch(st)) /\ Pending(Dispatch(st)) = Pending(st)
          /\ Dispatch(st).agent = st.agent
      BY DispatchConsistent
    <3> QED
      BY <2>2, <3>1, <3>2, DisconnectConsistent
  <2> QED
    BY <2>1, <2>2
<1> HIDE DEF settled, delivered
<1>3. /\ Consistent(Reconcile(settled)) /\ Pending(Reconcile(settled)) = Pending(settled)
      /\ Reconcile(settled).agent = settled.agent
      /\ \/ settled.agent.session = None
         \/ Reconcile(settled).queue = <<>>
         \/ Cardinality(InFlightIn(Reconcile(settled))) >= Capacity
  BY <1>2, ReconcileConsistent
<1>4. outbound' \in [Sessions -> Seq(RemoteCommand)]
  <2>1. CASE link \in Sessions
    <3>1. /\ CancelCommands(state, link, Expired(state, overdue)) \in Seq(RemoteCommand)
          /\ CancelCommands(state, link, cancel \ Expired(state, overdue)) \in Seq(RemoteCommand)
          /\ RequestCommands(st) \in Seq(RemoteCommand)
      BY <2>1, CancelCommandsType, RequestCommandsType
    <3>2. commands \in Seq(RemoteCommand)
      BY <3>1
    <3>3. outbound[link] \in Seq(RemoteCommand)
      BY <2>1 DEF EnvironmentType
    <3> HIDE DEF commands
    <3>4. outbound[link] \o commands \in Seq(RemoteCommand)
      BY <3>2, <3>3
    <3> QED
      BY <1>1, <2>1, <3>4 DEF EnvironmentType
  <2>2. CASE link \notin Sessions
    BY <1>1, <2>2 DEF EnvironmentType
  <2> QED
    BY <2>1, <2>2
<1>5. announced' \subseteq Requests
  <2>1. Range(settled.queue) \subseteq Requests
    BY <1>2 DEF Consistent, IsBrokerState, Range
  <2> QED
    BY <1>1, <2>1 DEF EnvironmentType
<1> QED
  BY <1>1, <1>2, <1>3, <1>4, <1>5

(* Completing requests answers waiters only, each of them once.            *)
LEMMA CompleteAnswers ==
  ASSUME EnvironmentType, NEW waiting \in SUBSET Requests, NEW watching \in SUBSET Requests,
         \A r \in waiting : answers[r] = NoAnswer,
         NEW done, NEW result, done = {} \/ result \in Answer,
         Complete(waiting, watching, done, result)
  PROVE  /\ answers' \in [Requests -> Answer]
         /\ waiters' = waiting \ (Expired(state, overdue) \cup done)
         /\ waiters' \subseteq Requests
         /\ cancellations' \subseteq Requests
         /\ \A r \in waiters' : answers'[r] = NoAnswer
         /\ \A r \in Requests : answers[r] # NoAnswer => answers'[r] = answers[r]
<1> DEFINE expired == Expired(state, overdue)
<1>1. /\ answers' = [r \in Requests |->
                       IF r \in waiting \cap expired THEN Failure("TimedOut")
                       ELSE IF r \in waiting \cap done THEN result
                       ELSE answers[r]]
      /\ waiters' = waiting \ (expired \cup done)
      /\ cancellations' = watching \ (expired \cup done)
  BY DEF Complete
<1>2. Failure("TimedOut") \in Answer
  BY DEF Answer, RequestError
<1> HIDE DEF expired
<1>3. \A r \in Requests : answers[r] \in Answer
  BY DEF EnvironmentType
<1>4. answers' \in [Requests -> Answer]
  BY <1>1, <1>2, <1>3
<1>5. \A r \in waiters' : answers'[r] = NoAnswer
  BY <1>1
<1>6. \A r \in Requests : answers[r] # NoAnswer => answers'[r] = answers[r]
  BY <1>1
<1> QED
  BY <1>1, <1>4, <1>5, <1>6 DEF expired

(* What a step must show: the invariant, answers that stay, no caller      *)
(* forgotten, and no room left unused that was not.                        *)
Conserving(st) ==
  \/ st.agent.session = None
  \/ st.queue = <<>>
  \/ Cardinality(InFlightIn(st)) >= Capacity

AnswersKept == \A r \in Requests : answers[r] # NoAnswer => answers'[r] = answers[r]

(* The two halves of a step: the model settles with the requests P pending *)
(* and its commands sent; the callers in W are left waiting.               *)
Settled(P) ==
  /\ Consistent(state')
  /\ Pending(state') = P
  /\ remote' = state'.agent.session
  /\ outbound' \in [Sessions -> Seq(RemoteCommand)]
  /\ announced' \subseteq Requests
  /\ Conserving(state')

Completed(W) ==
  /\ answers' \in [Requests -> Answer]
  /\ waiters' = W
  /\ waiters' \subseteq Requests
  /\ cancellations' \subseteq Requests
  /\ \A r \in waiters' : answers'[r] = NoAnswer
  /\ AnswersKept

(* The callers that wait for a request that the model no longer has: no    *)
(* deadline, response or cancellation will answer them.                    *)
Forgotten == waiters \ Pending(state)

StepGood ==
  /\ Inv'
  /\ AnswersKept
  /\ (running' => running /\ Forgotten' = Forgotten)
  /\ (WorkConserving => WorkConserving')

(* Executing dispatches ends in a consistent state, also when the channel  *)
(* is closed and the session is given up.                                  *)
LEMMA ExecuteSettles ==
  ASSUME Inv, NEW st, Consistent(st), NEW link, st.agent.session = link,
         NEW cancel, Execute(st, link, cancel)
  PROVE  Settled(Pending(st))
<1>1. Consistent(state) /\ EnvironmentType
  BY DEF Inv
<1> QED
  BY <1>1, ExecuteConsistent DEF Settled, Conserving

(* Completing requests answers the callers that wait for them and no       *)
(* other.                                                                  *)
LEMMA CompleteCompletes ==
  ASSUME Inv, NEW waiting \in SUBSET Requests, NEW watching \in SUBSET Requests,
         \A r \in waiting : answers[r] = NoAnswer,
         NEW done, NEW result, done = {} \/ result \in Answer,
         Complete(waiting, watching, done, result)
  PROVE  Completed(waiting \ (Expired(state, overdue) \cup done))
<1>1. EnvironmentType
  BY DEF Inv
<1> QED
  BY <1>1, CompleteAnswers DEF Completed, AnswersKept

(* The part that all handlers share: from an expired and changed state,    *)
(* reconciling and executing keep the invariant and every answer given.    *)
LEMMA EventStep ==
  ASSUME Inv, running, NEW P, NEW W, Settled(P), Completed(W), P \subseteq W,
         W \ P = Forgotten,
         accepted' \subseteq Sessions,
         UNCHANGED <<running, dropped, overdue, cancelled>>
  PROVE  StepGood
<1>1. EnvironmentType'
  BY DEF Inv, EnvironmentType, Settled, Completed
<1>2. PendingIsAwaited' /\ WaitersUnanswered'
  BY DEF PendingIsAwaited, WaitersUnanswered, Settled, Completed
<1>3. Inv'
  BY <1>1, <1>2 DEF Inv, Settled
<1>4. running' => running /\ Forgotten' = Forgotten
  BY DEF Forgotten, Settled, Completed
<1>5. WorkConserving'
  BY DEF WorkConserving, Conserving, Connected, Settled
<1> QED
  BY <1>3, <1>4, <1>5 DEF StepGood, Completed

(* Facts about the state after expiry that every event starts from.        *)
LEMMA ExpiredState ==
  ASSUME Inv
  PROVE  /\ Consistent(Expire(state, overdue))
         /\ Pending(Expire(state, overdue)) = Pending(state) \ Expired(state, overdue)
         /\ Expire(state, overdue).agent.session = remote
         /\ Expired(state, overdue) \subseteq Pending(state)
         /\ running => Pending(state) \subseteq waiters
         /\ waiters \in SUBSET Requests /\ cancellations \in SUBSET Requests
         /\ \A r \in waiters : answers[r] = NoAnswer
         /\ accepted \subseteq Sessions
<1>1. Consistent(state)
  BY DEF Inv
<1>2. Pending(state) \ overdue = Pending(state) \ Expired(state, overdue)
  BY DEF Expired
<1>3. Expired(state, overdue) \subseteq Pending(state)
  BY DEF Expired
<1> QED
  BY <1>1, <1>2, <1>3, ExpireConsistent DEF Inv, EnvironmentType, PendingIsAwaited,
     WaitersUnanswered

(* An event that completes nothing but expired requests.                   *)
LEMMA QuietStep ==
  ASSUME Inv, running, Settled(Pending(Expire(state, overdue))), CompleteExpired,
         accepted' \subseteq Sessions,
         UNCHANGED <<running, dropped, overdue, cancelled>>
  PROVE  StepGood
<1> DEFINE W == waiters \ (Expired(state, overdue) \cup {})
           P == Pending(Expire(state, overdue))
<1>1. /\ P = Pending(state) \ Expired(state, overdue)
      /\ Pending(state) \subseteq waiters
      /\ waiters \in SUBSET Requests /\ cancellations \in SUBSET Requests
      /\ \A r \in waiters : answers[r] = NoAnswer
  BY ExpiredState
<1>2. Complete(waiters, cancellations, {}, NoAnswer)
  BY DEF CompleteExpired
<1>3. Completed(W)
  BY <1>1, <1>2, CompleteCompletes
<1>4. P \subseteq W /\ W \ P = Forgotten
  <2>1. Expired(state, overdue) \subseteq Pending(state)
    BY ExpiredState
  <2> QED BY <1>1, <2>1 DEF Forgotten
<1> HIDE DEF W, P
<1> QED
  BY <1>3, <1>4, EventStep DEF P

(* Admitting, refusing or finding cancelled a local request keeps the      *)
(* invariant.                                                              *)
LEMMA HandleLocalStep ==
  ASSUME Inv, NEW r \in Requests, HandleLocal(r)
  PROVE  StepGood
<1> DEFINE expired == Expired(state, overdue)
           exp == Expire(state, overdue)
           full == IsFull(exp)
           st == IF full THEN exp ELSE Submit(exp, r)
           done == IF full THEN {r} ELSE {}
           waiting == waiters \cup {r}
           watching == cancellations \cup {r}
<1>1. /\ running /\ r \notin waiters /\ answers[r] = NoAnswer
      /\ Execute(st, remote, {})
      /\ Complete(waiting, watching, done, Failure("QueueFull"))
      /\ UNCHANGED <<running, accepted, dropped, overdue, cancelled>>
  BY DEF HandleLocal, Answered, environmentVars
<1>2. /\ Consistent(exp) /\ Pending(exp) = Pending(state) \ expired
      /\ exp.agent.session = remote
      /\ expired \subseteq Pending(state) /\ Pending(state) \subseteq waiters
      /\ waiters \in SUBSET Requests /\ cancellations \in SUBSET Requests
      /\ \A x \in waiters : answers[x] = NoAnswer
      /\ accepted \subseteq Sessions
  BY <1>1, ExpiredState
<1>3. r \notin Pending(exp) /\ r \notin expired
  BY <1>1, <1>2
<1> HIDE DEF exp, expired
<1>4. /\ Consistent(st) /\ st.agent.session = remote
      /\ Pending(st) = Pending(exp) \cup ({r} \ done)
  <2>1. CASE full
    BY <1>2, <2>1
  <2>2. CASE ~full
    <3>1. Submit(exp, r).agent = exp.agent
      BY DEF Submit
    <3> QED
      BY <1>2, <1>3, <2>2, <3>1, SubmitConsistent
  <2> QED
    BY <2>1, <2>2
<1>5. done = {} \/ Failure("QueueFull") \in Answer
  BY DEF Answer, RequestError
<1>6. done \subseteq {r}
  OBVIOUS
<1> HIDE DEF st, done
<1>7. Pending(st) = ((Pending(state) \cup {r}) \ expired) \ done
  BY <1>1, <1>2, <1>3, <1>4, <1>6
<1>8. /\ waiting \in SUBSET Requests /\ watching \in SUBSET Requests
      /\ \A x \in waiting : answers[x] = NoAnswer
  BY <1>1, <1>2
<1>9. Settled(Pending(st))
  BY <1>1, <1>4, ExecuteSettles
<1>10. Completed(waiting \ (expired \cup done))
  <2> HIDE DEF waiting, watching
  <2> QED
    BY <1>1, <1>5, <1>8, CompleteCompletes DEF expired
<1>11. /\ Pending(st) \subseteq waiting \ (expired \cup done)
       /\ (waiting \ (expired \cup done)) \ Pending(st) = Forgotten
  BY <1>1, <1>2, <1>6, <1>7 DEF Forgotten
<1>12. /\ accepted' \subseteq Sessions
       /\ UNCHANGED <<running, dropped, overdue, cancelled>>
  BY <1>1, <1>2
<1> HIDE DEF waiting
<1> QED
  BY <1>1, <1>9, <1>10, <1>11, <1>12, EventStep

(* A cancellation keeps the invariant.                                     *)
LEMMA HandleCancellationStep ==
  ASSUME Inv, NEW r \in Requests, HandleCancellation(r)
  PROVE  StepGood
<1> DEFINE expired == Expired(state, overdue)
           exp == Expire(state, overdue)
           done == Pending(exp) \cap {r}
           st == Remove(exp, done)
<1>1. /\ running
      /\ Execute(st, remote, done)
      /\ Complete(waiters, cancellations \ {r}, done, Failure("Cancelled"))
      /\ UNCHANGED <<running, accepted, dropped, overdue, cancelled>>
  BY DEF HandleCancellation, environmentVars
<1>2. /\ Consistent(exp) /\ Pending(exp) = Pending(state) \ expired
      /\ exp.agent.session = remote
      /\ expired \subseteq Pending(state) /\ Pending(state) \subseteq waiters
      /\ waiters \in SUBSET Requests /\ cancellations \in SUBSET Requests
      /\ \A x \in waiters : answers[x] = NoAnswer
      /\ accepted \subseteq Sessions
  BY <1>1, ExpiredState
<1>3. done \in SUBSET Requests
  OBVIOUS
<1> HIDE DEF exp, expired, done
<1>4. /\ Consistent(st) /\ st.agent.session = remote
      /\ Pending(st) = Pending(exp) \ done
  <2>1. Remove(exp, done).agent = exp.agent
    BY DEF Remove
  <2> QED
    BY <1>2, <1>3, <2>1, RemoveConsistent
<1>5. Failure("Cancelled") \in Answer
  BY DEF Answer, RequestError
<1> HIDE DEF st
<1>6. Settled(Pending(st))
  BY <1>1, <1>4, ExecuteSettles
<1>7. Completed(waiters \ (expired \cup done))
  <2>1. cancellations \ {r} \in SUBSET Requests
    BY <1>2
  <2> QED
    BY <1>1, <1>2, <1>5, <2>1, CompleteCompletes DEF expired
<1>8. /\ Pending(st) \subseteq waiters \ (expired \cup done)
      /\ (waiters \ (expired \cup done)) \ Pending(st) = Forgotten
  <2>1. done \subseteq Pending(exp)
    BY DEF done
  <2> QED BY <1>1, <1>2, <1>4, <2>1 DEF Forgotten
<1>9. /\ accepted' \subseteq Sessions
      /\ UNCHANGED <<running, dropped, overdue, cancelled>>
  BY <1>1, <1>2
<1> QED
  BY <1>1, <1>6, <1>7, <1>8, <1>9, EventStep

(* A response, current or stale, keeps the invariant.                      *)
LEMMA HandleResponseStep ==
  ASSUME Inv, NEW s \in Sessions, NEW r \in Requests, NEW a \in 1..MaxAttempt,
         HandleResponse(s, r, a)
  PROVE  StepGood
<1> DEFINE expired == Expired(state, overdue)
           exp == Expire(state, overdue)
           matches == Matches(exp, s, r, a)
           done == IF matches THEN {r} ELSE {}
           st == IF matches THEN Respond(exp, r) ELSE exp
<1>1. /\ running
      /\ Execute(st, remote, {})
      /\ Complete(waiters, cancellations, done, Success(s, a))
      /\ UNCHANGED <<running, accepted, dropped, overdue, cancelled>>
  BY DEF HandleResponse, environmentVars
<1>2. /\ Consistent(exp) /\ Pending(exp) = Pending(state) \ expired
      /\ exp.agent.session = remote
      /\ expired \subseteq Pending(state) /\ Pending(state) \subseteq waiters
      /\ waiters \in SUBSET Requests /\ cancellations \in SUBSET Requests
      /\ \A x \in waiters : answers[x] = NoAnswer
      /\ accepted \subseteq Sessions
  BY <1>1, ExpiredState
<1> HIDE DEF exp, expired
<1>3. matches => r \in InFlightIn(exp) /\ Success(s, a) \in Answer
  <2> SUFFICES ASSUME matches PROVE r \in InFlightIn(exp) /\ Success(s, a) \in Answer
    OBVIOUS
  <2>1. r \in Pending(exp) /\ exp.pending[r].state = InFlight(s, a)
    BY DEF Matches
  <2>2. exp.pending[r].state \in PendingState
    BY <1>2, <2>1 DEF Consistent, IsBrokerState, Pending, PendingRequest
  <2>3. InFlight(s, a) # Queued
    BY NoneIsNoSession DEF InFlight, Queued
  <2>4. a \in Nat \ {0}
    BY <2>1, <2>2, <2>3 DEF PendingState, InFlight
  <2> QED
    BY <2>1, <2>3, <2>4 DEF InFlightIn, Success, Answer
<1>4. /\ Consistent(st) /\ st.agent.session = remote
      /\ Pending(st) = Pending(exp) \ done
  <2>1. CASE matches
    BY <1>2, <1>3, <2>1, RespondConsistent
  <2>2. CASE ~matches
    BY <1>2, <2>2
  <2> QED
    BY <2>1, <2>2
<1>5. done = {} \/ Success(s, a) \in Answer
  BY <1>3
<1> HIDE DEF st, done, matches
<1>6. Settled(Pending(st))
  BY <1>1, <1>4, ExecuteSettles
<1>7. Completed(waiters \ (expired \cup done))
  BY <1>1, <1>2, <1>5, CompleteCompletes DEF expired
<1>8. /\ Pending(st) \subseteq waiters \ (expired \cup done)
      /\ (waiters \ (expired \cup done)) \ Pending(st) = Forgotten
  <2>1. done \subseteq Pending(exp)
    BY <1>3 DEF done, InFlightIn
  <2> QED BY <1>1, <1>2, <1>4, <2>1 DEF Forgotten
<1>9. /\ accepted' \subseteq Sessions
      /\ UNCHANGED <<running, dropped, overdue, cancelled>>
  BY <1>1, <1>2
<1> QED
  BY <1>1, <1>6, <1>7, <1>8, <1>9, EventStep

(* The timer keeps the invariant.                                          *)
LEMMA TickStep ==
  ASSUME Inv, Tick
  PROVE  StepGood
<1> DEFINE st == Expire(state, overdue)
<1>1. /\ running /\ Execute(st, remote, {}) /\ CompleteExpired
      /\ UNCHANGED <<running, accepted, dropped, overdue, cancelled>>
  BY DEF Tick, environmentVars
<1>2. Consistent(st) /\ st.agent.session = remote /\ accepted \subseteq Sessions
  BY ExpiredState
<1> HIDE DEF st
<1>3. Settled(Pending(st))
  BY <1>1, <1>2, ExecuteSettles
<1> QED
  BY <1>1, <1>2, <1>3, QuietStep DEF st

(* Binding a remote session keeps the invariant.                           *)
LEMMA HandleConnectStep ==
  ASSUME Inv, NEW s \in Sessions, HandleConnect(s)
  PROVE  StepGood
<1> DEFINE exp == Expire(state, overdue)
           st == Connect(exp, s)
<1>1. /\ running /\ Execute(st, s, {}) /\ CompleteExpired
      /\ state.agent.session = None
      /\ accepted' = accepted \cup {s}
      /\ UNCHANGED <<running, dropped, overdue, cancelled>>
  BY DEF HandleConnect
<1>2. Consistent(exp) /\ exp.agent.session = None /\ accepted \subseteq Sessions
  BY <1>1, ExpiredState DEF Inv
<1> HIDE DEF exp
<1>3. Consistent(st) /\ st.agent.session = s /\ Pending(st) = Pending(exp)
  BY <1>2, ConnectConsistent
<1> HIDE DEF st
<1>4. Settled(Pending(st))
  BY <1>1, <1>3, ExecuteSettles
<1> QED
  BY <1>1, <1>2, <1>3, <1>4, QuietStep DEF exp

(* Readiness messages, current or stale, keep the invariant.               *)
LEMMA HandleAvailabilityStep ==
  ASSUME Inv, NEW s \in Sessions, HandleReady(s) \/ HandleLocked(s)
  PROVE  StepGood
<1> DEFINE exp == Expire(state, overdue)
<1>1. /\ running /\ CompleteExpired
      /\ Execute(SetReady(exp, s), remote, {}) \/ Execute(SetLocked(exp, s), remote, {})
      /\ UNCHANGED <<running, accepted, dropped, overdue, cancelled>>
  BY DEF HandleReady, HandleLocked, environmentVars
<1>2. Consistent(exp) /\ exp.agent.session = remote /\ accepted \subseteq Sessions
  BY ExpiredState
<1> HIDE DEF exp
<1>3. /\ Consistent(SetReady(exp, s)) /\ Consistent(SetLocked(exp, s))
      /\ Pending(SetReady(exp, s)) = Pending(exp) /\ Pending(SetLocked(exp, s)) = Pending(exp)
      /\ SetReady(exp, s).agent.session = remote
      /\ SetLocked(exp, s).agent.session = remote
  BY <1>2, AvailabilityConsistent
<1>4. Settled(Pending(exp))
  <2>1. CASE Execute(SetReady(exp, s), remote, {})
    BY <2>1, <1>3, ExecuteSettles
  <2>2. CASE Execute(SetLocked(exp, s), remote, {})
    BY <2>2, <1>3, ExecuteSettles
  <2> QED
    BY <1>1, <2>1, <2>2
<1> QED
  BY <1>1, <1>2, <1>4, QuietStep DEF exp

(* A disconnect, current or stale, keeps the invariant.                    *)
LEMMA HandleDisconnectedStep ==
  ASSUME Inv, NEW s \in Sessions, HandleDisconnected(s)
  PROVE  StepGood
<1> DEFINE exp == Expire(state, overdue)
           link == IF remote = s THEN None ELSE remote
           st == Disconnect(exp, s)
<1>1. /\ running /\ Execute(st, link, {}) /\ CompleteExpired
      /\ UNCHANGED <<running, accepted, dropped, overdue, cancelled>>
  BY DEF HandleDisconnected, environmentVars
<1>2. Consistent(exp) /\ exp.agent.session = remote /\ accepted \subseteq Sessions
  BY ExpiredState
<1> HIDE DEF exp
<1>3. Consistent(st) /\ st.agent.session = link /\ Pending(st) = Pending(exp)
  BY <1>2, DisconnectConsistent
<1> HIDE DEF st, link
<1>4. Settled(Pending(st))
  BY <1>1, <1>3, ExecuteSettles
<1> QED
  BY <1>1, <1>2, <1>3, <1>4, QuietStep DEF exp

(* The steps that leave the request model alone.                           *)
LEMMA OutsideStep ==
  ASSUME Inv, Stop \/ EnvironmentSteps \/ UNCHANGED vars
  PROVE  StepGood
<1>1. CASE Stop
  <2>1. /\ running' = FALSE /\ waiters' = {} /\ cancellations' = {}
        /\ answers' = [x \in Requests |-> IF x \in waiters THEN Failure("Unavailable") ELSE answers[x]]
        /\ UNCHANGED <<state, remote, outbound, announced, accepted, dropped, overdue, cancelled>>
    BY <1>1 DEF Stop, environmentVars
  <2>2. Failure("Unavailable") \in Answer
    BY DEF Answer, RequestError
  <2>3. answers' \in [Requests -> Answer]
    BY <2>1, <2>2 DEF Inv, EnvironmentType
  <2>4. EnvironmentType'
    BY <2>1, <2>3 DEF Inv, EnvironmentType
  <2>5. PendingIsAwaited' /\ WaitersUnanswered' /\ ~running' /\ WorkConserving'
    BY <2>1 DEF PendingIsAwaited, WaitersUnanswered, WorkConserving
  <2>6. Inv'
    BY <2>1, <2>4, <2>5 DEF Inv
  <2>7. AnswersKept
    BY <2>1 DEF AnswersKept, Inv, WaitersUnanswered
  <2> QED
    BY <2>5, <2>6, <2>7 DEF StepGood
<1>2. CASE EnvironmentSteps \/ UNCHANGED vars
  <2>1. /\ UNCHANGED <<actorVars, effectVars, accepted>>
        /\ dropped' \subseteq Sessions /\ overdue' \subseteq Requests /\ cancelled' \subseteq Requests
    BY <1>2 DEF EnvironmentSteps, CancelRequest, DropReceiver, DeadlinePasses, vars,
       environmentVars, Inv, EnvironmentType
  <2>2. UNCHANGED <<state, waiters, cancellations, remote, running, answers, outbound, announced, accepted>>
    BY <2>1 DEF actorVars, effectVars
  <2>3. EnvironmentType'
    BY <2>1, <2>2 DEF Inv, EnvironmentType
  <2>4. Inv'
    BY <2>2, <2>3 DEF Inv, PendingIsAwaited, WaitersUnanswered
  <2>5. AnswersKept
    BY <2>2 DEF AnswersKept
  <2>6. (running' => running /\ Forgotten' = Forgotten) /\ (WorkConserving => WorkConserving')
    BY <2>2 DEF Forgotten, WorkConserving, Connected
  <2> QED
    BY <2>4, <2>5, <2>6 DEF StepGood
<1> QED
  BY <1>1, <1>2

(* A refused connection expires requests and keeps the invariant.          *)
LEMMA RejectConnectStep ==
  ASSUME Inv, RejectConnect
  PROVE  /\ Inv' /\ AnswersKept
         /\ Forgotten' = Forgotten \cup Expired(state, overdue)
         /\ Expired(state, overdue) \subseteq overdue /\ overdue' = overdue
<1>1. /\ running /\ state' = Expire(state, overdue)
      /\ UNCHANGED <<waiters, cancellations, remote, running, answers, outbound, announced,
                     accepted, dropped, overdue, cancelled>>
  BY DEF RejectConnect, effectVars, environmentVars
<1>2. /\ Consistent(state') /\ state'.agent.session = remote
      /\ Pending(state') = Pending(state) \ Expired(state, overdue)
      /\ Expired(state, overdue) \subseteq waiters
  BY <1>1, ExpiredState
<1>3. EnvironmentType' /\ WaitersUnanswered'
  BY <1>1 DEF Inv, EnvironmentType, WaitersUnanswered
<1>4. PendingIsAwaited'
  BY <1>1, <1>2 DEF Inv, PendingIsAwaited
<1>5. AnswersKept
  BY <1>1 DEF AnswersKept
<1>6. Forgotten' = Forgotten \cup Expired(state, overdue) /\ Expired(state, overdue) \subseteq overdue
  BY <1>1, <1>2 DEF Forgotten, Expired
<1> QED
  BY <1>1, <1>2, <1>3, <1>4, <1>5, <1>6 DEF Inv

(* Without refused connections, every step forgets no caller and leaves no *)
(* room unused that was not.                                               *)
LEMMA SingleClientStep ==
  ASSUME Inv, [SingleClientNext]_vars
  PROVE  StepGood
<1>1. ASSUME NEW r \in Requests, HandleLocal(r) \/ HandleCancellation(r) PROVE StepGood
  BY <1>1, HandleLocalStep, HandleCancellationStep
<1>2. CASE Tick
  BY <1>2, TickStep
<1>3. ASSUME NEW s \in Sessions,
             \/ HandleConnect(s) \/ HandleReady(s) \/ HandleLocked(s) \/ HandleDisconnected(s)
      PROVE  StepGood
  BY <1>3, HandleConnectStep, HandleAvailabilityStep, HandleDisconnectedStep
<1>4. ASSUME NEW s \in Sessions, NEW r \in Requests, NEW a \in 1..MaxAttempt, HandleResponse(s, r, a)
      PROVE  StepGood
  BY <1>4, HandleResponseStep
<1>5. CASE Stop \/ EnvironmentSteps \/ UNCHANGED vars
  BY <1>5, OutsideStep
<1> QED
  BY <1>1, <1>2, <1>3, <1>4, <1>5 DEF SingleClientNext, LocalSteps, RemoteSteps

-----------------------------------------------------------------------------
(* The invariant holds in every behaviour, refused connections included.   *)
LEMMA InvInit == Init => Inv
<1> SUFFICES ASSUME Init PROVE Inv
  OBVIOUS
<1>1. Consistent(state) /\ Pending(state) = {}
  BY NewStateConsistent DEF Init
<1>2. remote = state.agent.session
  BY DEF Init, NewState, Disconnected
<1>3. EnvironmentType
  <2>1. NoAnswer \in Answer
    BY DEF Answer
  <2> QED
    BY <2>1 DEF Init, EnvironmentType
<1>4. PendingIsAwaited /\ WaitersUnanswered
  BY <1>1 DEF Init, PendingIsAwaited, WaitersUnanswered
<1> QED
  BY <1>1, <1>2, <1>3, <1>4 DEF Inv

(* Every step keeps the invariant and every answer given.                  *)
LEMMA InvStep == Inv /\ [Next]_vars => Inv' /\ AnswersKept
<1> SUFFICES ASSUME Inv, [Next]_vars PROVE Inv' /\ AnswersKept
  OBVIOUS
<1>1. CASE [SingleClientNext]_vars
  BY <1>1, SingleClientStep DEF StepGood
<1>2. CASE RejectConnect
  BY <1>2, RejectConnectStep
<1> QED
  BY <1>1, <1>2 DEF Next

(* The invariant holds in every behaviour.                                 *)
LEMMA Invariance == Spec => []Inv
<1>1. Init => Inv
  BY InvInit
<1>2. Inv /\ [Next]_vars => Inv'
  BY InvStep
<1> QED
  BY <1>1, <1>2, PTL DEF Spec

(* Every variable keeps its type, for any number of clients.               *)
THEOREM TypeCorrect == Spec => []TypeOK
<1>1. Inv => TypeOK
  <2> SUFFICES ASSUME Inv PROVE TypeOK
    OBVIOUS
  <2>1. IsBrokerState(state)
    BY DEF Inv, Consistent
  <2>2. remote \in Sessions \cup {None}
    BY <2>1, AgentSession DEF Inv
  <2> QED
    BY <2>1, <2>2 DEF Inv, EnvironmentType, TypeOK
<1> QED
  BY <1>1, Invariance, PTL

(* The queue stays the admission order of the requests that are not in     *)
(* flight, through every dispatch, requeue, expiry and cancellation.       *)
THEOREM OrderSafe == Spec => []QueueInAdmissionOrder
<1>1. Inv => QueueInAdmissionOrder
  BY DEF Inv, Consistent, QueueInAdmissionOrder
<1> QED
  BY <1>1, Invariance, PTL

(* Work in flight always belongs to the session whose channel is held.     *)
THEOREM SessionSafe == Spec => []WorkOnActiveSession
<1>1. Inv => WorkOnActiveSession
  BY DEF Inv, Consistent, WorkOnActiveSession
<1> QED
  BY <1>1, Invariance, PTL

(* The remote capacity and the admission limit are never exceeded.         *)
THEOREM LimitsSafe == Spec => []WithinLimits
<1>1. Inv => WithinLimits
  BY DEF Inv, Consistent, WithinLimits
<1> QED
  BY <1>1, Invariance, PTL

(* No request stays in the broker once its caller has been answered.       *)
THEOREM PendingSafe == Spec => []PendingIsAwaited
<1>1. Inv => PendingIsAwaited
  BY DEF Inv
<1> QED
  BY <1>1, Invariance, PTL

-----------------------------------------------------------------------------
(* What a refused connection can do to the callers, and what it cannot. *)

(* Only the callers of requests whose deadline has passed are forgotten.   *)
ForgottenIsOverdue == running => Forgotten \subseteq overdue

(* A caller is forgotten by a refused connection and by nothing else, and  *)
(* one that was stays so while the broker runs.                            *)
RefusalsForget ==
  [][running' => \/ Forgotten' = Forgotten
                 \/ RejectConnect /\ Forgotten' = Forgotten \cup Expired(state, overdue)]_vars

(* A deadline that has passed stays passed.                                *)
LEMMA OverdueGrows == Inv /\ [Next]_vars => overdue \subseteq overdue'
BY DEF Next, SingleClientNext, LocalSteps, RemoteSteps, EnvironmentSteps, Stop, HandleLocal,
   HandleCancellation, Tick, HandleConnect, HandleReady, HandleLocked, HandleDisconnected,
   HandleResponse, CancelRequest, DropReceiver, DeadlinePasses, RejectConnect, environmentVars, vars

(* Whoever else knocks, a caller whose deadline has not passed is never    *)
(* forgotten: its request is pending until it is answered.                 *)
THEOREM OnlyOverdueForgotten == Spec => []ForgottenIsOverdue
<1>1. Init => ForgottenIsOverdue
  BY DEF Init, ForgottenIsOverdue, Forgotten
<1>2. Inv /\ ForgottenIsOverdue /\ [Next]_vars => ForgottenIsOverdue'
  <2> SUFFICES ASSUME Inv, ForgottenIsOverdue, [Next]_vars, running'
               PROVE  (Forgotten \subseteq overdue)'
    BY DEF ForgottenIsOverdue
  <2>1. overdue \subseteq overdue'
    BY OverdueGrows
  <2>2. CASE [SingleClientNext]_vars
    BY <2>1, <2>2, SingleClientStep DEF StepGood, ForgottenIsOverdue
  <2>3. CASE RejectConnect
    BY <2>3, RejectConnectStep DEF RejectConnect, ForgottenIsOverdue
  <2> QED BY <2>2, <2>3 DEF Next
<1> QED
  BY <1>1, <1>2, Invariance, PTL DEF Spec

(* And none but a refusal forgets a caller.                                *)
THEOREM OnlyRefusalsForget == Spec => RefusalsForget
<1>1. Inv /\ [Next]_vars =>
        [running' => \/ Forgotten' = Forgotten
                     \/ RejectConnect /\ Forgotten' = Forgotten \cup Expired(state, overdue)]_vars
  BY SingleClientStep, RejectConnectStep DEF StepGood, Next
<1> QED
  BY <1>1, Invariance, PTL DEF Spec, RefusalsForget

-----------------------------------------------------------------------------
(* Without refused connections, the broker also keeps its promises to the  *)
(* callers and to the remote.                                              *)
SingleClientInv == Inv /\ AwaitedIsPending /\ WorkConserving

(* The stronger invariant holds in every behaviour without refusals.       *)
LEMMA SingleClientInvariance == SingleClientSpec => []SingleClientInv
<1>1. Init => SingleClientInv
  <2> SUFFICES ASSUME Init PROVE SingleClientInv
    OBVIOUS
  <2>1. AwaitedIsPending /\ WorkConserving
    BY DEF Init, AwaitedIsPending, WorkConserving, Connected, NewState, Disconnected
  <2> QED
    BY <2>1, InvInit DEF SingleClientInv
<1>2. SingleClientInv /\ [SingleClientNext]_vars => SingleClientInv'
  <2> SUFFICES ASSUME SingleClientInv, [SingleClientNext]_vars PROVE SingleClientInv'
    OBVIOUS
  <2>1. StepGood
    BY SingleClientStep DEF SingleClientInv
  <2>2. AwaitedIsPending'
    BY <2>1 DEF SingleClientInv, StepGood, AwaitedIsPending, Forgotten
  <2> QED BY <2>1, <2>2 DEF SingleClientInv, StepGood
<1> QED
  BY <1>1, <1>2, PTL DEF SingleClientSpec

(* Every waiting caller has a pending request, hence a deadline.           *)
THEOREM CallersTracked == SingleClientSpec => []AwaitedIsPending
<1>1. SingleClientInv => AwaitedIsPending
  BY DEF SingleClientInv
<1> QED
  BY <1>1, SingleClientInvariance, PTL

(* The remote is never left idle while it has room and requests queue.     *)
THEOREM RemoteBusy == SingleClientSpec => []WorkConserving
<1>1. SingleClientInv => WorkConserving
  BY DEF SingleClientInv
<1> QED
  BY <1>1, SingleClientInvariance, PTL
-----------------------------------------------------------------------------
(* What the sessions have been told. *)

(* What CommandsWellFormed says of one session.                            *)
WellFormed(q) ==
  \A i, j \in DOMAIN q :
    /\ q[i].request = q[j].request /\ i < j =>
         q[i].type = "Request" /\ q[j] = [q[i] EXCEPT !.type = "Cancel"]
    /\ q[i].type = "Cancel" => \E k \in 1..i : q[k] = [q[i] EXCEPT !.type = "Request"]

(* The commands out agree with a model state: the attempt counter of a     *)
(* pending request is ahead of what other sessions were asked, the active  *)
(* session was asked exactly for what is in flight, and none of this was   *)
(* withdrawn.                                                              *)
Told(st, out) ==
  /\ \A s \in Sessions : \A c \in Range(out[s]) : c.request \in Pending(st) =>
       /\ c.attempt <= st.pending[c.request].attempt
       /\ s = st.agent.session => c.request \in InFlightIn(st)
       /\ s # st.agent.session /\ c.request \in InFlightIn(st) =>
            c.attempt < st.pending[c.request].attempt
  /\ \A r \in InFlightIn(st) :
       /\ st.pending[r].state.attempt = st.pending[r].attempt
       /\ RequestCommand(r, st.pending[r].attempt) \in Range(out[st.agent.session])
       /\ \A c \in Range(out[st.agent.session]) : c.request = r => c.type = "Request"

(* Commands go to registered sessions, about requests that somebody waits  *)
(* for or has been answered: an id is not admitted again.                  *)
Addressed ==
  /\ state.agent.session \in accepted \cup {None}
  /\ \A s \in Sessions : \A c \in Range(outbound[s]) :
       s \in accepted /\ (c.request \in waiters \/ answers[c.request] # NoAnswer)

(* Inductive together with Inv.                                            *)
TraceInv ==
  /\ \A s \in Sessions : WellFormed(outbound[s])
  /\ Addressed
  /\ Told(state, outbound)
  /\ AnswerFromLastAttempt

(* What the active session was asked and no longer works on it was told to *)
(* drop, or has answered.                                                  *)
Reported ==
  running /\ remote \in Sessions \ dropped =>
    \A r \in Asked(remote) :
      r \in InFlightIn(state) \/ r \in Withdrawn(remote) \/ r \in AnsweredBy(remote)

(* Commands appended to well-formed ones: withdrawals of what was asked    *)
(* and not withdrawn, and requests that were not asked before.             *)
LEMMA WellFormedAppend ==
  ASSUME NEW q \in Seq(RemoteCommand), NEW p \in Seq(RemoteCommand), WellFormed(q),
         \A i, j \in DOMAIN p : p[i].request = p[j].request => i = j,
         \A c \in Range(p) :
           \/ /\ c.type = "Cancel"
              /\ [c EXCEPT !.type = "Request"] \in Range(q)
              /\ \A d \in Range(q) : d.request = c.request => d.type = "Request"
           \/ /\ c.type = "Request"
              /\ \A d \in Range(q) : d.request # c.request
  PROVE  /\ q \o p \in Seq(RemoteCommand)
         /\ WellFormed(q \o p)
         /\ Range(q \o p) = Range(q) \cup Range(p)
<1> DEFINE n == Len(q)
           m == Len(p)
           w == q \o p
<1>1. /\ w \in Seq(RemoteCommand) /\ n \in Nat /\ m \in Nat /\ Len(w) = n + m
      /\ \A i \in 1..(n + m) : w[i] = IF i <= n THEN q[i] ELSE p[i - n]
      /\ DOMAIN w = 1..(n + m) /\ DOMAIN q = 1..n /\ DOMAIN p = 1..m
  BY ConcatProperties
<1>2. /\ \A i \in 1..n : q[i] \in RemoteCommand
      /\ \A i \in 1..m : p[i] \in RemoteCommand
  OBVIOUS
<1> HIDE DEF n, m, w
<1>3. \A i \in 1..n : i \in 1..(n + m) /\ w[i] = q[i]
  BY <1>1
<1>4. \A i \in 1..m : n + i \in 1..(n + m) /\ w[n + i] = p[i]
  <2> TAKE i \in 1..m
  <2>1. n + i \in 1..(n + m) /\ ~(n + i <= n) /\ (n + i) - n = i
    BY <1>1
  <2> QED
    BY <1>1, <2>1
<1>5. \A i \in 1..(n + m) : i \in 1..n \/ (i - n \in 1..m /\ i = n + (i - n))
  BY <1>1
<1>6. Range(w) = Range(q) \cup Range(p)
  <2>1. Range(w) \subseteq Range(q) \cup Range(p)
    BY <1>1, <1>3, <1>4, <1>5 DEF Range
  <2>2. Range(q) \subseteq Range(w) /\ Range(p) \subseteq Range(w)
    BY <1>1, <1>3, <1>4 DEF Range
  <2> QED
    BY <2>1, <2>2
<1>7. ASSUME NEW i \in 1..n, NEW k \in 1..n, q[i].type = "Request", q[k].type = "Request",
             q[i].request = q[k].request
      PROVE  i = k
  <2>1. [q[i] EXCEPT !.type = "Cancel"].type = "Cancel" /\ [q[k] EXCEPT !.type = "Cancel"].type = "Cancel"
    BY <1>2 DEF RemoteCommand
  <2>2. ~(i < k) /\ ~(k < i)
    BY <1>1, <1>7, <2>1 DEF WellFormed
  <2> QED
    BY <1>1, <2>2
<1>8. ASSUME NEW i \in 1..n, NEW j \in 1..m, q[i].request = p[j].request
      PROVE  q[i].type = "Request" /\ p[j] = [q[i] EXCEPT !.type = "Cancel"]
  <2>1. q[i] \in Range(q) /\ p[j] \in Range(p)
    BY <1>1 DEF Range
  <2>2. /\ p[j].type = "Cancel"
        /\ [p[j] EXCEPT !.type = "Request"] \in Range(q)
        /\ q[i].type = "Request"
    BY <1>8, <2>1
  <2>3. PICK k \in 1..n : q[k] = [p[j] EXCEPT !.type = "Request"]
    BY <1>1, <2>2 DEF Range
  <2>4. q[k].type = "Request" /\ q[k].request = p[j].request
    BY <1>2, <2>3 DEF RemoteCommand
  <2>5. i = k
    BY <1>7, <1>8, <2>2, <2>4
  <2>6. p[j] = [q[k] EXCEPT !.type = "Cancel"]
    BY <1>2, <2>2, <2>3 DEF RemoteCommand
  <2> QED
    BY <2>2, <2>5, <2>6
<1>9. ASSUME NEW i \in DOMAIN w, NEW j \in DOMAIN w, w[i].request = w[j].request, i < j
      PROVE  w[i].type = "Request" /\ w[j] = [w[i] EXCEPT !.type = "Cancel"]
  <2>1. i \in 1..(n + m) /\ j \in 1..(n + m)
    BY <1>1
  <2>2. CASE j \in 1..n
    <3>1. i \in 1..n
      BY <1>1, <1>9, <2>1, <2>2
    <3>2. w[i] = q[i] /\ w[j] = q[j]
      BY <1>3, <2>2, <3>1
    <3>3. q[i].request = q[j].request
      BY <1>9, <3>2
    <3>4. i \in DOMAIN q /\ j \in DOMAIN q
      BY <1>1, <2>2, <3>1
    <3>5. q[i].type = "Request" /\ q[j] = [q[i] EXCEPT !.type = "Cancel"]
      BY <1>9, <3>3, <3>4 DEF WellFormed
    <3> QED
      BY <3>2, <3>5
  <2>3. CASE i \in 1..n /\ j - n \in 1..m /\ j = n + (j - n)
    <3>1. PICK k \in 1..m : j = n + k
      BY <2>3
    <3>2. w[i] = q[i] /\ w[j] = p[k]
      BY <1>3, <1>4, <2>3, <3>1
    <3>3. q[i].request = p[k].request
      BY <1>9, <3>2
    <3>4. q[i].type = "Request" /\ p[k] = [q[i] EXCEPT !.type = "Cancel"]
      BY <1>8, <2>3, <3>3
    <3> QED
      BY <3>2, <3>4
  <2>4. CASE i - n \in 1..m /\ i = n + (i - n) /\ j - n \in 1..m /\ j = n + (j - n)
    <3>1. p[i - n].request = p[j - n].request
      BY <1>4, <1>9, <2>4
    <3>2. i - n = j - n
      BY <1>1, <2>4, <3>1
    <3> QED
      BY <1>1, <1>9, <2>4, <3>2
  <2> QED
    BY <1>5, <2>1, <2>2, <2>3, <2>4
<1>10. ASSUME NEW i \in DOMAIN w, w[i].type = "Cancel"
       PROVE  \E k \in 1..i : w[k] = [w[i] EXCEPT !.type = "Request"]
  <2>1. CASE i \in 1..n
    <3>1. PICK k \in 1..i : q[k] = [q[i] EXCEPT !.type = "Request"]
      BY <1>1, <1>3, <1>10, <2>1 DEF WellFormed
    <3>2. k \in 1..n
      BY <1>1, <2>1
    <3> QED
      BY <1>3, <2>1, <3>1, <3>2
  <2>2. CASE i - n \in 1..m /\ i = n + (i - n)
    <3>0. PICK j \in 1..m : i = n + j
      BY <2>2
    <3>1. w[i] = p[j]
      BY <1>4, <3>0
    <3>4. p[j] \in Range(p) /\ p[j].type = "Cancel"
      BY <1>1, <1>10, <3>1 DEF Range
    <3>5. [p[j] EXCEPT !.type = "Request"] \in Range(q)
      BY <3>4
    <3>2. PICK k \in 1..n : q[k] = [p[j] EXCEPT !.type = "Request"]
      BY <1>1, <3>5 DEF Range
    <3>3. k \in 1..i
      BY <1>1, <2>2
    <3> QED
      BY <1>3, <3>1, <3>2, <3>3
  <2> QED
    BY <1>1, <1>5, <2>1, <2>2
<1>11. WellFormed(w)
  BY <1>9, <1>10 DEF WellFormed
<1> QED
  BY <1>1, <1>6, <1>11 DEF w

(* The withdrawals of one event, each once.                                *)
LEMMA CancelCommandsFacts ==
  ASSUME NEW st, Consistent(st), NEW s \in Sessions, NEW S
  PROVE  LET p == CancelCommands(st, s, S) IN
         /\ \A i, j \in DOMAIN p : p[i].request = p[j].request => i = j
         /\ \A c : c \in Range(p) <=>
              \E r \in S \cap InFlightFor(st, s) : c = CancelCommand(r, st.pending[r].state.attempt)
<1> DEFINE T == S \cap InFlightFor(st, s)
           key == [r \in T |-> st.pending[r].sequence]
           order == InOrder(T, key)
           n == Cardinality(T)
           p == CancelCommands(st, s, S)
<1>1. \A r \in Pending(st) : st.pending[r].sequence \in Nat
  BY DEF Consistent, IsBrokerState, Pending, PendingRequest
<1>2. T \in SUBSET Pending(st) /\ IsFiniteSet(T)
  BY PendingFinite DEF InFlightFor, Consistent
<1>3. key \in [T -> Int] /\ \A x, y \in T : key[x] = key[y] => x = y
  BY <1>1, <1>2 DEF Consistent, SequencesDistinct
<1>4. /\ n \in Nat /\ order \in [1..n -> T]
      /\ \A x \in T : \E j \in 1..n : order[j] = x
      /\ \A i, j \in 1..n : i < j => key[order[i]] < key[order[j]]
  <2> HIDE DEF T, key
  <2> QED
    BY <1>2, <1>3, InOrderSorts
<1>5. p = [i \in 1..n |-> CancelCommand(order[i], st.pending[order[i]].state.attempt)]
  <2>1. DOMAIN order = 1..n
    BY <1>4
  <2> QED
    BY <2>1 DEF CancelCommands, BySequence
<1> HIDE DEF T, key, order, n, p
<1>6. DOMAIN p = 1..n /\ \A i \in 1..n : p[i] = CancelCommand(order[i], st.pending[order[i]].state.attempt)
  BY <1>5
<1>7. \A i, j \in DOMAIN p : p[i].request = p[j].request => i = j
  <2> SUFFICES ASSUME NEW i \in 1..n, NEW j \in 1..n, p[i].request = p[j].request PROVE i = j
    BY <1>6
  <2>1. order[i] = order[j] /\ key[order[i]] \in Int
    BY <1>3, <1>4, <1>6 DEF CancelCommand
  <2>2. ~(i < j) /\ ~(j < i)
    BY <1>4, <2>1
  <2> QED
    BY <1>4, <2>2
<1>8. \A c : c \in Range(p) <=> \E r \in T : c = CancelCommand(r, st.pending[r].state.attempt)
  BY <1>4, <1>6 DEF Range
<1> QED
  BY <1>7, <1>8 DEF T, p

(* The dispatches of one event, each once.                                 *)
LEMMA RequestCommandsFacts ==
  ASSUME NEW st, Consistent(st)
  PROVE  LET p == RequestCommands(st) IN
         /\ \A i, j \in DOMAIN p : p[i].request = p[j].request => i = j
         /\ \A c : c \in Range(p) <=>
              \E r \in Range(Dispatched(st)) : c = RequestCommand(r, st.pending[r].attempt + 1)
<1> DEFINE order == Dispatched(st)
           p == RequestCommands(st)
<1>1. \A i, j \in DOMAIN order : order[i] = order[j] => i = j
  BY DispatchedPrefix
<1> HIDE DEF order
<1>2. p = [i \in DOMAIN order |-> RequestCommand(order[i], st.pending[order[i]].attempt + 1)]
  BY DEF RequestCommands, order
<1> HIDE DEF p
<1>3. DOMAIN p = DOMAIN order
      /\ \A i \in DOMAIN order : p[i] = RequestCommand(order[i], st.pending[order[i]].attempt + 1)
  BY <1>2
<1>4. \A i, j \in DOMAIN p : p[i].request = p[j].request => i = j
  BY <1>1, <1>3 DEF RequestCommand
<1>5. \A c : c \in Range(p) <=>
        \E r \in Range(order) : c = RequestCommand(r, st.pending[r].attempt + 1)
  BY <1>3 DEF Range
<1> QED
  BY <1>4, <1>5 DEF order, p
(* The commands of one event to the session link.                          *)
Fresh(st, link, cancel, c) ==
  \/ \E r \in (Expired(state, overdue) \cup cancel) \cap InFlightFor(state, link) :
       c = CancelCommand(r, state.pending[r].state.attempt)
  \/ \E r \in Range(Dispatched(st)) : c = RequestCommand(r, st.pending[r].attempt + 1)

(* An event writes to the active session only, and keeps what was written  *)
(* well formed.                                                            *)
LEMMA ExecuteSends ==
  ASSUME Inv, TraceInv, NEW st, Consistent(st), Told(st, outbound),
         NEW link, link = st.agent.session,
         NEW cancel, Execute(st, link, cancel),
         \A r \in Expired(state, overdue) \cup cancel : r \notin Pending(st)
  PROVE  /\ \A s \in Sessions : s # link \/ s \in dropped => outbound'[s] = outbound[s]
         /\ link \in Sessions \ dropped =>
              \A c : c \in Range(outbound'[link])
                       <=> c \in Range(outbound[link]) \/ Fresh(st, link, cancel, c)
         /\ \A s \in Sessions : WellFormed(outbound'[s])
<1> DEFINE expired == Expired(state, overdue)
           C1 == CancelCommands(state, link, expired)
           C2 == CancelCommands(state, link, cancel \ expired)
           R == RequestCommands(st)
           q == outbound[link]
<1>1. outbound' = IF link \in Sessions \ dropped
                  THEN [outbound EXCEPT ![link] = @ \o (C1 \o C2 \o R)]
                  ELSE outbound
  BY DEF Execute
<1>2. outbound \in [Sessions -> Seq(RemoteCommand)] /\ \A s \in Sessions : WellFormed(outbound[s])
  BY DEF Inv, EnvironmentType, TraceInv
<1>3. \A s \in Sessions : s # link \/ s \in dropped => outbound'[s] = outbound[s]
  BY <1>1, <1>2
<1>4. CASE link \notin Sessions \ dropped
  BY <1>1, <1>2, <1>3, <1>4
<1>5. CASE link \in Sessions \ dropped
  <2>1. Consistent(state) /\ Told(state, outbound) /\ link \in Sessions
    BY <1>5 DEF Inv, TraceInv
  <2>2. C1 \in Seq(RemoteCommand) /\ C2 \in Seq(RemoteCommand) /\ R \in Seq(RemoteCommand)
        /\ q \in Seq(RemoteCommand) /\ WellFormed(q)
    BY <1>2, <2>1, CancelCommandsType, RequestCommandsType
  <2>3. /\ \A i, j \in DOMAIN C1 : C1[i].request = C1[j].request => i = j
        /\ \A c : c \in Range(C1) <=>
             \E r \in expired \cap InFlightFor(state, link) : c = CancelCommand(r, state.pending[r].state.attempt)
    BY <2>1, CancelCommandsFacts
  <2>4. /\ \A i, j \in DOMAIN C2 : C2[i].request = C2[j].request => i = j
        /\ \A c : c \in Range(C2) <=>
             \E r \in (cancel \ expired) \cap InFlightFor(state, link) :
               c = CancelCommand(r, state.pending[r].state.attempt)
    <3> DEFINE S == cancel \ expired
    <3>1. C2 = CancelCommands(state, link, S)
      OBVIOUS
    <3> HIDE DEF S, C2
    <3>2. /\ \A i, j \in DOMAIN C2 : C2[i].request = C2[j].request => i = j
          /\ \A c : c \in Range(C2) <=>
               \E r \in S \cap InFlightFor(state, link) : c = CancelCommand(r, state.pending[r].state.attempt)
      BY <2>1, <3>1, CancelCommandsFacts
    <3> QED
      BY <3>2 DEF S
  <2>5. /\ \A i, j \in DOMAIN R : R[i].request = R[j].request => i = j
        /\ \A c : c \in Range(R) <=>
             \E r \in Range(Dispatched(st)) : c = RequestCommand(r, st.pending[r].attempt + 1)
    BY RequestCommandsFacts
  <2>6. \A r \in Range(Dispatched(st)) : r \in Pending(st) /\ r \notin InFlightIn(st)
    BY ReconcilePending DEF QueuedIn, InFlightIn
  <2>7. ASSUME NEW r \in InFlightFor(state, link)
        PROVE  /\ RequestCommand(r, state.pending[r].state.attempt) \in Range(q)
               /\ \A d \in Range(q) : d.request = r => d.type = "Request"
    <3>1. r \in InFlightIn(state)
      BY <2>1, NoneIsNoSession DEF InFlightFor, InFlightIn, Queued
    <3>2. link = state.agent.session
      BY <2>1, <3>1 DEF InFlightFor, Consistent, OnActiveSession
    <3> QED
      BY <2>1, <3>1, <3>2 DEF Told
  <2>8. ASSUME NEW d \in Range(q), d.request \in Pending(st)
        PROVE  d.request \in InFlightIn(st)
    BY <2>1, <2>8 DEF Told
  <2>9. \A r, a : /\ CancelCommand(r, a).type = "Cancel" /\ CancelCommand(r, a).request = r
                  /\ [CancelCommand(r, a) EXCEPT !.type = "Request"] = RequestCommand(r, a)
                  /\ RequestCommand(r, a).type = "Request" /\ RequestCommand(r, a).request = r
    BY DEF CancelCommand, RequestCommand
  <2> HIDE DEF C1, C2, R, q, expired
  <2>10. q \o C1 \in Seq(RemoteCommand) /\ WellFormed(q \o C1) /\ Range(q \o C1) = Range(q) \cup Range(C1)
    <3>1. \A c \in Range(C1) :
            /\ c.type = "Cancel"
            /\ [c EXCEPT !.type = "Request"] \in Range(q)
            /\ \A d \in Range(q) : d.request = c.request => d.type = "Request"
      BY <2>3, <2>7, <2>9
    <3> QED
      BY <2>2, <2>3, <3>1, WellFormedAppend
  <2>11. /\ q \o C1 \o C2 \in Seq(RemoteCommand) /\ WellFormed(q \o C1 \o C2)
         /\ Range(q \o C1 \o C2) = Range(q \o C1) \cup Range(C2)
    <3>1. \A c \in Range(C2) :
            /\ c.type = "Cancel"
            /\ [c EXCEPT !.type = "Request"] \in Range(q \o C1)
            /\ \A d \in Range(q \o C1) : d.request = c.request => d.type = "Request"
      BY <2>3, <2>4, <2>7, <2>9, <2>10
    <3> QED
      BY <2>2, <2>4, <2>10, <3>1, WellFormedAppend
  <2>12. /\ WellFormed(q \o C1 \o C2 \o R)
         /\ Range(q \o C1 \o C2 \o R) = Range(q \o C1 \o C2) \cup Range(R)
    <3>1. ASSUME NEW c \in Range(R)
          PROVE  /\ c.type = "Request"
                 /\ \A d \in Range(q \o C1 \o C2) : d.request # c.request
      <4>1. PICK r \in Range(Dispatched(st)) : c = RequestCommand(r, st.pending[r].attempt + 1)
        BY <2>5
      <4>2. c.type = "Request" /\ c.request = r
        BY <2>9, <4>1
      <4>3. \A d \in Range(q) : d.request # r
        BY <2>6, <2>8
      <4>4. \A d \in Range(C1) \cup Range(C2) : d.request \in expired \cup cancel
        BY <2>3, <2>4, <2>9
      <4>5. r \notin expired \cup cancel
        BY <2>6 DEF expired
      <4> QED
        BY <2>10, <2>11, <4>2, <4>3, <4>4, <4>5
    <3> QED
      BY <2>2, <2>5, <2>11, <3>1, WellFormedAppend
  <2>13. q \o (C1 \o C2 \o R) = q \o C1 \o C2 \o R
    <3>1. C1 \o C2 \in Seq(RemoteCommand) /\ q \o C1 \in Seq(RemoteCommand)
      BY <2>2, ConcatProperties
    <3>2. q \o (C1 \o C2 \o R) = (q \o (C1 \o C2)) \o R
      BY SMTT(30), <2>2, <3>1, ConcatAssociative
    <3>3. q \o (C1 \o C2) = (q \o C1) \o C2
      BY <2>2, ConcatAssociative
    <3> QED
      BY <3>2, <3>3
  <2>14. outbound'[link] = q \o C1 \o C2 \o R
    BY <1>1, <1>2, <1>5, <2>13 DEF q
  <2>15. \A c : c \in Range(outbound'[link]) <=> c \in Range(q) \/ Fresh(st, link, cancel, c)
    <3>1. Range(outbound'[link]) = Range(q) \cup Range(C1) \cup Range(C2) \cup Range(R)
      BY <2>10, <2>11, <2>12, <2>14
    <3> QED
      BY <2>3, <2>4, <2>5, <3>1 DEF Fresh, expired
  <2> QED
    BY <1>2, <1>3, <1>5, <2>12, <2>14, <2>15 DEF q
<1> QED
  BY <1>4, <1>5
(* The fields of a command.                                                *)
LEMMA CommandsTyped ==
  ASSUME Inv, NEW s \in Sessions, NEW c \in Range(outbound[s])
  PROVE  c.request \in Requests /\ c.attempt \in Nat
<1>1. outbound[s] \in Seq(RemoteCommand)
  BY DEF Inv, EnvironmentType
<1>2. c \in RemoteCommand
  BY <1>1 DEF Range
<1> QED
  BY <1>2 DEF RemoteCommand

(* Losing its session, a request keeps the attempts it was given.          *)
LEMMA ToldIdle ==
  ASSUME NEW st, NEW new, NEW out, Told(st, out), Consistent(st), Consistent(new),
         \A s \in Sessions : \A c \in Range(out[s]) : c.attempt \in Nat,
         Pending(new) = Pending(st), InFlightIn(new) = {},
         \A r \in Pending(st) : new.pending[r].attempt >= st.pending[r].attempt,
         new.agent.session \in Sessions => \A c \in Range(out[new.agent.session]) : c.request \notin Pending(st)
  PROVE  Told(new, out)
<1>1. \A r \in Pending(st) : st.pending[r].attempt \in Nat /\ new.pending[r].attempt \in Nat
  BY DEF Consistent, IsBrokerState, Pending, PendingRequest
<1>2. ASSUME NEW s \in Sessions, NEW c \in Range(out[s]), c.request \in Pending(new)
      PROVE  c.attempt <= new.pending[c.request].attempt /\ s # new.agent.session
  <2>1. c.attempt <= st.pending[c.request].attempt
    BY <1>2 DEF Told
  <2> QED
    BY <1>1, <1>2, <2>1
<1> QED
  BY <1>2 DEF Told

(* Removing requests changes nothing that was said about the others.       *)
LEMMA ToldSubset ==
  ASSUME NEW st, NEW new, NEW out, Told(st, out),
         Pending(new) \subseteq Pending(st), new.agent.session = st.agent.session,
         \A r \in Pending(new) : new.pending[r] = st.pending[r]
  PROVE  Told(new, out)
<1>1. \A r \in Pending(new) : r \in InFlightIn(new) <=> r \in InFlightIn(st)
  BY DEF InFlightIn
<1>2. \A r \in InFlightIn(new) : r \in Pending(new)
  BY DEF InFlightIn
<1> QED
  BY <1>1, <1>2 DEF Told

(* The commands of an event agree with the model it leaves.                *)
LEMMA ExecuteTells ==
  ASSUME Inv, TraceInv, NEW st, Consistent(st), Told(st, outbound),
         NEW link, link = st.agent.session,
         NEW cancel, Execute(st, link, cancel),
         \A r \in Expired(state, overdue) \cup cancel : r \notin Pending(st)
  PROVE  Told(state', outbound')
<1> DEFINE D == Range(Dispatched(st))
           delivered == Dispatched(st) = <<>> \/ (link = st.agent.session /\ link \notin dropped)
<1>1. /\ \A s \in Sessions : s # link \/ s \in dropped => outbound'[s] = outbound[s]
      /\ link \in Sessions \ dropped =>
           \A c : c \in Range(outbound'[link])
                    <=> c \in Range(outbound[link]) \/ Fresh(st, link, cancel, c)
  BY ExecuteSends
<1>2. \A s \in Sessions : \A c \in Range(outbound[s]) : c.attempt \in Nat
  BY CommandsTyped
<1>3. D # {} => Dispatched(st) # <<>> /\ link \in Sessions
  BY DispatchNeedsSession DEF Range
<1>4. \A r \in Pending(st) : st.pending[r].attempt \in Nat
  BY DEF Consistent, IsBrokerState, Pending, PendingRequest
<1>5. CASE delivered
  <2>1. state' = Reconcile(st)
    BY <1>5 DEF Execute
  <2>2. Pending(state') = Pending(st) /\ state'.agent = st.agent /\ Consistent(state')
    BY <2>1, ReconcileConsistent
  <2>3. /\ D \subseteq QueuedIn(st)
        /\ \A r \in D : /\ state'.pending[r].state = InFlight(link, st.pending[r].attempt + 1)
                        /\ state'.pending[r].attempt = st.pending[r].attempt + 1
        /\ \A r \in Pending(st) \ D : state'.pending[r] = st.pending[r]
    BY <2>1, ReconcilePending
  <2> HIDE DEF D
  <2>4. D \subseteq Pending(st) /\ \A r \in D : r \notin InFlightIn(st)
    BY <2>3 DEF QueuedIn, InFlightIn
  <2>5. \A r \in D : r \in InFlightIn(state')
    <3> SUFFICES ASSUME NEW r \in D PROVE r \in InFlightIn(state')
      OBVIOUS
    <3>1. InFlight(link, st.pending[r].attempt + 1).session = link /\ Queued.session = None
      BY DEF InFlight, Queued
    <3>2. state'.pending[r].state.session # Queued.session
      BY <1>3, <2>3, <3>1, NoneIsNoSession
    <3> QED
      BY <2>2, <2>4, <3>2 DEF InFlightIn
  <2>6. \A r \in Pending(st) \ D : r \in InFlightIn(state') <=> r \in InFlightIn(st)
    BY <2>2, <2>3 DEF InFlightIn
  <2>7. \A r \in InFlightIn(state') : r \in Pending(st)
    BY <2>2 DEF InFlightIn
  <2>8. ASSUME NEW s \in Sessions, NEW c \in Range(outbound'[s]), c.request \in Pending(st)
        PROVE  c \in Range(outbound[s])
               \/ (s = link /\ c.request \in D /\ c = RequestCommand(c.request, st.pending[c.request].attempt + 1))
    <3>1. CASE s # link \/ s \in dropped
      BY <1>1, <3>1
    <3>2. CASE s = link /\ s \notin dropped /\ Fresh(st, link, cancel, c)
      <4>1. ASSUME NEW r \in (Expired(state, overdue) \cup cancel) \cap InFlightFor(state, link),
                   c = CancelCommand(r, state.pending[r].state.attempt)
            PROVE  FALSE
        BY <2>8, <4>1 DEF CancelCommand
      <4>2. PICK r \in D : c = RequestCommand(r, st.pending[r].attempt + 1)
        BY <3>2, <4>1 DEF Fresh, D
      <4>3. c.request = r
        BY <4>2 DEF RequestCommand
      <4> QED
        BY <3>2, <4>2, <4>3
    <3> QED
      BY <1>1, <3>1, <3>2
  <2>9. ASSUME NEW s \in Sessions, NEW c \in Range(outbound'[s]), c.request \in Pending(st)
        PROVE  /\ c.attempt <= state'.pending[c.request].attempt
               /\ s = link => c.request \in InFlightIn(state')
               /\ s # link /\ c.request \in InFlightIn(state') =>
                    c.attempt < state'.pending[c.request].attempt
    <3> DEFINE r == c.request
    <3>1. CASE c \in Range(outbound[s])
      <4>1. /\ c.attempt <= st.pending[r].attempt
            /\ s = link => r \in InFlightIn(st)
            /\ s # link /\ r \in InFlightIn(st) => c.attempt < st.pending[r].attempt
        BY <2>9, <3>1 DEF Told
      <4>2. c.attempt \in Nat /\ st.pending[r].attempt \in Nat
        BY <1>2, <1>4, <2>9, <3>1
      <4> HIDE DEF r
      <4>3. r \in Pending(st)
        BY <2>9 DEF r
      <4>4. CASE r \in D
        BY <2>3, <2>5, <4>1, <4>2, <4>4 DEF r
      <4>5. CASE r \notin D
        BY <2>3, <2>6, <4>1, <4>3, <4>5 DEF r
      <4> QED
        BY <4>4, <4>5
    <3>2. CASE s = link /\ r \in D /\ c = RequestCommand(r, st.pending[r].attempt + 1)
      <4>1. c.attempt = st.pending[r].attempt + 1
        BY <3>2 DEF RequestCommand
      <4> QED
        BY <1>4, <2>3, <2>5, <2>9, <3>2, <4>1
    <3> QED
      BY <2>8, <2>9, <3>1, <3>2
  <2>10. ASSUME NEW r \in InFlightIn(state')
         PROVE  /\ state'.pending[r].state.attempt = state'.pending[r].attempt
                /\ RequestCommand(r, state'.pending[r].attempt) \in Range(outbound'[link])
                /\ \A c \in Range(outbound'[link]) : c.request = r => c.type = "Request"
    <3>0. r \in Pending(st) /\ link \in Sessions
      <4>1. link \in Sessions \cup {None} /\ (link = None => InFlightIn(state') = {})
        BY <2>2, AgentSession, DisconnectedIdle DEF Consistent
      <4> QED
        BY <2>7, <4>1
    <3>1. CASE r \in D
      <4>1. /\ state'.pending[r].state.attempt = st.pending[r].attempt + 1
            /\ state'.pending[r].attempt = st.pending[r].attempt + 1
        <5>1. InFlight(link, st.pending[r].attempt + 1).attempt = st.pending[r].attempt + 1
          BY DEF InFlight
        <5> QED
          BY <2>3, <3>1, <5>1
      <4>2. link \in Sessions \ dropped
        BY <1>3, <1>5, <3>1
      <4>3. RequestCommand(r, st.pending[r].attempt + 1) \in Range(outbound'[link])
        BY <1>1, <3>1, <4>2 DEF Fresh, D
      <4>4. \A c \in Range(outbound[link]) : c.request # r
        BY <2>4, <3>0, <3>1 DEF Told
      <4>5. \A c \in Range(outbound'[link]) : c.request = r => c.type = "Request"
        BY <2>8, <3>0, <4>4 DEF RequestCommand
      <4> QED
        BY <4>1, <4>3, <4>5
    <3>2. CASE r \notin D
      <4>1. state'.pending[r] = st.pending[r] /\ r \in InFlightIn(st)
        BY <2>3, <2>6, <3>0, <3>2
      <4>2. /\ st.pending[r].state.attempt = st.pending[r].attempt
            /\ RequestCommand(r, st.pending[r].attempt) \in Range(outbound[link])
            /\ \A c \in Range(outbound[link]) : c.request = r => c.type = "Request"
        BY <4>1 DEF Told
      <4>3. Range(outbound[link]) \subseteq Range(outbound'[link])
        BY <1>1, <3>0
      <4>4. \A c \in Range(outbound'[link]) : c.request = r => c.type = "Request"
        BY <2>8, <3>0, <3>2, <4>2
      <4> QED
        BY <4>1, <4>2, <4>3, <4>4
    <3> QED
      BY <3>1, <3>2
  <2> QED
    BY <2>2, <2>9, <2>10 DEF Told
<1>6. CASE ~delivered
  <2> DEFINE lost == Disconnect(Dispatch(st), st.agent.session)
  <2>1. state' = Reconcile(lost) /\ outbound' = outbound
    BY <1>6 DEF Execute
  <2>2. /\ Consistent(Dispatch(st)) /\ Pending(Dispatch(st)) = Pending(st)
        /\ Dispatch(st).agent = st.agent
    BY DispatchConsistent
  <2>3. st.agent.session \in Sessions
    BY <1>6, DispatchNeedsSession
  <2>4. Consistent(lost) /\ Pending(lost) = Pending(st) /\ lost.agent.session = None
    BY <2>2, <2>3, DisconnectConsistent
  <2>5. \A r \in Pending(st) : lost.pending[r].attempt = Dispatch(st).pending[r].attempt
    BY <2>2, DisconnectAttempts
  <2>6. \A r \in Pending(st) : Dispatch(st).pending[r].attempt >= st.pending[r].attempt
    BY <1>4 DEF Dispatch
  <2> HIDE DEF lost
  <2>7. /\ Consistent(state') /\ Pending(state') = Pending(st) /\ state'.agent.session = None
    BY <2>1, <2>4, ReconcileConsistent
  <2>8. \A r \in Pending(st) : lost.pending[r].attempt \in Nat
    BY <2>4 DEF Consistent, IsBrokerState, Pending, PendingRequest
  <2>9. \A r \in Pending(st) : state'.pending[r].attempt >= lost.pending[r].attempt
    BY <2>1, <2>4, <2>8, ReconcilePending
  <2>10. \A r \in Pending(st) : state'.pending[r].attempt \in Nat
    BY <2>7 DEF Consistent, IsBrokerState, Pending, PendingRequest
  <2>11. \A r \in Pending(st) : state'.pending[r].attempt >= st.pending[r].attempt
    BY <1>4, <2>5, <2>6, <2>8, <2>9, <2>10
  <2>12. InFlightIn(state') = {} /\ state'.agent.session \notin Sessions
    BY <2>7, DisconnectedIdle, NoneIsNoSession
  <2>13. Told(state', outbound)
    BY <1>2, <2>7, <2>11, <2>12, ToldIdle
  <2> QED
    BY <2>1, <2>13
<1> QED
  BY <1>5, <1>6
(* The answer to r is the response of session s to attempt a, the last one *)
(* it was given.                                                           *)
LastAttempt(r, s, a) ==
  /\ RequestCommand(r, a) \in Range(outbound[s])
  /\ r \notin Withdrawn(s)
  /\ \A t \in Sessions : \A c \in Range(outbound[t]) : c.request = r /\ t # s => c.attempt < a

(* What the session link worked on, it still works on in st, or the event  *)
(* withdraws it or records its answer.                                     *)
Passed(st, link, cancel) ==
  link \in Sessions =>
    /\ link = remote \/ Range(outbound[link]) = {}
    /\ \A r \in InFlightIn(state) :
         \/ r \in Expired(state, overdue) \cup cancel
         \/ r \in InFlightIn(st)
         \/ answers'[r].result = "Ok" /\ answers'[r].session = link

(* What a step sends is about callers that wait, and what it dispatches is *)
(* not answered by the same step.                                          *)
LeftAlone ==
  \A s \in Sessions : \A c \in Range(outbound'[s]) \ Range(outbound[s]) :
    /\ answers[c.request] = NoAnswer
    /\ c.type = "Request" => answers'[c.request] = NoAnswer

(* The part that all handlers share: if the model after the event agrees   *)
(* with what was said so far, the commands of the event keep it so.        *)
LEMMA TraceStep ==
  ASSUME Inv, TraceInv, running, NEW st, Consistent(st), Told(st, outbound),
         NEW link, link = st.agent.session,
         NEW cancel, Execute(st, link, cancel),
         NEW waiting \in SUBSET Requests, NEW watching, NEW done, NEW result,
         Complete(waiting, watching, done, result),
         waiters \subseteq waiting, \A r \in waiting : answers[r] = NoAnswer,
         Pending(st) \subseteq waiting \ (Expired(state, overdue) \cup done),
         cancel \subseteq done,
         done # {} => result # NoAnswer,
         result.result = "Ok" => \A r \in done :
           /\ LastAttempt(r, result.session, result.attempt)
           /\ result.session \in Sessions
           /\ r \notin Expired(state, overdue) \cup cancel,
         accepted \subseteq accepted', link \in accepted' \cup {None},
         UNCHANGED <<running, dropped>>, Passed(st, link, cancel)
  PROVE  TraceInv' /\ (Reported => Reported') /\ LeftAlone
<1> DEFINE expired == Expired(state, overdue)
<1>1. /\ answers' = [r \in Requests |->
                       IF r \in waiting \cap expired THEN Failure("TimedOut")
                       ELSE IF r \in waiting \cap done THEN result
                       ELSE answers[r]]
      /\ waiters' = waiting \ (expired \cup done)
  BY DEF Complete
<1>2. \A r \in expired \cup cancel : r \notin Pending(st)
  OBVIOUS
<1>3. /\ \A s \in Sessions : s # link \/ s \in dropped => outbound'[s] = outbound[s]
      /\ link \in Sessions \ dropped =>
           \A c : c \in Range(outbound'[link])
                    <=> c \in Range(outbound[link]) \/ Fresh(st, link, cancel, c)
      /\ \A s \in Sessions : WellFormed(outbound'[s])
  BY SMTT(30), <1>2, ExecuteSends
<1>4. Told(state', outbound')
  BY <1>2, ExecuteTells
<1>5. Pending(state) \subseteq waiters /\ accepted \subseteq Sessions
  BY DEF Inv, PendingIsAwaited, EnvironmentType
<1>6. state'.agent.session \in {link, None}
  <2>1. remote' = state'.agent.session
    BY ExecuteSettles DEF Settled
  <2>2. remote' \in {link, None}
    BY DEF Execute
  <2> QED
    BY <2>1, <2>2
<1>7. ASSUME NEW c, Fresh(st, link, cancel, c)
      PROVE  \/ c.request \in (expired \cup cancel) \cap Pending(state)
             \/ c.request \in Pending(st)
  <2>1. ASSUME NEW r \in (expired \cup cancel) \cap InFlightFor(state, link),
               c = CancelCommand(r, state.pending[r].state.attempt)
        PROVE  c.request \in (expired \cup cancel) \cap Pending(state)
    BY <2>1 DEF CancelCommand, InFlightFor
  <2>2. ASSUME NEW r \in Range(Dispatched(st)), c = RequestCommand(r, st.pending[r].attempt + 1)
        PROVE  c.request \in Pending(st)
    BY <2>2, ReconcilePending DEF RequestCommand, QueuedIn
  <2> QED
    BY <1>7, <2>1, <2>2 DEF Fresh
<1>8. ASSUME NEW s \in Sessions, NEW c \in Range(outbound'[s])
      PROVE  \/ c \in Range(outbound[s])
             \/ /\ s = link
                /\ c.request \in Pending(st) \cup ((expired \cup cancel) \cap Pending(state))
  BY <1>3, <1>7
<1>9. \A s \in Sessions : Range(outbound[s]) \subseteq Range(outbound'[s])
  BY <1>3
<1>17. LeftAlone
  <2> SUFFICES ASSUME NEW s \in Sessions, NEW c \in Range(outbound'[s]), c \notin Range(outbound[s])
               PROVE  /\ answers[c.request] = NoAnswer
                      /\ c.type = "Request" => answers'[c.request] = NoAnswer
    BY DEF LeftAlone
  <2>1. c.request \in Pending(st) \cup Pending(state)
    BY <1>8
  <2>2. answers[c.request] = NoAnswer
    BY <1>5, <2>1
  <2>3. c.type = "Request" => c.request \in Pending(st)
    BY <1>3, ReconcilePending DEF Fresh, CancelCommand, RequestCommand, QueuedIn
  <2>4. c.request \in Pending(st) => answers'[c.request] = NoAnswer
    BY <1>1, <2>2
  <2> QED
    BY <2>2, <2>3, <2>4
<1> HIDE DEF expired
<1>10. ASSUME NEW r \in waiting
       PROVE  r \in waiters' \/ answers'[r] # NoAnswer
  <2>1. Failure("TimedOut") # NoAnswer
    BY DEF Failure, NoAnswer
  <2> QED
    BY <1>1, <2>1
<1>11. \A r \in Requests : answers[r] # NoAnswer => answers'[r] = answers[r]
  BY <1>1
<1>12. Addressed'
  <2>1. state'.agent.session \in accepted' \cup {None}
    BY <1>6
  <2>2. ASSUME NEW s \in Sessions, NEW c \in Range(outbound'[s])
        PROVE  s \in accepted' /\ (c.request \in waiters' \/ answers'[c.request] # NoAnswer)
    <3>1. CASE c \in Range(outbound[s])
      <4>1. s \in accepted /\ (c.request \in waiters \/ answers[c.request] # NoAnswer)
        BY <3>1 DEF TraceInv, Addressed
      <4>2. c.request \in Requests
        BY <3>1, CommandsTyped
      <4> QED
        BY <1>10, <1>11, <4>1, <4>2
    <3>2. CASE s = link /\ c.request \in Pending(st) \cup ((expired \cup cancel) \cap Pending(state))
      <4>1. c.request \in waiting
        BY <1>5, <3>2
      <4>2. s \in accepted'
        BY <3>2, NoneIsNoSession
      <4> QED
        BY <1>10, <4>1, <4>2
    <3> QED
      BY <1>8, <3>1, <3>2
  <2> QED
    BY <2>1, <2>2 DEF Addressed
<1>13. ASSUME NEW r \in Requests, NEW s \in Sessions, NEW a, LastAttempt(r, s, a),
              r \notin Pending(st) \cup ((expired \cup cancel) \cap Pending(state))
       PROVE  LastAttempt(r, s, a)'
  <2>1. \A t \in Sessions : \A c \in Range(outbound'[t]) : c.request = r => c \in Range(outbound[t])
    BY <1>8, <1>13
  <2>2. RequestCommand(r, a) \in Range(outbound'[s])
    BY <1>9, <1>13 DEF LastAttempt
  <2>3. r \notin Withdrawn(s)'
    BY <1>13, <2>1 DEF LastAttempt, Withdrawn
  <2>4. \A t \in Sessions : \A c \in Range(outbound'[t]) : c.request = r /\ t # s => c.attempt < a
    BY <1>13, <2>1 DEF LastAttempt
  <2> QED
    BY <2>2, <2>3, <2>4 DEF LastAttempt
<1>14. ASSUME NEW r \in Requests, answers'[r].result = "Ok"
       PROVE  LastAttempt(r, answers[r].session, answers[r].attempt)'
  <2>1. Failure("TimedOut").result # "Ok" /\ NoAnswer.result # "Ok"
    BY DEF Failure, NoAnswer
  <2>2. CASE r \in waiting \cap done /\ r \notin expired
    <3>1. answers'[r] = result
      BY <1>1, <2>2
    <3>2. /\ LastAttempt(r, result.session, result.attempt) /\ result.session \in Sessions
          /\ r \notin expired \cup cancel
      BY <1>14, <2>2, <3>1 DEF expired
    <3>3. r \notin Pending(st)
      BY <2>2
    <3>4. LastAttempt(r, result.session, result.attempt)'
      BY <1>13, <3>2, <3>3
    <3> QED
      BY <3>1, <3>4
  <2>3. CASE r \notin waiting
    <3>1. answers'[r] = answers[r]
      BY <1>1, <2>3
    <3>2. LastAttempt(r, answers[r].session, answers[r].attempt)
      BY <1>14, <3>1 DEF TraceInv, AnswerFromLastAttempt, LastAttempt
    <3>3. answers[r].session \in Sessions
      BY <1>14, <2>1, <3>1 DEF Inv, EnvironmentType, Answer, Failure, NoAnswer, RequestError
    <3>4. r \notin Pending(st) \cup ((expired \cup cancel) \cap Pending(state))
      BY <1>5, <2>3
    <3>5. LastAttempt(r, answers[r].session, answers[r].attempt)'
      BY <1>13, <3>1, <3>2, <3>3, <3>4
    <3> QED
      BY <3>5
  <2>4. CASE r \in waiting /\ r \notin done /\ r \notin expired
    BY <1>1, <1>14, <2>1, <2>4
  <2>5. CASE r \in waiting \cap expired
    BY <1>1, <1>14, <2>1, <2>5
  <2> QED
    BY <2>2, <2>3, <2>4, <2>5
<1>15. AnswerFromLastAttempt'
  BY <1>14 DEF AnswerFromLastAttempt, LastAttempt
<1>16. ASSUME Reported PROVE Reported'
  <2> SUFFICES ASSUME remote' \in Sessions \ dropped, NEW r \in Asked(remote)'
               PROVE  r \in InFlightIn(state') \/ r \in Withdrawn(remote)' \/ r \in AnsweredBy(remote)'
    BY DEF Reported
  <2>1. link = remote' /\ state' = Reconcile(st)
    BY NoneIsNoSession DEF Execute
  <2>2. PICK c \in Range(outbound'[link]) : c.type = "Request" /\ c.request = r
    BY <2>1 DEF Asked
  <2>3. link \in Sessions \ dropped
    BY <2>1
  <2>4. ASSUME NEW x \in InFlightIn(st) \cup Range(Dispatched(st)) PROVE x \in InFlightIn(state')
    <3>1. Pending(state') = Pending(st)
      BY <2>1, ReconcileConsistent
    <3>2. /\ Range(Dispatched(st)) \subseteq QueuedIn(st)
          /\ \A y \in Range(Dispatched(st)) : state'.pending[y].state = InFlight(link, st.pending[y].attempt + 1)
          /\ \A y \in Pending(st) \ Range(Dispatched(st)) : state'.pending[y] = st.pending[y]
      BY <2>1, ReconcilePending
    <3>3. \A n : InFlight(link, n).session = link
      BY DEF InFlight
    <3>4. Queued.session = None
      BY DEF Queued
    <3>5. x \in Pending(st)
      BY <2>4, <3>2 DEF InFlightIn, QueuedIn
    <3>6. CASE x \in Range(Dispatched(st))
      <4>1. state'.pending[x].state.session = link
        BY <3>2, <3>3, <3>6
      <4> QED
        BY <2>3, <3>1, <3>4, <3>5, <4>1, NoneIsNoSession DEF InFlightIn
    <3>7. CASE x \notin Range(Dispatched(st))
      BY <2>4, <3>1, <3>2, <3>5, <3>7 DEF InFlightIn
    <3> QED
      BY <3>6, <3>7
  <2>5. CASE Fresh(st, link, cancel, c)
    <3>1. PICK x \in Range(Dispatched(st)) : c = RequestCommand(x, st.pending[x].attempt + 1)
      BY <2>2, <2>5 DEF Fresh, CancelCommand
    <3>2. r = x
      BY <2>2, <3>1 DEF RequestCommand
    <3> QED
      BY <2>4, <3>2
  <2>6. CASE c \in Range(outbound[link])
    <3>1. link = remote /\ r \in Asked(link)
      BY <2>2, <2>3, <2>6 DEF Passed, Asked
    <3>2. r \in InFlightIn(state) \/ r \in Withdrawn(link) \/ r \in AnsweredBy(link)
      BY <1>16, <2>3, <3>1 DEF Reported
    <3>3. CASE r \in Withdrawn(link)
      <4>1. r \in Withdrawn(remote)'
        BY <1>9, <2>1, <2>3, <3>3 DEF Withdrawn
      <4> QED
        BY <4>1
    <3>4. CASE r \in AnsweredBy(link)
      <4>1. answers[r] # NoAnswer /\ r \in Requests
        BY <3>4 DEF AnsweredBy, NoAnswer
      <4>2. answers'[r] = answers[r]
        BY <1>11, <4>1
      <4>3. r \in AnsweredBy(remote)'
        BY <2>1, <3>4, <4>2 DEF AnsweredBy
      <4> QED
        BY <4>3
    <3>5. CASE r \in InFlightIn(state)
      <4>1. r \in InFlightFor(state, link) /\ r \in Requests
        BY <3>1, <3>5 DEF InFlightFor, InFlightIn, Inv, Consistent, OnActiveSession, IsBrokerState, Pending
      <4>2. CASE r \in expired \cup cancel
        <5> DEFINE d == CancelCommand(r, state.pending[r].state.attempt)
        <5>1. d \in Range(outbound'[link])
          BY <1>3, <2>3, <4>1, <4>2 DEF Fresh, expired
        <5>2. d.type = "Cancel" /\ d.request = r
          BY DEF CancelCommand
        <5>3. r \in Withdrawn(remote)'
          BY <2>1, <5>1, <5>2 DEF Withdrawn
        <5> QED
          BY <5>3
      <4>3. CASE r \in InFlightIn(st)
        BY <2>4, <4>3
      <4>4. CASE answers'[r].result = "Ok" /\ answers'[r].session = link
        BY <2>1, <4>1, <4>4 DEF AnsweredBy
      <4> QED
        BY <2>3, <3>5, <4>2, <4>3, <4>4 DEF Passed, expired
    <3> QED
      BY <3>2, <3>3, <3>4, <3>5
  <2> QED
    BY <1>3, <2>2, <2>3, <2>5, <2>6
<1> QED
  BY <1>3, <1>4, <1>12, <1>15, <1>16, <1>17 DEF TraceInv
(* The model after expiry agrees with what was said.                       *)
LEMMA ExpiredTold ==
  ASSUME Inv, TraceInv
  PROVE  /\ Told(Expire(state, overdue), outbound)
         /\ remote \in accepted \cup {None}
         /\ \A r \in InFlightIn(state) :
              r \in Expired(state, overdue) \/ r \in InFlightIn(Expire(state, overdue))
<1> DEFINE exp == Expire(state, overdue)
<1>1. Pending(exp) = Pending(state) \ Expired(state, overdue) /\ exp.agent = state.agent
  BY ExpiredState DEF Expire, Remove
<1>2. \A r \in Pending(exp) : exp.pending[r] = state.pending[r]
  BY <1>1 DEF Expire, Remove
<1> HIDE DEF exp
<1>3. Told(state, outbound) /\ remote \in accepted \cup {None}
  BY DEF TraceInv, Addressed, Inv
<1>4. \A r \in InFlightIn(state) : r \in Expired(state, overdue) \/ r \in InFlightIn(exp)
  BY <1>1, <1>2 DEF InFlightIn
<1> QED
  BY <1>1, <1>2, <1>3, <1>4, ToldSubset DEF exp

(* An event that completes nothing but expired requests.                   *)
LEMMA QuietTrace ==
  ASSUME Inv, TraceInv, running, NEW st, Consistent(st), Told(st, outbound),
         NEW link, link = st.agent.session, Execute(st, link, {}), CompleteExpired,
         Pending(st) = Pending(Expire(state, overdue)),
         accepted \subseteq accepted', link \in accepted' \cup {None},
         UNCHANGED <<running, dropped>>, Passed(st, link, {})
  PROVE  TraceInv' /\ (Reported => Reported') /\ LeftAlone
<1>1. /\ Pending(st) = Pending(state) \ Expired(state, overdue)
      /\ Pending(state) \subseteq waiters
      /\ waiters \in SUBSET Requests
      /\ \A r \in waiters : answers[r] = NoAnswer
  BY ExpiredState
<1> DEFINE done == {}
<1>2. Complete(waiters, cancellations, done, NoAnswer) /\ NoAnswer.result # "Ok" /\ done = {}
  BY DEF CompleteExpired, NoAnswer
<1>3. Pending(st) \subseteq waiters \ (Expired(state, overdue) \cup done)
  BY <1>1
<1> HIDE DEF done
<1> QED
  BY <1>1, <1>2, <1>3, TraceStep

(* A submission: nothing was ever said about the new request.              *)
LEMMA HandleLocalTrace ==
  ASSUME Inv, TraceInv, NEW r \in Requests, HandleLocal(r)
  PROVE  TraceInv' /\ (Reported => Reported') /\ LeftAlone
<1> DEFINE expired == Expired(state, overdue)
           exp == Expire(state, overdue)
           full == IsFull(exp)
           st == IF full THEN exp ELSE Submit(exp, r)
           done == IF full THEN {r} ELSE {}
           waiting == waiters \cup {r}
           watching == cancellations \cup {r}
<1>1. /\ running /\ r \notin waiters /\ answers[r] = NoAnswer
      /\ Execute(st, remote, {})
      /\ Complete(waiting, watching, done, Failure("QueueFull"))
      /\ UNCHANGED <<accepted, running, dropped>>
  BY DEF HandleLocal, Answered, environmentVars
<1>2. /\ Consistent(exp) /\ Pending(exp) = Pending(state) \ expired
      /\ exp.agent.session = remote
      /\ expired \subseteq Pending(state) /\ Pending(state) \subseteq waiters
      /\ waiters \in SUBSET Requests
      /\ \A x \in waiters : answers[x] = NoAnswer
  BY <1>1, ExpiredState
<1>3. /\ Told(exp, outbound) /\ remote \in accepted \cup {None}
      /\ \A x \in InFlightIn(state) : x \in expired \/ x \in InFlightIn(exp)
  BY ExpiredTold
<1>4. r \notin Pending(exp) /\ r \notin expired
  BY <1>1, <1>2
<1>5. \A s \in Sessions : \A c \in Range(outbound[s]) : c.request # r
  BY <1>1 DEF TraceInv, Addressed
<1> HIDE DEF exp, expired
<1>6. /\ Consistent(st) /\ st.agent.session = remote
      /\ Pending(st) = Pending(exp) \cup ({r} \ done)
      /\ Told(st, outbound)
      /\ InFlightIn(st) = InFlightIn(exp)
  <2>1. CASE full
    BY <1>2, <1>3, <2>1
  <2>2. CASE ~full
    <3> DEFINE new == Submit(exp, r)
    <3>1. /\ new.agent = exp.agent /\ new.pending[r].state = Queued
          /\ \A x \in Pending(exp) : new.pending[x] = exp.pending[x]
      BY <1>4 DEF Submit
    <3>2. Consistent(new) /\ Pending(new) = Pending(exp) \cup {r}
      BY <1>2, <1>4, <2>2, SubmitConsistent
    <3> HIDE DEF new
    <3>3. InFlightIn(new) = InFlightIn(exp)
      BY <1>4, <3>1, <3>2 DEF InFlightIn
    <3>4. \A x \in InFlightIn(exp) : x \in Pending(exp)
      BY DEF InFlightIn
    <3>5. Told(new, outbound)
      BY <1>3, <1>5, <3>1, <3>2, <3>3, <3>4 DEF Told
    <3> QED
      BY <1>2, <2>2, <3>1, <3>2, <3>3, <3>5 DEF new
  <2> QED
    BY <2>1, <2>2
<1>7. done \subseteq {r} /\ Failure("QueueFull") # NoAnswer /\ Failure("QueueFull").result # "Ok"
  BY DEF Failure, NoAnswer
<1> HIDE DEF st, done
<1>8. /\ Pending(st) \subseteq waiting \ (expired \cup done)
      /\ waiting \in SUBSET Requests /\ waiters \subseteq waiting
      /\ \A x \in waiting : answers[x] = NoAnswer
  BY <1>1, <1>2, <1>4, <1>6, <1>7
<1> HIDE DEF waiting, watching
<1>9. {} \subseteq done /\ accepted \subseteq accepted' /\ remote \in accepted' \cup {None}
  BY <1>1, <1>3
<1> DEFINE result == Failure("QueueFull")
           cancel == {}
<1>10. /\ done # {} => result # NoAnswer
       /\ result.result = "Ok" => \A x \in done :
            /\ LastAttempt(x, result.session, result.attempt)
            /\ result.session \in Sessions
            /\ x \notin Expired(state, overdue) \cup cancel
       /\ Complete(waiting, watching, done, result) /\ Execute(st, remote, cancel)
       /\ cancel \subseteq done
  BY <1>1, <1>7
<1> HIDE DEF result, cancel
<1>11. Passed(st, remote, cancel)
  BY <1>3, <1>6 DEF Passed, expired
<1> QED
  BY <1>1, <1>6, <1>8, <1>9, <1>10, <1>11, TraceStep DEF expired

(* A cancellation: the request in flight is withdrawn and forgotten.       *)
LEMMA HandleCancellationTrace ==
  ASSUME Inv, TraceInv, NEW r \in Requests, HandleCancellation(r)
  PROVE  TraceInv' /\ (Reported => Reported') /\ LeftAlone
<1> DEFINE expired == Expired(state, overdue)
           exp == Expire(state, overdue)
           done == Pending(exp) \cap {r}
           st == Remove(exp, done)
           watching == cancellations \ {r}
<1>1. /\ running
      /\ Execute(st, remote, done)
      /\ Complete(waiters, watching, done, Failure("Cancelled"))
      /\ UNCHANGED <<accepted, running, dropped>>
  BY DEF HandleCancellation, environmentVars
<1>2. /\ Consistent(exp) /\ Pending(exp) = Pending(state) \ expired
      /\ exp.agent.session = remote
      /\ Pending(state) \subseteq waiters
      /\ waiters \in SUBSET Requests
      /\ \A x \in waiters : answers[x] = NoAnswer
  BY <1>1, ExpiredState
<1>3. /\ Told(exp, outbound) /\ remote \in accepted \cup {None}
      /\ \A x \in InFlightIn(state) : x \in expired \/ x \in InFlightIn(exp)
  BY ExpiredTold
<1>4. done \in SUBSET Requests
  OBVIOUS
<1> HIDE DEF exp, expired, done
<1>5. /\ Consistent(st) /\ st.agent.session = remote
      /\ Pending(st) = Pending(exp) \ done
      /\ \A x \in Pending(exp) \ done : st.pending[x] = exp.pending[x]
  <2>1. Remove(exp, done).agent = exp.agent
    BY DEF Remove
  <2>2. \A x \in Pending(exp) \ done : st.pending[x] = exp.pending[x]
    BY DEF Remove
  <2> QED
    BY <1>2, <1>4, <2>1, <2>2, RemoveConsistent
<1> HIDE DEF st
<1>6. Told(st, outbound)
  BY <1>2, <1>3, <1>5, ToldSubset
<1>7. Failure("Cancelled") # NoAnswer /\ Failure("Cancelled").result # "Ok"
  BY DEF Failure, NoAnswer
<1>8. /\ Pending(st) \subseteq waiters \ (expired \cup done)
      /\ accepted \subseteq accepted' /\ remote \in accepted' \cup {None}
  BY <1>1, <1>2, <1>3, <1>5
<1> HIDE DEF watching
<1>9. Passed(st, remote, done)
  BY <1>3, <1>5 DEF Passed, expired, InFlightIn
<1> QED
  BY <1>1, <1>2, <1>5, <1>6, <1>7, <1>8, <1>9, TraceStep DEF expired

(* A response: the accepted one names the last attempt that was sent.      *)
LEMMA HandleResponseTrace ==
  ASSUME Inv, TraceInv, NEW s \in Sessions, NEW r \in Requests, NEW a \in 1..MaxAttempt,
         HandleResponse(s, r, a)
  PROVE  TraceInv' /\ (Reported => Reported') /\ LeftAlone
<1> DEFINE expired == Expired(state, overdue)
           exp == Expire(state, overdue)
           matches == Matches(exp, s, r, a)
           done == IF matches THEN {r} ELSE {}
           st == IF matches THEN Respond(exp, r) ELSE exp
<1>1. /\ running
      /\ Execute(st, remote, {})
      /\ Complete(waiters, cancellations, done, Success(s, a))
      /\ UNCHANGED <<accepted, running, dropped>>
  BY DEF HandleResponse, environmentVars
<1>2. /\ Consistent(exp) /\ Pending(exp) = Pending(state) \ expired
      /\ exp.agent.session = remote
      /\ Pending(state) \subseteq waiters
      /\ waiters \in SUBSET Requests
      /\ \A x \in waiters : answers[x] = NoAnswer
  BY <1>1, ExpiredState
<1>3. /\ Told(exp, outbound) /\ remote \in accepted \cup {None}
      /\ \A x \in InFlightIn(state) : x \in expired \/ x \in InFlightIn(exp)
  BY ExpiredTold
<1> HIDE DEF exp, expired
<1>4. ASSUME matches
      PROVE  r \in InFlightIn(exp) /\ LastAttempt(r, s, a) /\ r \notin expired /\ remote = s
  <2>1. r \in Pending(exp) /\ exp.pending[r].state = InFlight(s, a)
    BY <1>4 DEF Matches
  <2>2. InFlight(s, a) # Queued /\ InFlight(s, a).session = s /\ InFlight(s, a).attempt = a
    <3>1. InFlight(s, a).session = s /\ InFlight(s, a).attempt = a /\ Queued.session = None
      BY DEF InFlight, Queued
    <3> QED
      BY <3>1, NoneIsNoSession
  <2>3. r \in InFlightIn(exp)
    BY <2>1, <2>2 DEF InFlightIn
  <2>4. exp.agent.session = s
    BY <1>2, <2>1, <2>2, <2>3 DEF Consistent, OnActiveSession
  <2>5. /\ exp.pending[r].attempt = a
        /\ RequestCommand(r, a) \in Range(outbound[s])
        /\ \A c \in Range(outbound[s]) : c.request = r => c.type = "Request"
    BY <1>3, <2>1, <2>2, <2>3, <2>4 DEF Told
  <2>6. \A t \in Sessions : \A c \in Range(outbound[t]) : c.request = r /\ t # s => c.attempt < a
    BY <1>3, <2>1, <2>3, <2>4, <2>5 DEF Told
  <2>7. r \notin Withdrawn(s)
    BY <2>5 DEF Withdrawn
  <2> QED
    BY <1>2, <2>1, <2>3, <2>4, <2>5, <2>6, <2>7 DEF LastAttempt
<1>5. /\ Consistent(st) /\ st.agent.session = remote
      /\ Pending(st) = Pending(exp) \ done
      /\ Told(st, outbound)
      /\ \A x \in InFlightIn(exp) : x \in done \/ x \in InFlightIn(st)
  <2>1. CASE matches
    <3>1. Consistent(st) /\ st.agent.session = remote /\ Pending(st) = Pending(exp) \ {r}
      BY <1>2, <1>4, <2>1, RespondConsistent
    <3>2. \A x \in Pending(exp) \ {r} : st.pending[x] = exp.pending[x]
      BY <2>1 DEF Respond
    <3> HIDE DEF st
    <3>3. Told(st, outbound)
      BY <1>2, <1>3, <3>1, <3>2, ToldSubset
    <3>4. \A x \in InFlightIn(exp) : x = r \/ x \in InFlightIn(st)
      BY <3>1, <3>2 DEF InFlightIn
    <3> QED
      BY <2>1, <3>1, <3>3, <3>4
  <2>2. CASE ~matches
    BY <1>2, <1>3, <2>2
  <2> QED
    BY <2>1, <2>2
<1>6. \A x \in done : /\ LastAttempt(x, s, a) /\ x \notin expired /\ remote = s
                      /\ x \in Requests /\ x \in waiters
  BY <1>2, <1>4 DEF InFlightIn
<1> HIDE DEF st, done, matches
<1>7. /\ Success(s, a).session = s /\ Success(s, a).attempt = a /\ Success(s, a) # NoAnswer
  BY DEF Success, NoAnswer
<1> DEFINE result == Success(s, a)
<1>8. /\ result # NoAnswer
      /\ \A x \in done : /\ LastAttempt(x, result.session, result.attempt)
                         /\ result.session \in Sessions
                         /\ x \notin expired \cup {}
  BY <1>6, <1>7
<1> HIDE DEF result
<1>9. /\ Pending(st) \subseteq waiters \ (expired \cup done)
      /\ accepted \subseteq accepted' /\ remote \in accepted' \cup {None}
      /\ {} \subseteq done
  BY <1>1, <1>2, <1>3, <1>5
<1> DEFINE cancel == {}
<1>10. /\ done # {} => result # NoAnswer
       /\ result.result = "Ok" => \A x \in done :
            /\ LastAttempt(x, result.session, result.attempt)
            /\ result.session \in Sessions
            /\ x \notin Expired(state, overdue) \cup cancel
       /\ cancel \subseteq done
  BY <1>8 DEF expired
<1>11. Complete(waiters, cancellations, done, result) /\ Execute(st, remote, cancel)
  BY <1>1 DEF result
<1> HIDE DEF cancel
<1>12. \A x \in done : answers'[x].result = "Ok" /\ answers'[x].session = remote
  <2>1. \A x \in done : answers'[x] = result
    BY <1>6, <1>11 DEF Complete, expired
  <2>2. result.result = "Ok" /\ result.session = s
    BY DEF result, Success
  <2> QED
    BY <1>6, <2>1, <2>2
<1>13. Passed(st, remote, cancel)
  BY <1>3, <1>5, <1>12 DEF Passed, expired
<1> QED
  BY <1>1, <1>2, <1>5, <1>9, <1>10, <1>11, <1>13, TraceStep DEF expired
(* The timer.                                                              *)
LEMMA TickTrace ==
  ASSUME Inv, TraceInv, Tick
  PROVE  TraceInv' /\ (Reported => Reported') /\ LeftAlone
<1> DEFINE st == Expire(state, overdue)
<1>1. running /\ CompleteExpired /\ Execute(st, remote, {}) /\ UNCHANGED <<accepted, running, dropped>>
  BY DEF Tick, environmentVars
<1>2. Consistent(st) /\ remote = st.agent.session
  BY ExpiredState
<1>3. Told(st, outbound) /\ remote \in accepted \cup {None}
  BY ExpiredTold
<1>4. Pending(st) = Pending(Expire(state, overdue))
  OBVIOUS
<1>5. \A r \in InFlightIn(state) : r \in Expired(state, overdue) \/ r \in InFlightIn(st)
  BY ExpiredTold
<1> HIDE DEF st
<1>6. Passed(st, remote, {})
  BY <1>5 DEF Passed
<1> QED
  BY <1>1, <1>2, <1>3, <1>4, <1>6, QuietTrace

(* Messages about the readiness of a session.                              *)
LEMMA HandleAvailabilityTrace ==
  ASSUME Inv, TraceInv, NEW s \in Sessions, HandleReady(s) \/ HandleLocked(s)
  PROVE  TraceInv' /\ (Reported => Reported') /\ LeftAlone
<1> DEFINE exp == Expire(state, overdue)
<1>1. /\ running /\ CompleteExpired /\ UNCHANGED <<accepted, running, dropped>>
      /\ \/ Execute(SetReady(exp, s), remote, {})
         \/ Execute(SetLocked(exp, s), remote, {})
  BY DEF HandleReady, HandleLocked, environmentVars
<1>2. Consistent(exp) /\ exp.agent.session = remote
  BY ExpiredState
<1>3. /\ Told(exp, outbound) /\ remote \in accepted \cup {None}
      /\ \A r \in InFlightIn(state) : r \in Expired(state, overdue) \/ r \in InFlightIn(exp)
  BY ExpiredTold
<1>4. PICK st : /\ Execute(st, remote, {})
                /\ st \in {SetReady(exp, s), SetLocked(exp, s)}
  BY <1>1
<1> HIDE DEF exp
<1>5. /\ Consistent(SetReady(exp, s)) /\ Consistent(SetLocked(exp, s))
      /\ Pending(SetReady(exp, s)) = Pending(exp) /\ Pending(SetLocked(exp, s)) = Pending(exp)
      /\ SetReady(exp, s).agent.session = remote
      /\ SetLocked(exp, s).agent.session = remote
  BY <1>2, AvailabilityConsistent
<1>6. /\ SetReady(exp, s).pending = exp.pending
      /\ SetLocked(exp, s).pending = exp.pending
  BY DEF SetReady, SetLocked, WithAgent
<1>7. /\ Consistent(st) /\ remote = st.agent.session
      /\ Pending(st) = Pending(exp) /\ st.pending = exp.pending
  BY <1>2, <1>4, <1>5, <1>6
<1>8. Told(st, outbound)
  BY <1>2, <1>3, <1>7, ToldSubset
<1>9. accepted \subseteq accepted' /\ remote \in accepted' \cup {None}
  BY <1>1, <1>3
<1>10. Passed(st, remote, {})
  BY <1>3, <1>7 DEF Passed, InFlightIn
<1> QED
  BY <1>1, <1>4, <1>7, <1>8, <1>9, <1>10, QuietTrace DEF exp

(* A lost session leaves its requests without one.                         *)
LEMMA HandleDisconnectedTrace ==
  ASSUME Inv, TraceInv, NEW s \in Sessions, HandleDisconnected(s)
  PROVE  TraceInv' /\ (Reported => Reported') /\ LeftAlone
<1> DEFINE exp == Expire(state, overdue)
           link == IF remote = s THEN None ELSE remote
           st == Disconnect(exp, s)
<1>1. /\ running /\ Execute(st, link, {}) /\ CompleteExpired
      /\ UNCHANGED <<accepted, running, dropped>>
  BY DEF HandleDisconnected, environmentVars
<1>2. Consistent(exp) /\ exp.agent.session = remote
  BY ExpiredState
<1>3. /\ Told(exp, outbound) /\ remote \in accepted \cup {None}
      /\ \A r \in InFlightIn(state) : r \in Expired(state, overdue) \/ r \in InFlightIn(exp)
  BY ExpiredTold
<1> HIDE DEF exp
<1>4. Consistent(st) /\ st.agent.session = link /\ Pending(st) = Pending(exp)
  BY <1>2, DisconnectConsistent
<1>5. \A r \in Pending(exp) : st.pending[r].attempt = exp.pending[r].attempt
  BY <1>2, DisconnectAttempts
<1>6. \A r \in Pending(exp) : exp.pending[r].attempt \in Nat
  BY <1>2 DEF Consistent, IsBrokerState, Pending, PendingRequest
<1>7. Told(st, outbound)
  <2>1. CASE remote = s
    <3>1. InFlightIn(st) = {} /\ st.agent.session \notin Sessions
      BY <1>4, <2>1, DisconnectedIdle, NoneIsNoSession
    <3>2. \A r \in Pending(exp) : st.pending[r].attempt >= exp.pending[r].attempt
      BY <1>5, <1>6
    <3>3. \A t \in Sessions : \A c \in Range(outbound[t]) : c.attempt \in Nat
      BY CommandsTyped
    <3> HIDE DEF st
    <3> QED
      BY <1>2, <1>3, <1>4, <3>1, <3>2, <3>3, ToldIdle
  <2>2. CASE remote # s
    <3>1. st = exp
      BY <1>2, <2>2 DEF Disconnect
    <3> QED
      BY <1>3, <3>1
  <2> QED
    BY <2>1, <2>2
<1>8. accepted \subseteq accepted' /\ link \in accepted' \cup {None}
  BY <1>1, <1>3
<1>9. Passed(st, link, {})
  <2> SUFFICES ASSUME link \in Sessions PROVE link = remote /\ st = exp
    BY <1>3 DEF Passed
  <2>1. remote # s
    BY NoneIsNoSession
  <2> QED
    BY <1>2, <2>1 DEF Disconnect
<1> HIDE DEF st, link
<1> QED
  BY <1>1, <1>4, <1>7, <1>8, <1>9, QuietTrace DEF exp

(* A new session has been told nothing.                                    *)
LEMMA HandleConnectTrace ==
  ASSUME Inv, TraceInv, NEW s \in Sessions, HandleConnect(s)
  PROVE  TraceInv' /\ (Reported => Reported') /\ LeftAlone
<1> DEFINE exp == Expire(state, overdue)
           st == Connect(exp, s)
<1>1. /\ running /\ Execute(st, s, {}) /\ CompleteExpired
      /\ state.agent.session = None /\ s \notin accepted
      /\ accepted' = accepted \cup {s} /\ UNCHANGED <<running, dropped>>
  BY DEF HandleConnect
<1>2. Consistent(exp) /\ exp.agent.session = None
  BY <1>1, ExpiredState DEF Inv
<1>3. Told(exp, outbound)
  BY ExpiredTold
<1> HIDE DEF exp
<1>4. Consistent(st) /\ st.agent.session = s /\ Pending(st) = Pending(exp)
  BY <1>2, ConnectConsistent
<1>5. st.pending = exp.pending
  BY DEF Connect, WithAgent
<1>6. InFlightIn(st) = {}
  BY <1>2, <1>5, DisconnectedIdle DEF InFlightIn, Pending
<1>7. \A c \in Range(outbound[s]) : c.request \notin Pending(exp)
  BY <1>1 DEF TraceInv, Addressed
<1>8. \A r \in Pending(exp) : exp.pending[r].attempt \in Nat
  BY <1>2 DEF Consistent, IsBrokerState, Pending, PendingRequest
<1>9. \A t \in Sessions : \A c \in Range(outbound[t]) : c.attempt \in Nat
  BY CommandsTyped
<1> HIDE DEF st
<1>10. \A r \in Pending(exp) : st.pending[r].attempt >= exp.pending[r].attempt
  BY <1>5, <1>8
<1>11. Told(st, outbound)
  BY <1>2, <1>3, <1>4, <1>6, <1>7, <1>9, <1>10, ToldIdle
<1>12. accepted \subseteq accepted' /\ s \in accepted' \cup {None}
  BY <1>1
<1>13. Passed(st, s, {})
  <2>1. InFlightIn(state) = {}
    BY <1>1, DisconnectedIdle DEF Inv
  <2>2. Range(outbound[s]) = {}
    BY <1>1 DEF TraceInv, Addressed
  <2> QED
    BY <2>1, <2>2 DEF Passed
<1> QED
  BY <1>1, <1>4, <1>11, <1>12, <1>13, QuietTrace DEF exp

(* The steps that send nothing.                                            *)
LEMMA SilentTrace ==
  ASSUME Inv, TraceInv, RejectConnect \/ Stop \/ EnvironmentSteps \/ UNCHANGED vars
  PROVE  TraceInv'
<1>1. outbound' = outbound /\ accepted' = accepted
  BY DEF RejectConnect, Stop, EnvironmentSteps, CancelRequest, DropReceiver, DeadlinePasses,
     vars, actorVars, effectVars, environmentVars
<1>2. Told(state', outbound) /\ state'.agent.session = state.agent.session
  <2>1. CASE RejectConnect
    BY <2>1, ExpiredTold, ExpiredState DEF RejectConnect, Inv
  <2>2. CASE Stop \/ EnvironmentSteps \/ UNCHANGED vars
    BY <2>2 DEF Stop, EnvironmentSteps, CancelRequest, DropReceiver, DeadlinePasses,
       vars, actorVars, TraceInv
  <2> QED
    BY <2>1, <2>2
<1>3. /\ \A r \in Requests : answers[r] # NoAnswer => answers'[r] # NoAnswer
      /\ \A r \in Requests : r \in waiters => r \in waiters' \/ answers'[r] # NoAnswer
      /\ \A r \in Requests : answers'[r].result = "Ok" => answers'[r] = answers[r]
  <2>1. CASE Stop
    <3>1. answers' = [r \in Requests |-> IF r \in waiters THEN Failure("Unavailable") ELSE answers[r]]
      BY <2>1 DEF Stop
    <3>2. Failure("Unavailable") # NoAnswer /\ Failure("Unavailable").result # "Ok"
      BY DEF Failure, NoAnswer
    <3> QED
      BY <3>1, <3>2
  <2>2. CASE RejectConnect \/ EnvironmentSteps \/ UNCHANGED vars
    <3>1. answers' = answers /\ waiters' = waiters
      BY <2>2 DEF RejectConnect, EnvironmentSteps, CancelRequest, DropReceiver, DeadlinePasses,
         vars, actorVars, effectVars
    <3> QED
      BY <3>1
  <2> QED
    BY <2>1, <2>2
<1>4. Addressed'
  <2>1. ASSUME NEW s \in Sessions, NEW c \in Range(outbound[s])
        PROVE  s \in accepted' /\ (c.request \in waiters' \/ answers'[c.request] # NoAnswer)
    <3>1. s \in accepted /\ (c.request \in waiters \/ answers[c.request] # NoAnswer)
      BY DEF TraceInv, Addressed
    <3>2. c.request \in Requests
      BY CommandsTyped
    <3> QED
      BY <1>1, <1>3, <3>1, <3>2
  <2>2. state.agent.session \in accepted \cup {None}
    BY DEF TraceInv, Addressed
  <2> QED
    BY <1>1, <1>2, <2>1, <2>2 DEF Addressed
<1>5. AnswerFromLastAttempt'
  <2> SUFFICES ASSUME NEW r \in Requests, answers'[r].result = "Ok"
               PROVE  LastAttempt(r, answers[r].session, answers[r].attempt)'
    BY DEF AnswerFromLastAttempt, LastAttempt
  <2>1. answers'[r] = answers[r]
    BY <1>3
  <2>2. LastAttempt(r, answers[r].session, answers[r].attempt)
    BY <2>1 DEF TraceInv, AnswerFromLastAttempt, LastAttempt
  <2> QED
    BY <1>1, <2>1, <2>2 DEF LastAttempt, Withdrawn
<1> QED
  BY <1>1, <1>2, <1>4, <1>5 DEF TraceInv

(* Every step keeps the two accounts, the broker's and the sessions', in   *)
(* agreement.                                                              *)
LEMMA TraceInvariance == Spec => [](Inv /\ TraceInv)
<1>1. Init => Inv /\ TraceInv
  <2> SUFFICES ASSUME Init PROVE TraceInv
    BY InvInit
  <2>1. \A s \in Sessions : outbound[s] = <<>> /\ Range(outbound[s]) = {}
    BY DEF Init, Range
  <2>2. \A s \in Sessions : WellFormed(outbound[s])
    BY <2>1 DEF WellFormed
  <2>3. InFlightIn(state) = {} /\ state.agent.session = None
    BY DEF Init, NewState, InFlightIn, Pending, Disconnected
  <2>4. Addressed /\ Told(state, outbound)
    BY <2>1, <2>3 DEF Addressed, Told
  <2>5. AnswerFromLastAttempt
    BY DEF Init, NoAnswer, AnswerFromLastAttempt
  <2> QED
    BY <2>2, <2>4, <2>5 DEF TraceInv
<1>2. Inv /\ TraceInv /\ [Next]_vars => Inv' /\ TraceInv'
  <2> SUFFICES ASSUME Inv, TraceInv, [Next]_vars PROVE TraceInv'
    BY InvStep
  <2>1. ASSUME NEW r \in Requests, HandleLocal(r) \/ HandleCancellation(r) PROVE TraceInv'
    BY <2>1, HandleLocalTrace, HandleCancellationTrace
  <2>2. CASE Tick
    BY <2>2, TickTrace
  <2>3. ASSUME NEW s \in Sessions,
               \/ HandleConnect(s) \/ HandleReady(s) \/ HandleLocked(s) \/ HandleDisconnected(s)
        PROVE  TraceInv'
    BY <2>3, HandleConnectTrace, HandleAvailabilityTrace, HandleDisconnectedTrace
  <2>4. ASSUME NEW s \in Sessions, NEW r \in Requests, NEW a \in 1..MaxAttempt, HandleResponse(s, r, a)
        PROVE  TraceInv'
    BY <2>4, HandleResponseTrace
  <2>5. CASE RejectConnect \/ Stop \/ EnvironmentSteps \/ UNCHANGED vars
    BY <2>5, SilentTrace
  <2> QED
    BY <2>1, <2>2, <2>3, <2>4, <2>5 DEF Next, SingleClientNext, LocalSteps, RemoteSteps
<1> QED
  BY <1>1, <1>2, PTL DEF Spec

(* Once answered, a request is left alone, whatever sessions come and go:  *)
(* every command a step sends is about a caller that still waits.          *)
THEOREM AnsweredLeftAlone == Spec => AnsweredIsLeftAlone
<1>1. Inv /\ TraceInv /\ [Next]_vars => [LeftAlone]_vars
  <2> SUFFICES ASSUME Inv, TraceInv, [Next]_vars PROVE [LeftAlone]_vars
    OBVIOUS
  <2>1. ASSUME NEW r \in Requests, HandleLocal(r) \/ HandleCancellation(r) PROVE LeftAlone
    BY <2>1, HandleLocalTrace, HandleCancellationTrace
  <2>2. CASE Tick
    BY <2>2, TickTrace
  <2>3. ASSUME NEW s \in Sessions,
               \/ HandleConnect(s) \/ HandleReady(s) \/ HandleLocked(s) \/ HandleDisconnected(s)
        PROVE  LeftAlone
    BY <2>3, HandleConnectTrace, HandleAvailabilityTrace, HandleDisconnectedTrace
  <2>4. ASSUME NEW s \in Sessions, NEW r \in Requests, NEW a \in 1..MaxAttempt, HandleResponse(s, r, a)
        PROVE  LeftAlone
    BY <2>4, HandleResponseTrace
  <2>5. CASE RejectConnect \/ Stop \/ EnvironmentSteps \/ UNCHANGED vars
    <3>1. outbound' = outbound
      BY <2>5 DEF RejectConnect, Stop, EnvironmentSteps, CancelRequest, DropReceiver, DeadlinePasses,
         vars, actorVars, effectVars
    <3> QED
      BY <3>1 DEF LeftAlone
  <2> QED
    BY <2>1, <2>2, <2>3, <2>4, <2>5 DEF Next, SingleClientNext, LocalSteps, RemoteSteps
<1>2. [][LeftAlone]_vars => AnsweredIsLeftAlone
  BY DEF LeftAlone, AnsweredIsLeftAlone
<1> QED
  BY <1>1, <1>2, TraceInvariance, PTL DEF Spec

(* Over any number of reconnections, requeues, late cancellations and      *)
(* expiries, a session is sent each request at most once, and a withdrawal *)
(* only for the attempt it was sent, after it.                             *)
THEOREM CommandsAreWellFormed == Spec => []CommandsWellFormed
<1>1. TraceInv => CommandsWellFormed
  BY DEF TraceInv, WellFormed, CommandsWellFormed
<1> QED
  BY <1>1, TraceInvariance, PTL

(* The answer a caller gets from a session is the response to the last     *)
(* attempt that was sent to anybody, and that attempt was not withdrawn.   *)
THEOREM LastAttemptAnswers == Spec => []AnswerFromLastAttempt
<1>1. TraceInv => AnswerFromLastAttempt
  BY DEF TraceInv
<1> QED
  BY <1>1, TraceInvariance, PTL
(* Without refused connections, what a session was asked stays accounted   *)
(* for.                                                                    *)
LEMMA ReportedInvariance == SingleClientSpec => [](Inv /\ TraceInv /\ Reported)
<1>1. Init => Reported
  BY NoneIsNoSession DEF Init, Reported
<1>2. Inv /\ TraceInv /\ Reported /\ [SingleClientNext]_vars => Reported'
  <2> SUFFICES ASSUME Inv, TraceInv, Reported, [SingleClientNext]_vars PROVE Reported'
    OBVIOUS
  <2>1. ASSUME NEW r \in Requests, HandleLocal(r) \/ HandleCancellation(r) PROVE Reported'
    BY <2>1, HandleLocalTrace, HandleCancellationTrace
  <2>2. CASE Tick
    BY <2>2, TickTrace
  <2>3. ASSUME NEW s \in Sessions,
               \/ HandleConnect(s) \/ HandleReady(s) \/ HandleLocked(s) \/ HandleDisconnected(s)
        PROVE  Reported'
    BY <2>3, HandleConnectTrace, HandleAvailabilityTrace, HandleDisconnectedTrace
  <2>4. ASSUME NEW s \in Sessions, NEW r \in Requests, NEW a \in 1..MaxAttempt, HandleResponse(s, r, a)
        PROVE  Reported'
    BY <2>4, HandleResponseTrace
  <2>5. CASE Stop
    BY <2>5 DEF Stop, Reported
  <2>6. CASE EnvironmentSteps \/ UNCHANGED vars
    <3>1. UNCHANGED <<state, remote, running, answers, outbound>> /\ dropped \subseteq dropped'
      BY <2>6 DEF EnvironmentSteps, CancelRequest, DropReceiver, DeadlinePasses, vars, actorVars,
         effectVars, environmentVars
    <3> QED
      BY <3>1 DEF Reported, Asked, Withdrawn, AnsweredBy
  <2> QED
    BY <2>1, <2>2, <2>3, <2>4, <2>5, <2>6 DEF SingleClientNext, LocalSteps, RemoteSteps
<1>3. SingleClientSpec => Spec
  <2>1. [SingleClientNext]_vars => [Next]_vars
    BY DEF Next
  <2> QED
    BY <2>1, PTL DEF SingleClientSpec, Spec
<1> QED
  BY <1>1, <1>2, <1>3, TraceInvariance, PTL DEF SingleClientSpec

(* The worker behind the active session, which sees nothing but commands,  *)
(* and the broker agree on what is still wanted of it.                     *)
THEOREM WorkerAgrees == SingleClientSpec => []WorkerViewAgrees
<1>1. Inv /\ TraceInv /\ Reported => WorkerViewAgrees
  <2> SUFFICES ASSUME Inv, TraceInv, Reported, running, Connected, remote \notin dropped
               PROVE  (Asked(remote) \ Withdrawn(remote)) \ AnsweredBy(remote) = InFlightIn(state)
    BY DEF WorkerViewAgrees
  <2>1. remote = state.agent.session /\ remote \in Sessions
    BY AgentSession DEF Inv, Connected, Consistent
  <2>2. (Asked(remote) \ Withdrawn(remote)) \ AnsweredBy(remote) \subseteq InFlightIn(state)
    BY <2>1 DEF Reported
  <2>3. ASSUME NEW r \in InFlightIn(state)
        PROVE  r \in (Asked(remote) \ Withdrawn(remote)) \ AnsweredBy(remote)
    <3>1. /\ RequestCommand(r, state.pending[r].attempt) \in Range(outbound[remote])
          /\ \A c \in Range(outbound[remote]) : c.request = r => c.type = "Request"
      BY <2>1 DEF TraceInv, Told
    <3>2. r \in Asked(remote)
      BY <3>1 DEF Asked, RequestCommand
    <3>3. r \notin Withdrawn(remote)
      BY <3>1 DEF Withdrawn
    <3>4. answers[r] = NoAnswer
      BY DEF Inv, PendingIsAwaited, WaitersUnanswered, InFlightIn
    <3>5. r \notin AnsweredBy(remote)
      BY <3>4 DEF AnsweredBy, NoAnswer
    <3> QED
      BY <3>2, <3>3, <3>5
  <2> QED
    BY <2>2, <2>3
<1> QED
  BY <1>1, ReportedInvariance, PTL
-----------------------------------------------------------------------------
(* The broker implements the waiting line. *)

(* The waiting line sorts and filters as the model does.                   *)
LEMMA LineRetain == ASSUME NEW q, NEW T PROVE Line!Retain(q, T) = Retain(q, T)
BY Zenon DEF Line!Retain, Line!InOrder, Line!Rank, Line!Cardinality, Retain, InOrder, Rank, Cardinality

(* RequestLine's Range is that of the community module.                    *)
LEMMA LineRange == ASSUME NEW q PROVE Line!Range(q) = Range(q)
BY DEF Line!Range, Range

(* The callers with an answer, by kind.                                    *)
Served == {r \in Requests : answers[r].result = "Ok"}
Failed == {r \in Requests : answers[r].result \in RequestError}

(* Executing the effects of an event moves no request in the line.         *)
LEMMA ExecuteSequences ==
  ASSUME NEW st, Consistent(st), NEW link, NEW cancel, Execute(st, link, cancel)
  PROVE  \A r \in Pending(st) : state'.pending[r].sequence = st.pending[r].sequence
<1> DEFINE lost == Disconnect(Dispatch(st), st.agent.session)
<1>1. state' = Reconcile(st) \/ (state' = Reconcile(lost) /\ Dispatched(st) # <<>>)
  BY DEF Execute
<1>2. CASE state' = Reconcile(st)
  BY <1>2, SequencesKept
<1>3. CASE state' = Reconcile(lost) /\ Dispatched(st) # <<>>
  <2>1. Consistent(Dispatch(st)) /\ Pending(Dispatch(st)) = Pending(st) /\ Dispatch(st).agent = st.agent
    BY DispatchConsistent
  <2>2. st.agent.session \in Sessions
    BY <1>3, DispatchNeedsSession
  <2>3. Consistent(lost) /\ Pending(lost) = Pending(st)
    BY <2>1, <2>2, DisconnectConsistent
  <2>4. \A r \in Pending(st) : Dispatch(st).pending[r].sequence = st.pending[r].sequence
    BY SequencesKept
  <2>5. \A r \in Pending(st) : lost.pending[r].sequence = Dispatch(st).pending[r].sequence
    BY <2>1, SequencesKept
  <2> HIDE DEF lost
  <2>6. \A r \in Pending(st) : Reconcile(lost).pending[r].sequence = lost.pending[r].sequence
    BY <2>3, SequencesKept
  <2> QED
    BY <1>3, <2>4, <2>5, <2>6
<1> QED
  BY <1>1, <1>2, <1>3

(* The answers of one event.                                               *)
LEMMA CompleteCounts ==
  ASSUME EnvironmentType, NEW waiting \in SUBSET Requests, NEW watching, NEW done \in SUBSET waiting, NEW result,
         Complete(waiting, watching, done, result),
         \A r \in waiting : answers[r] = NoAnswer,
         Expired(state, overdue) \subseteq waiting,
         \A r \in done : r \notin Expired(state, overdue)
  PROVE  /\ Served' = Served \cup {r \in done : result.result = "Ok"}
         /\ Failed' = Failed \cup Expired(state, overdue) \cup {r \in done : result.result \in RequestError}
<1> DEFINE expired == Expired(state, overdue)
<1>1. answers' = [r \in Requests |->
                    IF r \in waiting \cap expired THEN Failure("TimedOut")
                    ELSE IF r \in waiting \cap done THEN result
                    ELSE answers[r]]
  BY DEF Complete
<1> HIDE DEF expired
<1>2. /\ \A r \in expired : answers'[r] = Failure("TimedOut") /\ r \in Requests
      /\ \A r \in done : answers'[r] = result /\ r \in Requests /\ answers[r] = NoAnswer
      /\ \A r \in Requests : r \notin expired \cup done => answers'[r] = answers[r]
  BY <1>1 DEF expired
<1>3. /\ Failure("TimedOut").result = "TimedOut" /\ NoAnswer.result = "None"
      /\ "TimedOut" \in RequestError /\ "None" \notin RequestError /\ "Ok" \notin RequestError
  BY DEF Failure, NoAnswer, RequestError
<1>4. \A r \in expired : answers[r] = NoAnswer
  BY DEF expired
<1>5. Served' = Served \cup {r \in done : result.result = "Ok"}
  BY <1>2, <1>3, <1>4 DEF Served
<1>6. Failed' = Failed \cup expired \cup {r \in done : result.result \in RequestError}
  BY <1>2, <1>3, <1>4 DEF Failed
<1> QED
  BY <1>5, <1>6 DEF expired

(* A consistent, busy model shows the line and what the remote holds of    *)
(* it.                                                                     *)
LEMMA MoveStep ==
  ASSUME running, running', Consistent(state'), Conserving(state'),
         NEW late, NEW gone, NEW new,
         LineOf(state') = Retain(LineOf(state), Requests \ (late \cup gone)) \o new
  PROVE  Line!Move(late, gone, new)
<1> DEFINE l == LineOf(state')
<1>1. Len(l) <= MaxPending
  BY LineSorted DEF Consistent, Limited
<1>2. InFlightIn(state') = IF Connected' THEN {l[i] : i \in {j \in DOMAIN l : j <= Capacity}} ELSE {}
  <2>1. CASE Connected'
    BY <2>1, LineFront DEF Connected, Conserving
  <2>2. CASE ~Connected'
    BY <2>2, DisconnectedIdle DEF Connected
  <2> QED
    BY <2>1, <2>2
<1>3. l = Line!Retain(LineOf(state), Requests \ (late \cup gone)) \o new
  BY LineRetain
<1>4. (IF running THEN BySequence(state, Pending(state)) ELSE <<>>) = LineOf(state)
  BY DEF LineOf
<1>5. (IF running THEN BySequence(state, Pending(state)) ELSE <<>>)' = l
  BY DEF LineOf
<1>6. (IF running THEN InFlightIn(state) ELSE {})' = InFlightIn(state')
  OBVIOUS
<1> HIDE DEF l
<1>7. (running /\ Connected)' = Connected'
  BY DEF Connected
<1> QED
  BY <1>1, <1>2, <1>3, <1>4, <1>5, <1>6, <1>7 DEF Line!Move, Line!Front

(* The requests of late and gone leave.                                    *)
LEMMA MoveRemoved ==
  ASSUME running, running', Consistent(state), Consistent(state'), Conserving(state'),
         NEW late, NEW gone, Pending(state') = Pending(state) \ (late \cup gone),
         \A r \in Pending(state') : state'.pending[r].sequence = state.pending[r].sequence
  PROVE  Line!Move(late, gone, <<>>)
<1> DEFINE G == late \cup gone
           q == Retain(LineOf(state), Requests \ G)
<1>1. LineOf(state') = q
  <2> HIDE DEF G
  <2>1. Pending(state') = Pending(state) \ G
    BY DEF G
  <2> QED
    BY <2>1, LineRemoved
<1>2. LineOf(state') \in Seq(Requests)
  BY LineSorted
<1>3. q = q \o <<>>
  <2>1. q \in Seq(Requests)
    BY <1>1, <1>2
  <2> HIDE DEF q
  <2> QED
    BY <2>1, ConcatEmptySeq
<1> QED
  BY <1>1, <1>3, MoveStep
(* The line holds the pending requests.                                    *)
LEMMA LineHolds ==
  ASSUME running, Consistent(state)
  PROVE  /\ Line!Range(IF running THEN BySequence(state, Pending(state)) ELSE <<>>) = Pending(state)
         /\ Pending(state) \subseteq Requests
<1>1. (IF running THEN BySequence(state, Pending(state)) ELSE <<>>) = LineOf(state)
  BY DEF LineOf
<1>2. Range(LineOf(state)) = Pending(state) /\ Pending(state) \subseteq Requests
  BY LineSorted DEF Consistent, IsBrokerState, Pending
<1> QED
  BY <1>1, <1>2, LineRange

(* A step of the line in which requests leave unserved.                    *)
LEMMA FailStep ==
  ASSUME running, Consistent(state), NEW late \in SUBSET Pending(state),
         Line!Move(late, {}, <<>>), Failed' = Failed \cup late, Served' = Served
  PROVE  Line!Next
<1>1. Line!Fail(late)
  BY DEF Line!Fail, Failed, Served
<1>2. (running /\ Connected)' \in BOOLEAN
  BY DEF Connected
<1> QED
  BY <1>1, <1>2, LineHolds DEF Line!Next

(* A step of the line about one request, while others expire.              *)
LEMMA RequestStep ==
  ASSUME running, Consistent(state), Expired(state, overdue) \in SUBSET Pending(state), NEW r \in Requests,
         \/ Line!Join(r, Expired(state, overdue))
         \/ Line!Refuse(r, Expired(state, overdue))
         \/ Line!Serve(r, Expired(state, overdue))
  PROVE  Line!Next
<1>1. (running /\ Connected)' \in BOOLEAN
  BY DEF Connected
<1>2. Expired(state, overdue) \in
        SUBSET Line!Range(IF running THEN BySequence(state, Pending(state)) ELSE <<>>)
  BY LineHolds
<1> QED
  BY <1>1, <1>2 DEF Line!Next, Line!Join, Line!Refuse, Line!Serve, Line!Move

(* An event that completes nothing but expired requests.                   *)
LEMMA QuietLine ==
  ASSUME Inv, running, running' = running,
         NEW st, Consistent(st), NEW link, st.agent.session = link, Execute(st, link, {}),
         Pending(st) = Pending(Expire(state, overdue)),
         \A r \in Pending(st) : st.pending[r].sequence = state.pending[r].sequence,
         CompleteExpired
  PROVE  Line!Next
<1> DEFINE late == Expired(state, overdue)
           gone == {}
<1>1. /\ Pending(st) = Pending(state) \ late
      /\ late \subseteq Pending(state) /\ Pending(state) \subseteq waiters
      /\ waiters \in SUBSET Requests
      /\ \A r \in waiters : answers[r] = NoAnswer
  BY ExpiredState
<1>2. Consistent(state) /\ EnvironmentType
  BY DEF Inv
<1>3. Consistent(state') /\ Pending(state') = Pending(st) /\ Conserving(state')
  BY ExecuteSettles DEF Settled
<1>4. \A r \in Pending(state') : state'.pending[r].sequence = state.pending[r].sequence
  BY <1>3, ExecuteSequences
<1>5. Line!Move(late, gone, <<>>)
  <2>1. Pending(state') = Pending(state) \ (late \cup gone)
    BY <1>1, <1>3
  <2> HIDE DEF late, gone
  <2> QED
    BY <1>2, <1>3, <1>4, <2>1, MoveRemoved
<1>6. Served' = Served /\ Failed' = Failed \cup late
  <2> DEFINE done == {}
  <2>1. Complete(waiters, cancellations, done, NoAnswer)
    BY DEF CompleteExpired
  <2>2. done \in SUBSET waiters /\ \A r \in done : r \notin Expired(state, overdue)
    OBVIOUS
  <2>3. Expired(state, overdue) \subseteq waiters
    BY <1>1
  <2>4. {r \in done : NoAnswer.result = "Ok"} = {} /\ {r \in done : NoAnswer.result \in RequestError} = {}
    OBVIOUS
  <2> HIDE DEF done
  <2>5. /\ Served' = Served \cup {r \in done : NoAnswer.result = "Ok"}
        /\ Failed' = Failed \cup Expired(state, overdue) \cup {r \in done : NoAnswer.result \in RequestError}
    BY <1>1, <1>2, <2>1, <2>2, <2>3, CompleteCounts
  <2> QED
    BY <2>4, <2>5
<1> HIDE DEF late
<1> QED
  BY <1>1, <1>2, <1>5, <1>6, FailStep

(* A submission joins at the end of the line, or is refused because it is  *)
(* full.                                                                   *)
LEMMA HandleLocalLine ==
  ASSUME Inv, NEW r \in Requests, HandleLocal(r)
  PROVE  Line!Next
<1> DEFINE late == Expired(state, overdue)
           gone == {}
           exp == Expire(state, overdue)
           full == IsFull(exp)
           st == IF full THEN exp ELSE Submit(exp, r)
           done == IF full THEN {r} ELSE {}
           waiting == waiters \cup {r}
           watching == cancellations \cup {r}
           result == Failure("QueueFull")
<1>1. /\ running /\ r \notin waiters /\ answers[r] = NoAnswer
      /\ Execute(st, remote, {})
      /\ Complete(waiting, watching, done, result)
      /\ running'
  BY DEF HandleLocal, Answered
<1>2. /\ Consistent(exp) /\ Pending(exp) = Pending(state) \ late
      /\ exp.agent.session = remote
      /\ late \subseteq Pending(state) /\ Pending(state) \subseteq waiters
      /\ waiters \in SUBSET Requests
      /\ \A x \in waiters : answers[x] = NoAnswer
  BY <1>1, ExpiredState
<1>3. r \notin Pending(exp) /\ r \notin late
  BY <1>1, <1>2
<1>4. Consistent(state) /\ EnvironmentType
  BY DEF Inv
<1>5. \A x \in Pending(exp) : exp.pending[x] = state.pending[x]
  BY <1>2 DEF Expire, Remove
<1>6. /\ Served' = Served
      /\ Failed' = Failed \cup late \cup done
  <2>1. waiting \in SUBSET Requests /\ (\A x \in waiting : answers[x] = NoAnswer) /\ late \subseteq waiting
    BY <1>1, <1>2
  <2>2. done \in SUBSET waiting /\ \A x \in done : x \notin late
    BY <1>3
  <2>3. result.result = "QueueFull" /\ result.result \in RequestError
    BY DEF Failure, RequestError
  <2> HIDE DEF waiting, watching, done, result
  <2>4. /\ Served' = Served \cup {x \in done : result.result = "Ok"}
        /\ Failed' = Failed \cup late \cup {x \in done : result.result \in RequestError}
    BY <1>1, <1>4, <2>1, <2>2, CompleteCounts
  <2> QED
    BY <2>3, <2>4
<1>7. r \notin Pending(state) \cup Served \cup Failed
  <2>1. r \notin Served \cup Failed
    BY <1>1 DEF Served, Failed, NoAnswer, RequestError
  <2> QED
    BY <1>1, <1>2, <2>1
<1> HIDE DEF exp, late
<1>9. CASE full
  <2>1. st = exp /\ done = {r}
    BY <1>9
  <2>2. Consistent(state') /\ Pending(state') = Pending(exp) /\ Conserving(state')
    BY <1>1, <1>2, <2>1, ExecuteSettles DEF Settled
  <2>3. \A x \in Pending(state') : state'.pending[x].sequence = state.pending[x].sequence
    BY <1>1, <1>2, <1>5, <2>1, <2>2, ExecuteSequences
  <2>4. Line!Move(late, gone, <<>>)
    <3>1. Pending(state') = Pending(state) \ (late \cup gone)
      BY <1>2, <2>2
    <3> HIDE DEF gone
    <3> QED
      BY <1>1, <1>4, <2>2, <2>3, <3>1, MoveRemoved
  <2>5. Len(LineOf(state')) = MaxPending
    <3>1. Len(LineOf(state')) = Cardinality(Pending(exp)) /\ Cardinality(Pending(exp)) <= MaxPending
      BY <2>2, LineSorted DEF Consistent, Limited
    <3>2. Cardinality(Pending(exp)) >= MaxPending
      BY <1>9 DEF IsFull
    <3>3. Cardinality(Pending(exp)) \in Nat /\ MaxPending \in Nat
      BY <1>2, PendingFinite, MaxPendingPositive DEF Consistent
    <3> QED
      BY <3>1, <3>2, <3>3
  <2>6. (IF running THEN BySequence(state, Pending(state)) ELSE <<>>)' = LineOf(state')
    BY <1>1 DEF LineOf
  <2>7. Line!Refuse(r, late)
    BY <1>1, <1>4, <1>6, <1>7, <2>1, <2>4, <2>5, <2>6, LineHolds DEF Line!Refuse, Served, Failed
  <2>8. running /\ Consistent(state) /\ late \in SUBSET Pending(state)
    BY <1>1, <1>2, <1>4
  <2> QED
    BY <2>7, <2>8, RequestStep DEF late
<1>10. CASE ~full
  <2> DEFINE new == Submit(exp, r)
  <2>1. st = new /\ done = {}
    BY <1>10
  <2>2. Consistent(new) /\ Pending(new) = Pending(exp) \cup {r}
    BY <1>2, <1>3, <1>10, SubmitConsistent
  <2>3. /\ new.agent = exp.agent
        /\ new.pending[r].sequence = exp.next_sequence
        /\ \A x \in Pending(exp) : new.pending[x] = exp.pending[x]
    BY <1>3 DEF Submit
  <2>4. \A x \in Pending(exp) : exp.pending[x].sequence < exp.next_sequence
    BY <1>2 DEF Consistent, SequencesDistinct
  <2> HIDE DEF new
  <2>5. Execute(new, remote, {}) /\ new.agent.session = remote
    BY <1>1, <1>2, <2>1, <2>3
  <2>6. Consistent(state') /\ Pending(state') = Pending(new) /\ Conserving(state')
    BY <2>2, <2>5, ExecuteSettles DEF Settled
  <2>7. \A x \in Pending(new) : state'.pending[x].sequence = new.pending[x].sequence
    BY <2>2, <2>5, ExecuteSequences
  <2>8. LineOf(state') = LineOf(exp) \o <<r>>
    <3>1. \A x \in Pending(exp) : /\ state'.pending[x].sequence = exp.pending[x].sequence
                                  /\ state'.pending[x].sequence < state'.pending[r].sequence
      BY <2>2, <2>3, <2>4, <2>7
    <3>2. Pending(state') = Pending(exp) \cup {r}
      BY <2>2, <2>6
    <3> QED
      BY <1>2, <1>3, <2>6, <3>1, <3>2, LineJoined
  <2>9. LineOf(exp) = Retain(LineOf(state), Requests \ late)
    BY <1>2, <1>4, <1>5, LineRemoved
  <2>10. Line!Move(late, gone, <<r>>)
    <3>1. late \cup gone = late
      OBVIOUS
    <3> HIDE DEF gone
    <3>2. LineOf(state') = Retain(LineOf(state), Requests \ (late \cup gone)) \o <<r>>
      BY <2>8, <2>9, <3>1
    <3> QED
      BY <1>1, <2>6, <3>2, MoveStep
  <2>11. Failed' = Failed \cup late
    BY <1>6, <2>1
  <2>12. Line!Join(r, late)
    BY <1>1, <1>4, <1>6, <1>7, <2>10, <2>11, LineHolds DEF Line!Join, Served, Failed
  <2>13. running /\ Consistent(state) /\ late \in SUBSET Pending(state)
    BY <1>1, <1>2, <1>4
  <2> QED
    BY <2>12, <2>13, RequestStep DEF late
<1> QED
  BY <1>9, <1>10
(* A cancelled request leaves the line.                                    *)
LEMMA HandleCancellationLine ==
  ASSUME Inv, NEW r \in Requests, HandleCancellation(r)
  PROVE  Line!Next
<1> DEFINE expired == Expired(state, overdue)
           exp == Expire(state, overdue)
           done == Pending(exp) \cap {r}
           late == expired \cup done
           gone == {}
           st == Remove(exp, done)
           watching == cancellations \ {r}
           result == Failure("Cancelled")
<1>1. /\ running /\ running'
      /\ Execute(st, remote, done)
      /\ Complete(waiters, watching, done, result)
  BY DEF HandleCancellation
<1>2. /\ Consistent(exp) /\ Pending(exp) = Pending(state) \ expired
      /\ exp.agent.session = remote
      /\ expired \subseteq Pending(state) /\ Pending(state) \subseteq waiters
      /\ waiters \in SUBSET Requests
      /\ \A x \in waiters : answers[x] = NoAnswer
  BY <1>1, ExpiredState
<1>3. Consistent(state) /\ EnvironmentType
  BY DEF Inv
<1>4. \A x \in Pending(exp) : exp.pending[x] = state.pending[x]
  BY <1>2 DEF Expire, Remove
<1>5. done \in SUBSET Requests /\ done \subseteq Pending(exp)
  OBVIOUS
<1> HIDE DEF exp, expired, done
<1>6. /\ Consistent(st) /\ st.agent.session = remote
      /\ Pending(st) = Pending(exp) \ done
      /\ \A x \in Pending(exp) \ done : st.pending[x] = exp.pending[x]
  <2>1. Remove(exp, done).agent = exp.agent
    BY DEF Remove
  <2>2. \A x \in Pending(exp) \ done : st.pending[x] = exp.pending[x]
    BY DEF Remove
  <2> QED
    BY <1>2, <1>5, <2>1, <2>2, RemoveConsistent
<1> HIDE DEF st
<1>7. Consistent(state') /\ Pending(state') = Pending(st) /\ Conserving(state')
  BY <1>1, <1>6, ExecuteSettles DEF Settled
<1>8. \A x \in Pending(state') : state'.pending[x].sequence = state.pending[x].sequence
  BY <1>1, <1>4, <1>6, <1>7, ExecuteSequences
<1>9. Line!Move(late, gone, <<>>)
  <2>1. Pending(state') = Pending(state) \ (late \cup gone)
    BY <1>2, <1>6, <1>7
  <2> HIDE DEF late, gone
  <2> QED
    BY <1>1, <1>3, <1>7, <1>8, <2>1, MoveRemoved
<1>10. Served' = Served /\ Failed' = Failed \cup late
  <2>1. result.result = "Cancelled" /\ result.result \in RequestError
    BY DEF Failure, RequestError
  <2>2. done \in SUBSET waiters /\ expired \subseteq waiters /\ \A x \in done : x \notin expired
    BY <1>2, <1>5
  <2> HIDE DEF watching, result
  <2>3. /\ Served' = Served \cup {x \in done : result.result = "Ok"}
        /\ Failed' = Failed \cup expired \cup {x \in done : result.result \in RequestError}
    BY <1>1, <1>2, <1>3, <2>2, CompleteCounts DEF expired
  <2> QED
    BY <2>1, <2>3
<1>11. late \in SUBSET Pending(state)
  BY <1>2, <1>5
<1> HIDE DEF late
<1> QED
  BY <1>1, <1>3, <1>9, <1>10, <1>11, FailStep

(* An accepted response serves a request that the remote holds; any other  *)
(* response serves nobody.                                                 *)
LEMMA HandleResponseLine ==
  ASSUME Inv, NEW s \in Sessions, NEW r \in Requests, NEW a \in 1..MaxAttempt,
         HandleResponse(s, r, a)
  PROVE  Line!Next
<1> DEFINE late == Expired(state, overdue)
           exp == Expire(state, overdue)
           matches == Matches(exp, s, r, a)
           done == IF matches THEN {r} ELSE {}
           st == IF matches THEN Respond(exp, r) ELSE exp
           result == Success(s, a)
<1>1. /\ running /\ running'
      /\ Execute(st, remote, {})
      /\ Complete(waiters, cancellations, done, result)
  BY DEF HandleResponse
<1>2. /\ Consistent(exp) /\ Pending(exp) = Pending(state) \ late
      /\ exp.agent.session = remote
      /\ late \subseteq Pending(state) /\ Pending(state) \subseteq waiters
      /\ waiters \in SUBSET Requests
      /\ \A x \in waiters : answers[x] = NoAnswer
  BY <1>1, ExpiredState
<1>3. Consistent(state) /\ EnvironmentType
  BY DEF Inv
<1>4. \A x \in Pending(exp) : exp.pending[x] = state.pending[x]
  BY <1>2 DEF Expire, Remove
<1> HIDE DEF exp, late
<1>5. ASSUME matches PROVE r \in InFlightIn(exp) /\ r \in InFlightIn(state) /\ r \notin late
  <2>1. r \in Pending(exp) /\ exp.pending[r].state = InFlight(s, a)
    BY <1>5 DEF Matches
  <2>2. InFlight(s, a) # Queued
    <3>1. InFlight(s, a).session = s /\ Queued.session = None
      BY DEF InFlight, Queued
    <3> QED
      BY <3>1, NoneIsNoSession
  <2> QED
    BY <1>2, <1>4, <2>1, <2>2 DEF InFlightIn
<1>6. /\ Consistent(st) /\ st.agent.session = remote
      /\ Pending(st) = Pending(exp) \ done
      /\ \A x \in Pending(st) : st.pending[x] = exp.pending[x]
  <2>1. CASE matches
    <3>1. Consistent(st) /\ st.agent.session = remote /\ Pending(st) = Pending(exp) \ {r}
      BY <1>2, <1>5, <2>1, RespondConsistent
    <3>2. \A x \in Pending(exp) \ {r} : st.pending[x] = exp.pending[x]
      BY <2>1 DEF Respond
    <3> QED
      BY <2>1, <3>1, <3>2
  <2>2. CASE ~matches
    BY <1>2, <2>2
  <2> QED
    BY <2>1, <2>2
<1>7. \A x \in done : x = r /\ r \in InFlightIn(state) /\ r \notin late /\ r \in waiters
  BY <1>2, <1>5 DEF InFlightIn
<1>8. done = {} \/ done = {r}
  OBVIOUS
<1> HIDE DEF st, done, matches
<1>9. Consistent(state') /\ Pending(state') = Pending(st) /\ Conserving(state')
  BY <1>1, <1>6, ExecuteSettles DEF Settled
<1>10. \A x \in Pending(state') : state'.pending[x].sequence = state.pending[x].sequence
  BY <1>1, <1>2, <1>4, <1>6, <1>9, ExecuteSequences
<1>11. Line!Move(late, done, <<>>)
  <2>1. Pending(state') = Pending(state) \ (late \cup done)
    BY <1>2, <1>6, <1>9
  <2> QED
    BY <1>1, <1>3, <1>9, <1>10, <2>1, MoveRemoved
<1>12. Served' = Served \cup done /\ Failed' = Failed \cup late
  <2>1. result.result = "Ok" /\ result.result \notin RequestError
    BY DEF Success, RequestError
  <2>2. done \in SUBSET waiters /\ late \subseteq waiters /\ \A x \in done : x \notin late
    BY <1>2, <1>7
  <2> HIDE DEF result
  <2>3. /\ Served' = Served \cup {x \in done : result.result = "Ok"}
        /\ Failed' = Failed \cup late \cup {x \in done : result.result \in RequestError}
    BY <1>1, <1>2, <1>3, <2>2, CompleteCounts DEF late
  <2> QED
    BY <2>1, <2>3
<1>13. CASE done = {r}
  <2>1. r \in (IF running THEN InFlightIn(state) ELSE {}) \ late
    BY <1>1, <1>7, <1>13
  <2>2. Line!Serve(r, late)
    BY <1>11, <1>12, <1>13, <2>1 DEF Line!Serve, Served, Failed
  <2>3. running /\ Consistent(state) /\ late \in SUBSET Pending(state)
    BY <1>1, <1>2, <1>3
  <2> QED
    BY <2>2, <2>3, RequestStep DEF late
<1>14. CASE done = {}
  BY <1>1, <1>2, <1>3, <1>11, <1>12, <1>14, FailStep
<1> QED
  BY <1>8, <1>13, <1>14

(* The timer, a connection, its readiness and its end: only expired        *)
(* requests leave.                                                         *)
LEMMA TickLine ==
  ASSUME Inv, Tick
  PROVE  Line!Next
<1> DEFINE st == Expire(state, overdue)
<1>1. running /\ running' = running /\ CompleteExpired /\ Execute(st, remote, {})
  BY DEF Tick
<1>2. Consistent(st) /\ st.agent.session = remote
      /\ Pending(st) = Pending(state) \ Expired(state, overdue)
  BY ExpiredState
<1>3. \A r \in Pending(st) : st.pending[r].sequence = state.pending[r].sequence
  BY <1>2 DEF Expire, Remove
<1> HIDE DEF st
<1> QED
  BY <1>1, <1>2, <1>3, QuietLine DEF st

(* A remote connects: the line is called, up to the capacity.              *)
LEMMA HandleConnectLine ==
  ASSUME Inv, NEW s \in Sessions, HandleConnect(s)
  PROVE  Line!Next
<1> DEFINE exp == Expire(state, overdue)
           st == Connect(exp, s)
<1>1. /\ running /\ running' = running /\ Execute(st, s, {}) /\ CompleteExpired
      /\ state.agent.session = None
  BY DEF HandleConnect
<1>2. Consistent(exp) /\ exp.agent.session = None
      /\ Pending(exp) = Pending(state) \ Expired(state, overdue)
  BY <1>1, ExpiredState DEF Inv
<1>3. \A r \in Pending(exp) : exp.pending[r].sequence = state.pending[r].sequence
  BY <1>2 DEF Expire, Remove
<1> HIDE DEF exp
<1>4. Consistent(st) /\ st.agent.session = s /\ Pending(st) = Pending(exp)
  BY <1>2, ConnectConsistent
<1>5. st.pending = exp.pending
  BY DEF Connect, WithAgent
<1> HIDE DEF st
<1> QED
  BY <1>1, <1>3, <1>4, <1>5, QuietLine DEF exp

(* Ready and Locked: nothing in the line moves but what is called.         *)
LEMMA HandleAvailabilityLine ==
  ASSUME Inv, NEW s \in Sessions, HandleReady(s) \/ HandleLocked(s)
  PROVE  Line!Next
<1> DEFINE exp == Expire(state, overdue)
<1>1. /\ running /\ running' = running /\ CompleteExpired
      /\ Execute(SetReady(exp, s), remote, {}) \/ Execute(SetLocked(exp, s), remote, {})
  BY DEF HandleReady, HandleLocked
<1>2. Consistent(exp) /\ exp.agent.session = remote
      /\ Pending(exp) = Pending(state) \ Expired(state, overdue)
  BY ExpiredState
<1>3. \A r \in Pending(exp) : exp.pending[r].sequence = state.pending[r].sequence
  BY <1>2 DEF Expire, Remove
<1>4. PICK st : Execute(st, remote, {}) /\ st \in {SetReady(exp, s), SetLocked(exp, s)}
  BY <1>1
<1> HIDE DEF exp
<1>5. /\ Consistent(SetReady(exp, s)) /\ Consistent(SetLocked(exp, s))
      /\ Pending(SetReady(exp, s)) = Pending(exp) /\ Pending(SetLocked(exp, s)) = Pending(exp)
      /\ SetReady(exp, s).agent.session = remote
      /\ SetLocked(exp, s).agent.session = remote
  BY <1>2, AvailabilityConsistent
<1>6. SetReady(exp, s).pending = exp.pending /\ SetLocked(exp, s).pending = exp.pending
  BY DEF SetReady, SetLocked, WithAgent
<1>7. /\ Consistent(st) /\ st.agent.session = remote
      /\ Pending(st) = Pending(exp) /\ st.pending = exp.pending
  BY <1>4, <1>5, <1>6
<1> QED
  BY <1>1, <1>3, <1>4, <1>7, QuietLine DEF exp

(* A remote leaves: what it was working on is back in the line.            *)
LEMMA HandleDisconnectedLine ==
  ASSUME Inv, NEW s \in Sessions, HandleDisconnected(s)
  PROVE  Line!Next
<1> DEFINE exp == Expire(state, overdue)
           link == IF remote = s THEN None ELSE remote
           st == Disconnect(exp, s)
<1>1. /\ running /\ running' = running /\ Execute(st, link, {}) /\ CompleteExpired
  BY DEF HandleDisconnected
<1>2. Consistent(exp) /\ exp.agent.session = remote
      /\ Pending(exp) = Pending(state) \ Expired(state, overdue)
  BY ExpiredState
<1>3. \A r \in Pending(exp) : exp.pending[r].sequence = state.pending[r].sequence
  BY <1>2 DEF Expire, Remove
<1> HIDE DEF exp
<1>4. Consistent(st) /\ st.agent.session = link /\ Pending(st) = Pending(exp)
  BY <1>2, DisconnectConsistent
<1>5. \A r \in Pending(exp) : st.pending[r].sequence = exp.pending[r].sequence
  BY <1>2, SequencesKept
<1> HIDE DEF st, link
<1> QED
  BY <1>1, <1>3, <1>4, <1>5, QuietLine DEF exp

(* A shutdown fails every caller and empties the line.                     *)
LEMMA StopLine ==
  ASSUME SingleClientInv, Stop
  PROVE  Line!Next
<1> DEFINE late == Pending(state)
           gone == {}
<1>1. /\ running /\ running' = FALSE
      /\ answers' = [x \in Requests |-> IF x \in waiters THEN Failure("Unavailable") ELSE answers[x]]
  BY DEF Stop
<1>2. Consistent(state) /\ waiters \subseteq Requests /\ waiters = Pending(state)
      /\ \A x \in waiters : answers[x] = NoAnswer
  BY <1>1 DEF SingleClientInv, Inv, PendingIsAwaited, AwaitedIsPending, EnvironmentType, WaitersUnanswered
<1>3. Served' = Served /\ Failed' = Failed \cup late
  <2>1. /\ Failure("Unavailable").result = "Unavailable" /\ NoAnswer.result = "None"
        /\ "Unavailable" \in RequestError /\ "None" \notin RequestError
    BY DEF Failure, NoAnswer, RequestError
  <2>2. \A x \in Requests : /\ x \in late => answers'[x] = Failure("Unavailable") /\ answers[x] = NoAnswer
                            /\ x \notin late => answers'[x] = answers[x]
    BY <1>1, <1>2
  <2>3. late \subseteq Requests
    BY <1>2
  <2> HIDE DEF late
  <2> QED
    BY <2>1, <2>2, <2>3 DEF Served, Failed
<1>4. Retain(LineOf(state), Requests \ (late \cup gone)) \o <<>> = <<>>
  <2> DEFINE T == Requests \ (late \cup gone)
             q == Retain(LineOf(state), T)
  <2>1. LineOf(state) \in Seq(Requests) /\ Range(LineOf(state)) = late
    BY <1>2, LineSorted
  <2>2. q \in Seq(Requests) /\ Range(q) = Range(LineOf(state)) \cap T
    <3> HIDE DEF T
    <3> QED
      BY <2>1, RetainFilters
  <2>3. Range(q) = {}
    BY <2>1, <2>2
  <2> HIDE DEF q
  <2>4. q = <<>>
    BY <2>2, <2>3 DEF Range
  <2> QED
    BY <2>4 DEF q
<1>5. Line!Move(late, gone, <<>>)
  <2>1. (IF running THEN BySequence(state, Pending(state)) ELSE <<>>) = LineOf(state)
    BY <1>1 DEF LineOf
  <2>2. (IF running THEN BySequence(state, Pending(state)) ELSE <<>>)' = <<>>
    BY <1>1
  <2>3. (IF running THEN InFlightIn(state) ELSE {})' = {} /\ ~((running /\ Connected)')
    BY <1>1
  <2>4. Line!Retain(LineOf(state), Requests \ (late \cup gone)) \o <<>> = <<>>
    BY <1>4, LineRetain
  <2>5. Len(<<>>) <= MaxPending
    BY MaxPendingPositive
  <2> HIDE DEF late, gone
  <2> QED
    BY <2>1, <2>2, <2>3, <2>4, <2>5 DEF Line!Move
<1> QED
  BY <1>1, <1>2, <1>3, <1>5, FailStep

(* Every step of the broker is a step of the waiting line or changes       *)
(* nothing of it.                                                          *)
LEMMA LineStep == SingleClientInv /\ [SingleClientNext]_vars => [Line!Next]_(Line!vars)
<1> SUFFICES ASSUME SingleClientInv, [SingleClientNext]_vars PROVE [Line!Next]_(Line!vars)
  OBVIOUS
<1>0. Inv
  BY DEF SingleClientInv
<1>1. ASSUME NEW r \in Requests, HandleLocal(r) \/ HandleCancellation(r) PROVE Line!Next
  BY <1>0, <1>1, HandleLocalLine, HandleCancellationLine
<1>2. CASE Tick
  BY <1>0, <1>2, TickLine
<1>3. ASSUME NEW s \in Sessions,
             \/ HandleConnect(s) \/ HandleReady(s) \/ HandleLocked(s) \/ HandleDisconnected(s)
      PROVE  Line!Next
  BY <1>0, <1>3, HandleConnectLine, HandleAvailabilityLine, HandleDisconnectedLine
<1>4. ASSUME NEW s \in Sessions, NEW r \in Requests, NEW a \in 1..MaxAttempt, HandleResponse(s, r, a)
      PROVE  Line!Next
  BY <1>0, <1>4, HandleResponseLine
<1>5. CASE Stop
  BY <1>5, StopLine
<1>6. CASE EnvironmentSteps \/ UNCHANGED vars
  <2>1. UNCHANGED <<state, running, answers>>
    BY <1>6 DEF EnvironmentSteps, CancelRequest, DropReceiver, DeadlinePasses, vars, actorVars, effectVars
  <2>2. Connected' = Connected
    BY <2>1 DEF Connected
  <2> QED
    BY <2>1, <2>2 DEF Line!vars
<1> QED
  BY <1>1, <1>2, <1>3, <1>4, <1>5, <1>6 DEF SingleClientNext, LocalSteps, RemoteSteps

(* With one remote client, for any number of requests, sessions and        *)
(* attempts and any limits, the broker implements the waiting line: the    *)
(* connected remote holds exactly the oldest Capacity requests, nobody     *)
(* overtakes, a request is refused only when the line is full, and it      *)
(* leaves the line exactly when its caller is answered.                    *)
THEOREM BrokerImplementsLine == SingleClientSpec => ImplementsLine
<1>1. Init => Line!Init
  <2> SUFFICES ASSUME Init PROVE Line!Init
    OBVIOUS
  <2>1. running /\ state = NewState /\ answers = [r \in Requests |-> NoAnswer]
    BY DEF Init
  <2>2. Consistent(state) /\ Pending(state) = {} /\ state.agent.session = None
    BY <2>1, NewStateConsistent DEF NewState, Disconnected
  <2>3. (IF running THEN BySequence(state, Pending(state)) ELSE <<>>) = <<>>
    <3>1. LineOf(state) \in Seq(Requests) /\ Range(LineOf(state)) = {}
      BY <2>2, LineSorted
    <3>2. LineOf(state) = <<>>
      BY <3>1 DEF Range
    <3> QED
      BY <2>1, <3>2 DEF LineOf
  <2>4. (IF running THEN InFlightIn(state) ELSE {}) = {}
    BY <2>2 DEF InFlightIn
  <2>5. (running /\ Connected) = FALSE
    BY <2>2 DEF Connected
  <2>6. /\ {r \in Requests : answers[r].result = "Ok"} = {}
        /\ {r \in Requests : answers[r].result \in RequestError} = {}
    BY <2>1 DEF NoAnswer, RequestError
  <2> QED
    BY <2>3, <2>4, <2>5, <2>6 DEF Line!Init
<1> QED
  BY <1>1, LineStep, SingleClientInvariance, PTL DEF SingleClientSpec, ImplementsLine, Line!Spec

-----------------------------------------------------------------------------
(* Waiting work is announced, and the latest announcement is published. *)

(* A set flag means that the latest WakeRequest covers the whole queue.    *)
Covered(st) == st.wake_announced => Range(st.queue) \subseteq announced

(* WaitingIsAnnounced is not inductive without the flag that stands for    *)
(* it: after a reconciliation it is set exactly when it should be.         *)
Flagged ==
  /\ Covered(state)
  /\ state.agent.session = None /\ state.queue # <<>> => state.wake_announced

(* What a step must show: the above, and that a new WakeRequest leaves the *)
(* flag set, so that Push sees it.                                         *)
Announcing == Flagged' /\ (announced' # announced => state'.wake_announced)

(* Nothing is dispatched while no session is bound.                        *)
LEMMA DispatchQueue ==
  ASSUME NEW st, Consistent(st)
  PROVE  /\ Range(Dispatch(st).queue) \subseteq Range(st.queue)
         /\ st.agent.session = None => Dispatch(st).queue = st.queue
<1> DEFINE m == Popped(st)
<1>1. st.queue \in Seq(Requests) /\ Len(st.queue) \in Nat
  BY DEF Consistent, IsBrokerState
<1>2. m \in 0..Len(st.queue) /\ (st.agent.session = None => m = 0)
  BY PoppedFillsRoom DEF Room
<1>3. Dispatch(st).queue = SubSeq(st.queue, m + 1, Len(st.queue))
  BY DEF Dispatch
<1> HIDE DEF m
<1>4. \A i \in DOMAIN Dispatch(st).queue :
        i + m \in DOMAIN st.queue /\ Dispatch(st).queue[i] = st.queue[i + m]
  BY <1>1, <1>2, <1>3
<1>5. Range(Dispatch(st).queue) \subseteq Range(st.queue)
  BY <1>4 DEF Range
<1>6. m = 0 => SubSeq(st.queue, m + 1, Len(st.queue)) = st.queue
  BY <1>1
<1> QED BY <1>2, <1>3, <1>5, <1>6

(* Executing the effects sends the wake request that the state calls for.  *)
LEMMA ExecuteAnnounces ==
  ASSUME NEW st, Consistent(st), NEW link, link = st.agent.session, NEW cancel,
         Covered(st), Execute(st, link, cancel)
  PROVE  Announcing
<1> DEFINE delivered == Dispatched(st) = <<>> \/ (link = st.agent.session /\ link \notin dropped)
           settled == IF delivered THEN st ELSE Disconnect(Dispatch(st), st.agent.session)
<1>1. /\ state' = Reconcile(settled)
      /\ announced' = IF WakeRequired(settled) THEN Range(settled.queue) ELSE announced
  BY DEF Execute
<1>2. Consistent(settled) /\ Covered(settled)
  <2>1. CASE delivered
    BY <2>1
  <2>2. CASE ~delivered
    <3>1. st.agent.session \in Sessions
      BY <2>2, DispatchNeedsSession
    <3>2. Consistent(Dispatch(st)) /\ Dispatch(st).agent = st.agent
      BY DispatchConsistent
    <3>3. Consistent(settled)
      BY <2>2, <3>1, <3>2, DisconnectConsistent
    <3>4. settled.wake_announced = FALSE
      BY <2>2, <3>2 DEF Disconnect, WithAgent
    <3> QED BY <3>3, <3>4 DEF Covered
  <2> QED BY <2>1, <2>2
<1> HIDE DEF settled
<1> DEFINE d == Dispatch(settled)
<1>3. /\ Range(d.queue) \subseteq Range(settled.queue)
      /\ settled.agent.session = None => d.queue = settled.queue
      /\ d.agent = settled.agent
  BY <1>2, DispatchQueue, DispatchConsistent
<1>4. /\ state'.queue = d.queue /\ state'.agent = settled.agent
      /\ state'.wake_announced = NeedsAgent(d)
  BY <1>1 DEF Reconcile, WithAgent
<1> HIDE DEF d
<1>5. NeedsAgent(d) <=> NeedsAgent(settled)
  <2>1. CASE settled.agent.session = None
    BY <1>3, <2>1 DEF NeedsAgent
  <2>2. CASE settled.agent.session # None
    BY <1>3, <2>2 DEF NeedsAgent
  <2> QED BY <2>1, <2>2
<1>6. announced' # announced => state'.wake_announced
  BY <1>1, <1>4, <1>5 DEF WakeRequired
<1>7. state'.wake_announced => Range(state'.queue) \subseteq announced'
  <2> SUFFICES ASSUME state'.wake_announced PROVE Range(state'.queue) \subseteq announced'
    OBVIOUS
  <2>1. NeedsAgent(settled)
    BY <1>4, <1>5
  <2>2. Range(state'.queue) \subseteq Range(settled.queue)
    BY <1>3, <1>4
  <2>3. CASE settled.wake_announced
    BY <1>1, <1>2, <2>2, <2>3 DEF WakeRequired, Covered
  <2>4. CASE ~settled.wake_announced
    BY <1>1, <2>1, <2>2, <2>4 DEF WakeRequired
  <2> QED BY <2>3, <2>4
<1>8. state'.agent.session = None /\ state'.queue # <<>> => state'.wake_announced
  BY <1>3, <1>4 DEF NeedsAgent
<1> QED BY <1>6, <1>7, <1>8 DEF Announcing, Flagged, Covered

(* Removing requests shortens the queue and leaves the flag.               *)
LEMMA RemoveCovered ==
  ASSUME NEW st, Consistent(st), Covered(st), NEW S
  PROVE  Covered(Remove(st, S)) /\ Remove(st, S).agent = st.agent
<1>1. /\ Remove(st, S).queue = Retain(st.queue, Requests \ S)
      /\ Remove(st, S).wake_announced = st.wake_announced
      /\ Remove(st, S).agent = st.agent
  BY DEF Remove
<1>2. st.queue \in Seq(Requests)
  BY DEF Consistent, IsBrokerState
<1>3. Range(Retain(st.queue, Requests \ S)) \subseteq Range(st.queue)
  BY <1>2, RetainFilters
<1> QED BY <1>1, <1>3 DEF Covered

(* Expiry leaves the latest wake request good enough.                      *)
LEMMA ExpiredCovered ==
  ASSUME Inv, Flagged
  PROVE  /\ Consistent(Expire(state, overdue)) /\ Covered(Expire(state, overdue))
         /\ Expire(state, overdue).agent.session = remote
         /\ accepted \subseteq Sessions
BY ExpiredState, RemoveCovered DEF Inv, Flagged, Expire

(* Every event announces.                                                  *)
LEMMA EventAnnounces ==
  ASSUME Inv, Flagged, LocalSteps \/ RemoteSteps
  PROVE  Announcing
<1> DEFINE exp == Expire(state, overdue)
<1>0. Consistent(exp) /\ Covered(exp) /\ exp.agent.session = remote
  BY ExpiredCovered
<1>1. ASSUME NEW r \in Requests, HandleLocal(r) PROVE Announcing
  <2>1. Execute(IF IsFull(exp) THEN exp ELSE Submit(exp, r), remote, {}) /\ r \notin waiters /\ running
    BY <1>1 DEF HandleLocal
  <2>2. r \notin Pending(exp)
    BY <2>1, ExpiredState
  <2> HIDE DEF exp
  <2>3. CASE IsFull(exp)
    BY <1>0, <2>1, <2>3, ExecuteAnnounces
  <2>4. CASE ~IsFull(exp)
    <3>1. Consistent(Submit(exp, r))
      BY <1>0, <2>2, <2>4, SubmitConsistent
    <3>2. Submit(exp, r).agent = exp.agent /\ Submit(exp, r).wake_announced = FALSE
      BY DEF Submit
    <3>3. Covered(Submit(exp, r))
      BY <3>2 DEF Covered
    <3> QED BY <1>0, <2>1, <2>4, <3>1, <3>2, <3>3, ExecuteAnnounces
  <2> QED BY <2>3, <2>4
<1>2. ASSUME NEW r \in Requests, HandleCancellation(r) PROVE Announcing
  <2> DEFINE done == Pending(exp) \cap {r}
  <2>1. Execute(Remove(exp, done), remote, done) /\ done \in SUBSET Requests
    BY <1>2 DEF HandleCancellation
  <2> HIDE DEF exp, done
  <2>2. Consistent(Remove(exp, done))
    BY <1>0, <2>1, RemoveConsistent
  <2> QED BY <1>0, <2>1, <2>2, RemoveCovered, ExecuteAnnounces
<1>3. CASE Tick
  <2>1. Execute(exp, remote, {})
    BY <1>3 DEF Tick
  <2> HIDE DEF exp
  <2> QED BY <1>0, <2>1, ExecuteAnnounces
<1>4. ASSUME NEW s \in Sessions, HandleConnect(s) PROVE Announcing
  <2>1. Execute(Connect(exp, s), s, {}) /\ remote = None
    BY <1>4 DEF HandleConnect, Inv
  <2> HIDE DEF exp
  <2>2. Consistent(Connect(exp, s)) /\ Connect(exp, s).agent.session = s
    BY <1>0, <2>1, ConnectConsistent
  <2>3. Covered(Connect(exp, s))
    BY DEF Connect, WithAgent, Covered
  <2> QED BY <2>1, <2>2, <2>3, ExecuteAnnounces
<1>5. ASSUME NEW s \in Sessions, HandleReady(s) \/ HandleLocked(s) PROVE Announcing
  <2>1. Execute(SetReady(exp, s), remote, {}) \/ Execute(SetLocked(exp, s), remote, {})
    BY <1>5 DEF HandleReady, HandleLocked
  <2> HIDE DEF exp
  <2>2. /\ Consistent(SetReady(exp, s)) /\ SetReady(exp, s).agent.session = remote
        /\ Consistent(SetLocked(exp, s)) /\ SetLocked(exp, s).agent.session = remote
    BY <1>0, AvailabilityConsistent
  <2>3. Covered(SetReady(exp, s)) /\ Covered(SetLocked(exp, s))
    BY <1>0 DEF SetReady, SetLocked, WithAgent, Covered
  <2> QED BY <2>1, <2>2, <2>3, ExecuteAnnounces
<1>6. ASSUME NEW s \in Sessions, HandleDisconnected(s) PROVE Announcing
  <2> DEFINE link == IF remote = s THEN None ELSE remote
  <2>1. Execute(Disconnect(exp, s), link, {})
    BY <1>6 DEF HandleDisconnected
  <2> HIDE DEF exp
  <2>2. Consistent(Disconnect(exp, s)) /\ Disconnect(exp, s).agent.session = link
    BY <1>0, DisconnectConsistent
  <2>3. Covered(Disconnect(exp, s))
    BY <1>0 DEF Disconnect, WithAgent, Covered
  <2> HIDE DEF link
  <2> QED BY <2>1, <2>2, <2>3, ExecuteAnnounces
<1>7. ASSUME NEW s \in Sessions, NEW r \in Requests, NEW a \in 1..MaxAttempt, HandleResponse(s, r, a)
      PROVE  Announcing
  <2>1. Execute(IF Matches(exp, s, r, a) THEN Respond(exp, r) ELSE exp, remote, {})
    BY <1>7 DEF HandleResponse
  <2> HIDE DEF exp
  <2>2. CASE ~Matches(exp, s, r, a)
    BY <1>0, <2>1, <2>2, ExecuteAnnounces
  <2>3. CASE Matches(exp, s, r, a)
    <3>1. r \in InFlightIn(exp)
      BY <2>3, NoneIsNoSession DEF Matches, InFlightIn, InFlight, Queued
    <3>2. Consistent(Respond(exp, r)) /\ Respond(exp, r).agent = exp.agent
      BY <1>0, <3>1, RespondConsistent
    <3>3. Covered(Respond(exp, r))
      BY <1>0 DEF Respond, Covered
    <3> QED BY <1>0, <2>1, <2>3, <3>2, <3>3, ExecuteAnnounces
  <2> QED BY <2>2, <2>3
<1> QED BY <1>1, <1>2, <1>3, <1>4, <1>5, <1>6, <1>7 DEF LocalSteps, RemoteSteps

(* Every step of the broker announces.                                     *)
LEMMA StepAnnounces ==
  ASSUME Inv, Flagged, [Next]_vars
  PROVE  Announcing
<1>1. CASE LocalSteps \/ RemoteSteps
  BY <1>1, EventAnnounces
<1>2. CASE Stop \/ EnvironmentSteps \/ UNCHANGED vars
  <2>1. UNCHANGED <<state, announced>>
    BY <1>2 DEF Stop, EnvironmentSteps, CancelRequest, DropReceiver, DeadlinePasses, vars, actorVars, effectVars
  <2> QED BY <2>1 DEF Announcing, Flagged, Covered
<1>3. CASE RejectConnect
  <2>1. /\ state' = Expire(state, overdue) /\ UNCHANGED announced
        /\ remote # None
    BY <1>3 DEF RejectConnect, effectVars, Inv
  <2> QED BY <2>1, ExpiredCovered DEF Announcing, Flagged, Covered
<1> QED BY <1>1, <1>2, <1>3 DEF Next, SingleClientNext

(* Nothing waits at the start.                                             *)
LEMMA InitFlagged == Init => Flagged
BY DEF Init, Flagged, Covered, NewState

(* For any requests, sessions and limits: while no remote is connected,    *)
(* the latest WakeRequired of the broker covers every queued request       *)
(* (BrokerState::reconcile), requeued ones included.                       *)
THEOREM AnnouncementSafe == Spec => []WaitingIsAnnounced
<1>1. Init => Flagged
  BY InitFlagged
<1>2. Inv /\ Flagged /\ [Next]_vars => Flagged'
  BY StepAnnounces DEF Announcing
<1>3. Flagged => WaitingIsAnnounced
  <2> SUFFICES ASSUME Flagged, state.agent.session = None
               PROVE  Range(state.queue) \subseteq announced
    BY DEF WaitingIsAnnounced, Connected
  <2>1. CASE state.queue = <<>>
    BY <2>1 DEF Range
  <2>2. CASE state.queue # <<>>
    BY <2>2 DEF Flagged, Covered
  <2> QED BY <2>1, <2>2
<1> QED BY <1>1, <1>2, <1>3, Invariance, PTL DEF Spec

-----------------------------------------------------------------------------
(* The push service. *)

(* The newest WakeRequest is the last one in the channel; if that is empty *)
(* the one in hand; and if there is none, the one published last.          *)
Newest ==
  IF wakes # <<>> THEN wakes[Len(wakes)] ELSE IF stage # "receiving" THEN request ELSE published

PushInv == Inv /\ Flagged /\ wakes \in Seq(SUBSET Requests) /\ Newest = announced

(* The push task only moves the newest wake request along.                 *)
LEMMA PushInductive ==
  ASSUME PushInv, [PushNext]_brokerPushVars
  PROVE  PushInv'
<1>1. CASE BrokerStep
  <2>1. Inv' /\ Announcing
    BY <1>1, InvStep, StepAnnounces DEF BrokerStep, Next, PushInv
  <2>2. announced' \in SUBSET Requests
    BY <2>1 DEF Inv, EnvironmentType
  <2>3. CASE Wakes
    <3>1. wakes' = Append(wakes, announced')
      BY <1>1, <2>3 DEF BrokerStep
    <3>2. wakes' \in Seq(SUBSET Requests) /\ wakes' # <<>> /\ wakes'[Len(wakes')] = announced'
      BY <2>2, <3>1 DEF PushInv
    <3> QED BY <2>1, <3>2 DEF PushInv, Newest, Announcing
  <2>4. CASE ~Wakes
    <3>1. UNCHANGED <<wakes, stage, request, published>>
      BY <1>1, <2>4 DEF BrokerStep
    <3>2. UNCHANGED announced
      BY <2>1, <2>4 DEF Wakes, Announcing
    <3> QED BY <2>1, <3>1, <3>2 DEF PushInv, Newest, Announcing
  <2> QED BY <2>3, <2>4
<1>2. ASSUME UNCHANGED vars, wakes' \in Seq(SUBSET Requests), Newest' = Newest PROVE PushInv'
  <2>1. Inv' /\ Flagged' /\ announced' = announced
    BY <1>2, InvStep, StepAnnounces DEF PushInv, Announcing, vars, actorVars, effectVars
  <2> QED BY <1>2, <2>1 DEF PushInv
<1>3. CASE Receive
  <2>1. wakes' \in Seq(SUBSET Requests) /\ Newest' = Newest
    BY <1>3 DEF Receive, PushInv, Newest
  <2> QED BY <1>2, <1>3, <2>1 DEF Receive
<1>4. CASE Drain
  <2>1. wakes' \in Seq(SUBSET Requests) /\ Newest' = Newest
    BY <1>4 DEF Drain, PushInv, Newest
  <2> QED BY <1>2, <1>4, <2>1 DEF Drain
<1>5. CASE Publish
  <2>1. wakes' \in Seq(SUBSET Requests) /\ Newest' = Newest
    BY <1>5 DEF Publish, PushInv, Newest
  <2> QED BY <1>2, <1>5, <2>1 DEF Publish
<1>6. CASE UNCHANGED brokerPushVars
  BY <1>2, <1>6 DEF brokerPushVars, pushVars, PushInv, Newest
<1> QED BY <1>1, <1>3, <1>4, <1>5, <1>6 DEF PushNext, PushStep

(* For any requests, sessions and limits and a channel of any length: when *)
(* the push task waits for the next wake request (PushService::serve), the *)
(* last one it published is the broker's latest.                           *)
THEOREM PublicationSafe == PushSpec => []LatestIsPublished
<1>1. PushInit => PushInv
  <2> SUFFICES ASSUME PushInit PROVE PushInv
    OBVIOUS
  <2>1. Inv /\ Flagged /\ announced = {}
    BY InvInit, InitFlagged DEF PushInit, Init
  <2> QED BY <2>1 DEF PushInit, PushInv, Newest
<1>2. PushInv => LatestIsPublished
  BY DEF PushInv, Newest, LatestIsPublished
<1> QED BY <1>1, <1>2, PushInductive, PTL DEF PushSpec
=============================================================================
