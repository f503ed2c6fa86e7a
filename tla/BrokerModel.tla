---------------------------- MODULE BrokerModel ----------------------------
(***************************************************************************)
(* The pure request model of the broker, crates/server/src/broker/model.rs.*)
(*                                                                         *)
(* A BrokerState is a record; every operator maps a state to a state, as   *)
(* the methods of BrokerState update theirs.  Broker.tla turns them into   *)
(* the steps of the actor.                                                 *)
(*                                                                         *)
(* Packets, contexts and time stamps are copied through and never          *)
(* inspected, so a request is its identifier.  A deadline is an instant    *)
(* that is compared with the clock only: the operators take the set of     *)
(* requests whose deadline has been reached ("overdue") instead.           *)
(***************************************************************************)
EXTENDS Listing

CONSTANTS
  Requests,     \* request ids, one per local SSH-agent request (Uuid::new_v4)
  Sessions,     \* session ids, one per accepted remote connection
  None,         \* no session
  Capacity,     \* remote_capacity of the configuration
  MaxPending    \* max_pending_requests of the configuration

ASSUME RequestsFinite  == IsFiniteSet(Requests)
ASSUME NoneIsNoSession == None \notin Sessions
ASSUME CapacityPositive   == Capacity \in Nat \ {0}
ASSUME MaxPendingPositive == MaxPending \in Nat \ {0}

-----------------------------------------------------------------------------
(* The states of model.rs. *)

Queued         == [session |-> None, attempt |-> 0]
InFlight(s, a) == [session |-> s, attempt |-> a]

PendingState ==
  {Queued} \cup [session : Sessions, attempt : Nat \ {0}]

PendingRequest ==
  [sequence : Nat, attempt : Nat, state : PendingState]

Disconnected == [status |-> "Disconnected", session |-> None]
Locked(s)    == [status |-> "Locked", session |-> s]
Ready(s)     == [status |-> "Ready", session |-> s]

(* The capacity of a connected remote is the configured one.               *)
RemoteAgentState ==
  {Disconnected} \cup [status : {"Locked", "Ready"}, session : Sessions]

(* The fields of BrokerState.  pending is a HashMap: a function on the     *)
(* requests it holds.                                                      *)
IsBrokerState(st) ==
  /\ DOMAIN st = {"agent", "pending", "queue", "next_sequence", "wake_announced"}
  /\ st.agent \in RemoteAgentState
  /\ DOMAIN st.pending \subseteq Requests
  /\ st.pending \in [DOMAIN st.pending -> PendingRequest]
  /\ st.queue \in Seq(Requests)
  /\ st.next_sequence \in Nat
  /\ st.wake_announced \in BOOLEAN

NewState ==
  [agent          |-> Disconnected,
   pending        |-> [r \in {} |-> Queued],
   queue          |-> <<>>,
   next_sequence  |-> 0,
   wake_announced |-> FALSE]

-----------------------------------------------------------------------------
(* Helpers. *)

Pending(st) == DOMAIN st.pending

(* The two kinds of pending requests.                                      *)
QueuedIn(st)   == {r \in Pending(st) : st.pending[r].state = Queued}
InFlightIn(st) == {r \in Pending(st) : st.pending[r].state # Queued}

(* The requests dispatched on session s and neither answered nor removed.  *)
InFlightFor(st, s) == {r \in Pending(st) : st.pending[r].state.session = s}

(* Requests of S ordered by the sequence number given at admission.        *)
BySequence(st, S) == InOrder(S, [r \in S |-> st.pending[r].sequence])

(* Mutant: the queue keeps the entries of removed requests.                *)
Remove_LeavesQueued(st, S) ==
  [agent          |-> st.agent,
   pending        |-> [r \in Pending(st) \ S |-> st.pending[r]],
   queue          |-> st.queue,
   next_sequence  |-> st.next_sequence,
   wake_announced |-> st.wake_announced]

(* Mutant: a request in flight stays in the pending map.                   *)
Remove_KeepsInFlight(st, S) ==
  [agent          |-> st.agent,
   pending        |-> [r \in Pending(st) \ (S \cap QueuedIn(st)) |-> st.pending[r]],
   queue          |-> Retain(st.queue, Requests \ S),
   next_sequence  |-> st.next_sequence,
   wake_announced |-> st.wake_announced]

(* Take the requests of S out of the pending map and out of the queue.     *)
Remove(st, S) ==
  [agent          |-> st.agent,
   pending        |-> [r \in Pending(st) \ S |-> st.pending[r]],
   queue          |-> Retain(st.queue, Requests \ S),
   next_sequence  |-> st.next_sequence,
   wake_announced |-> st.wake_announced]

-----------------------------------------------------------------------------
(* Expiry, applied before every event. *)

(* Mutant: only work in flight expires.                                    *)
Expired_InFlightOnly(st, overdue) == InFlightIn(st) \cap overdue

Expired(st, overdue) == Pending(st) \cap overdue

Expire(st, overdue) == Remove(st, Expired(st, overdue))

-----------------------------------------------------------------------------
(* The facts an event changes.  Each is applied to an expired state. *)

IsFull(st) == Cardinality(Pending(st)) >= MaxPending

(* Mutant: the announcement flag survives a submission.                    *)
Submit_KeepsAnnounced(st, r) ==
  LET admitted == [sequence |-> st.next_sequence, attempt |-> 0, state |-> Queued]
  IN  [agent          |-> st.agent,
       pending        |-> [x \in Pending(st) \cup {r} |->
                             IF x = r THEN admitted ELSE st.pending[x]],
       queue          |-> Append(st.queue, r),
       next_sequence  |-> st.next_sequence + 1,
       wake_announced |-> st.wake_announced]

Submit(st, r) ==
  LET admitted == [sequence |-> st.next_sequence, attempt |-> 0, state |-> Queued]
  IN  [agent          |-> st.agent,
       pending        |-> [x \in Pending(st) \cup {r} |->
                             IF x = r THEN admitted ELSE st.pending[x]],
       queue          |-> Append(st.queue, r),
       next_sequence  |-> st.next_sequence + 1,
       wake_announced |-> FALSE]

(* Replace the availability facts and the announcement flag.               *)
WithAgent(st, agent, wake) ==
  [agent          |-> agent,
   pending        |-> st.pending,
   queue          |-> st.queue,
   next_sequence  |-> st.next_sequence,
   wake_announced |-> wake]

Connect(st, s) == WithAgent(st, Locked(s), FALSE)

(* Readiness and locking of a session that is not the active one are       *)
(* ignored.                                                                *)
SetReady(st, s) ==
  IF st.agent.session = s THEN WithAgent(st, Ready(s), st.wake_announced) ELSE st

SetLocked(st, s) ==
  IF st.agent.session = s THEN WithAgent(st, Locked(s), st.wake_announced) ELSE st

(* Mutant: unfinished work returns to the back of the queue.               *)
RequeueSession_AtBack(st, s) ==
  LET back == InFlightFor(st, s)
      requeued(p) == [sequence |-> p.sequence, attempt |-> p.attempt, state |-> Queued]
  IN  [agent          |-> st.agent,
       pending        |-> [r \in Pending(st) |->
                             IF r \in back THEN requeued(st.pending[r]) ELSE st.pending[r]],
       queue          |-> st.queue \o BySequence(st, back),
       next_sequence  |-> st.next_sequence,
       wake_announced |-> st.wake_announced]

(* Unfinished work of the session returns to the front of the queue.       *)
RequeueSession(st, s) ==
  LET back == InFlightFor(st, s)
      requeued(p) == [sequence |-> p.sequence, attempt |-> p.attempt, state |-> Queued]
  IN  [agent          |-> st.agent,
       pending        |-> [r \in Pending(st) |->
                             IF r \in back THEN requeued(st.pending[r]) ELSE st.pending[r]],
       queue          |-> BySequence(st, back) \o st.queue,
       next_sequence  |-> st.next_sequence,
       wake_announced |-> st.wake_announced]

(* Mutant: the session goes away and its work is not requeued.             *)
Disconnect_Abandons(st, s) ==
  IF st.agent.session = s THEN WithAgent(st, Disconnected, FALSE) ELSE st

Disconnect(st, s) ==
  IF st.agent.session = s
  THEN WithAgent(RequeueSession(st, s), Disconnected, FALSE)
  ELSE st

(* Mutant: the attempt is not compared.                                    *)
Matches_AnyAttempt(st, s, r, a) == r \in Pending(st) /\ st.pending[r].state.session = s

(* A response counts only for the attempt that is in flight.               *)
Matches(st, s, r, a) == r \in Pending(st) /\ st.pending[r].state = InFlight(s, a)

(* The request leaves the pending map; the queue is not searched for it.   *)
Respond(st, r) ==
  [agent          |-> st.agent,
   pending        |-> [x \in Pending(st) \ {r} |-> st.pending[x]],
   queue          |-> st.queue,
   next_sequence  |-> st.next_sequence,
   wake_announced |-> st.wake_announced]

-----------------------------------------------------------------------------
(* Reconciliation, applied after every event. *)

(* Mutant: queued requests use up the capacity, too.                       *)
Room_CountsQueued(st) ==
  IF st.agent.session = None THEN 0 ELSE Capacity - Cardinality(Pending(st))

(* How many requests the connected remote may still be given.              *)
Room(st) ==
  IF st.agent.session = None
  THEN 0
  ELSE Capacity - Cardinality(InFlightFor(st, st.agent.session))

(* How many entries the dispatch loop pops: it stops once the pending ones *)
(* among them fill the room (an entry that is not pending is skipped), or  *)
(* at the end of the queue.                                                *)
Popped(st) ==
  LET live(m) == Cardinality({i \in 1..m : st.queue[i] \in Pending(st)})
  IN  CHOOSE m \in 0..Len(st.queue) :
        /\ m = Len(st.queue) \/ live(m) >= Room(st)
        /\ \A k \in 0..(m - 1) : live(k) < Room(st)

(* The requests dispatched, in the order they are sent.                    *)
Dispatched(st) == Retain(SubSeq(st.queue, 1, Popped(st)), Pending(st))

Dispatch(st) ==
  LET sent == Range(Dispatched(st))
      given(p) == [sequence |-> p.sequence,
                   attempt  |-> p.attempt + 1,
                   state    |-> InFlight(st.agent.session, p.attempt + 1)]
  IN  [agent          |-> st.agent,
       pending        |-> [r \in Pending(st) |->
                             IF r \in sent THEN given(st.pending[r]) ELSE st.pending[r]],
       queue          |-> SubSeq(st.queue, Popped(st) + 1, Len(st.queue)),
       next_sequence  |-> st.next_sequence,
       wake_announced |-> st.wake_announced]

(* An offline remote with work waiting is announced once per change.       *)
NeedsAgent(st)   == st.queue # <<>> /\ st.agent.session = None
WakeRequired(st) == NeedsAgent(st) /\ ~st.wake_announced

Reconcile(st) == WithAgent(Dispatch(st), st.agent, NeedsAgent(Dispatch(st)))

-----------------------------------------------------------------------------
(* What every operator above preserves. *)

(* Sequence numbers are given once, in increasing order.                   *)
SequencesDistinct(st) ==
  \A r \in Pending(st) :
    /\ st.pending[r].sequence < st.next_sequence
    /\ \A q \in Pending(st) : st.pending[r].sequence = st.pending[q].sequence => r = q

(* The queue lists the pending requests that are not in flight by sequence *)
(* number, and all of them come after the requests in flight.              *)
Ordered(st) ==
  /\ Range(st.queue) = QueuedIn(st)
  /\ \A i, j \in DOMAIN st.queue :
       i < j => st.pending[st.queue[i]].sequence < st.pending[st.queue[j]].sequence
  /\ \A r \in InFlightIn(st), q \in QueuedIn(st) :
       st.pending[r].sequence < st.pending[q].sequence

(* Work in flight belongs to the active session.                           *)
OnActiveSession(st) ==
  \A r \in InFlightIn(st) : st.pending[r].state.session = st.agent.session

Limited(st) ==
  /\ Cardinality(InFlightIn(st)) <= Capacity
  /\ Cardinality(Pending(st)) <= MaxPending

Consistent(st) ==
  /\ IsBrokerState(st)
  /\ SequencesDistinct(st)
  /\ Ordered(st)
  /\ OnActiveSession(st)
  /\ Limited(st)
=============================================================================
