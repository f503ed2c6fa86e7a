-------------------------------- MODULE Push --------------------------------
(***************************************************************************)
(* The Web Push service, crates/server/src/push.rs, fed by the broker: one *)
(* task that takes wake requests from an unbounded channel, waits for more *)
(* of them, and publishes the latest to the browser's subscription.        *)
(*                                                                         *)
(* A wake request is the set of requests that waited when it was made; the *)
(* summary of their reasons, the encryption and the VAPID signature are    *)
(* computed from it and left out.  The push service answers, refuses or    *)
(* does not answer within DELIVERY_TIMEOUT.                                *)
(***************************************************************************)
EXTENDS Broker, Sequences

VARIABLES
  wakes,       \* the channel of WakeRequests
  stage,       \* where serve stands
  request,     \* the WakeRequest it works on
  published,   \* the last WakeRequest for which publish returned
  tried        \* requests that publish has covered since a remote was last connected

pushVars == <<wakes, stage, request, published, tried>>
brokerPushVars == <<vars, pushVars>>

PushInit ==
  /\ Init
  /\ wakes = <<>>
  /\ stage = "receiving"
  /\ request = {}
  /\ published = {}
  /\ tried = {}

(* The step of the broker executes WakeRequired: the flag is set, and it   *)
(* was not, or a submission has cleared it in this step.                   *)
Wakes ==
  /\ state'.wake_announced
  /\ ~state.wake_announced \/ announced' # announced

BrokerStep ==
  /\ SingleClientNext
  /\ wakes' = IF Wakes THEN Append(wakes, announced') ELSE wakes
  /\ tried' = IF state'.agent.session # None THEN {} ELSE tried
  /\ UNCHANGED <<stage, request, published>>

(* wakes.recv(), then a sleep of 200 ms.                                   *)
Receive ==
  /\ stage = "receiving"
  /\ wakes # <<>>
  /\ stage' = "sleeping"
  /\ request' = Head(wakes)
  /\ wakes' = Tail(wakes)
  /\ UNCHANGED <<vars, published, tried>>

(* Mutant: the requests of the burst are dropped for the first one. *)
Drain_KeepsFirst ==
  /\ stage = "sleeping"
  /\ stage' = "publishing"
  /\ wakes' = <<>>
  /\ UNCHANGED <<vars, request, published, tried>>

(* try_recv until the channel is empty: the latest summary counts.         *)
Drain ==
  /\ stage = "sleeping"
  /\ stage' = "publishing"
  /\ request' = IF wakes = <<>> THEN request ELSE wakes[Len(wakes)]
  /\ wakes' = <<>>
  /\ UNCHANGED <<vars, published, tried>>

(* publish returns: without a subscription at once, otherwise when the     *)
(* delivery was accepted, refused or timed out.  It is never repeated.     *)
Publish ==
  /\ stage = "publishing"
  /\ stage' = "receiving"
  /\ request' = {}
  /\ published' = request
  /\ tried' = IF Connected THEN {} ELSE tried \cup request
  /\ UNCHANGED <<vars, wakes>>

PushStep == Receive \/ Drain \/ Publish

PushNext == BrokerStep \/ PushStep

(* The task is polled again and again, the sleep and the delivery end: the *)
(* latter after DELIVERY_TIMEOUT at the latest.                            *)
PushSpec ==
  /\ PushInit
  /\ [][PushNext]_brokerPushVars
  /\ ActorFairness
  /\ WF_brokerPushVars(PushStep)

-----------------------------------------------------------------------------
(* Properties. *)

(* Coalescing loses nothing: once the service waits for the next wake      *)
(* request, the last one it published is the broker's latest, although     *)
(* others came while it slept or while a delivery was under way.           *)
LatestIsPublished == stage = "receiving" /\ wakes = <<>> => published = announced

(* A request that waits while no remote is connected is eventually covered *)
(* by a notification, unless it stops waiting or a remote connects.        *)
Waits(r) == running /\ ~Connected /\ r \in Range(state.queue)
WaitingIsTried == \A r \in Requests : Waits(r) ~> r \in tried \/ ~Waits(r)
=============================================================================
