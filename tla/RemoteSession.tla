--------------------------- MODULE RemoteSession ---------------------------
(***************************************************************************)
(* The server's end of the browser's WebSocket,                            *)
(* crates/server/src/remote/session.rs, composed with the pairing service. *)
(*                                                                         *)
(* Each connection is a task: it subscribes to revocations, pairs or       *)
(* authenticates, asks the broker for its only session, answers the        *)
(* handshake and then serves until the socket, the heart beat, a           *)
(* revocation or a failed update ends it.  Every await is a step boundary. *)
(*                                                                         *)
(* Of the broker, only the slot of the active session is kept (module      *)
(* Broker models the rest): readiness, commands and responses pass through *)
(* a serving task without changing its state.                              *)
(***************************************************************************)
EXTENDS Pairing

CONSTANT Sessions   \* connections; a name is used again after it is closed

ASSUME NoneIsNoSession == None \notin Sessions

VARIABLES
  phase,     \* where each task stands
  as,        \* the client id each task was authorized as
  seen,      \* the revocation generation each task subscribed at
  awaiting,  \* awaiting_pong of each task
  dead,      \* tasks whose browser is gone
  holder,    \* the task that waits for the pairing write, if any
  slot,      \* the session the broker has bound
  known,     \* client ids whose credential reached a browser
  rejected   \* client ids whose browser was answered Rejected while pairing

taskVars == <<phase, as, seen, awaiting, dead, holder, slot, known, rejected>>
sessionVars == <<pairingVars, taskVars>>

Phase == {"closed", "hello", "authorizing", "authorized",
          "bound", "serving", "sending", "updating", "leaving"}

Authorized == {"authorized", "bound", "serving", "sending", "updating"}

Bound == {"bound", "serving", "sending", "updating", "leaving"}

SessionInit ==
  /\ PairingInit
  /\ phase = [s \in Sessions |-> "closed"]
  /\ as = [s \in Sessions |-> None]
  /\ seen = [s \in Sessions |-> 0]
  /\ awaiting = [s \in Sessions |-> FALSE]
  /\ dead = {}
  /\ holder = None
  /\ slot = None
  /\ known = {}
  /\ rejected = {}

-----------------------------------------------------------------------------
(* The handshake. *)

Moves(s, p) == phase' = [phase EXCEPT ![s] = p]

(* The task returns before it is bound; the socket closes with it.         *)
Returns(s) ==
  /\ phase' = [phase EXCEPT ![s] = "closed"]
  /\ as' = [as EXCEPT ![s] = None]
  /\ seen' = [seen EXCEPT ![s] = 0]
  /\ dead' = dead \ {s}

(* serve subscribes before it reads the first message.                     *)
Accept(s) ==
  /\ up
  /\ phase[s] = "closed"
  /\ Moves(s, "hello")
  /\ seen' = [seen EXCEPT ![s] = generation]
  /\ UNCHANGED <<pairingVars, as, awaiting, dead, holder, slot, known, rejected>>

(* The socket closes, or the first message is not a handshake message, or  *)
(* the credential is wrong, or the slot is taken.                          *)
RefuseHandshake(s) ==
  /\ phase[s] = "hello"
  /\ Returns(s)
  /\ UNCHANGED <<pairingVars, awaiting, holder, slot, known, rejected>>

RequestPair(s, c) ==
  /\ phase[s] = "hello"
  /\ s \notin dead
  /\ Pair(c)
  /\ holder' = s
  /\ Moves(s, "authorizing")
  /\ UNCHANGED <<as, seen, awaiting, dead, slot, known, rejected>>

RequestAuthenticate(s, c) ==
  /\ phase[s] = "hello"
  /\ s \notin dead
  /\ c \in known
  /\ Authenticate(c)
  /\ holder' = s
  /\ Moves(s, "authorizing")
  /\ UNCHANGED <<as, seen, awaiting, dead, slot, known, rejected>>

FinishAuthorization(s, outcome) ==
  /\ holder = s
  /\ phase[s] = "authorizing"
  /\ Finish(outcome)
  /\ holder' = None
  /\ \/ /\ outcome = "saved"
        /\ Moves(s, "authorized")
        /\ as' = [as EXCEPT ![s] = write.next.id]
        /\ UNCHANGED <<seen, dead>>
     \/ outcome # "saved" /\ Returns(s)
  /\ UNCHANGED <<awaiting, slot, known, rejected>>

(* Mutant: the task subscribes to revocations once it is authorized. *)
BindRemote_LateSubscription(s) ==
  /\ phase[s] = "authorized"
  /\ slot = None
  /\ slot' = s
  /\ Moves(s, "bound")
  /\ seen' = [seen EXCEPT ![s] = generation]
  /\ UNCHANGED <<pairingVars, as, awaiting, dead, holder, known, rejected>>

(* connect_remote finds the broker's slot free.                            *)
BindRemote(s) ==
  /\ phase[s] = "authorized"
  /\ slot = None
  /\ slot' = s
  /\ Moves(s, "bound")
  /\ UNCHANGED <<pairingVars, as, seen, awaiting, dead, holder, known, rejected>>

(* connect_remote fails with RemoteAlreadyConnected: the client is told    *)
(* that it was rejected, although pair or authenticate has succeeded.  A   *)
(* client that was pairing never sees its credential.                      *)
RefuseRemote(s) ==
  /\ phase[s] = "authorized"
  /\ slot # None
  /\ rejected' = rejected \cup ({as[s]} \ known)
  /\ Returns(s)
  /\ UNCHANGED <<pairingVars, awaiting, holder, slot, known>>

SendHandshake(s) ==
  /\ phase[s] = "bound"
  /\ Moves(s, "serving")
  /\ known' = IF s \in dead THEN known ELSE known \cup {as[s]}
  /\ UNCHANGED <<pairingVars, as, seen, awaiting, dead, holder, slot, rejected>>

(* Mutant: the session is not unregistered when the answer cannot be sent. *)
HandshakeFails_KeepsSlot(s) ==
  /\ phase[s] = "bound"
  /\ s \in dead
  /\ Returns(s)
  /\ UNCHANGED <<pairingVars, awaiting, holder, slot, known, rejected>>

(* The socket was closed meanwhile: remote_disconnected, and return.       *)
HandshakeFails(s) ==
  /\ phase[s] = "bound"
  /\ s \in dead
  /\ Moves(s, "leaving")
  /\ UNCHANGED <<pairingVars, as, seen, awaiting, dead, holder, slot, known, rejected>>

-----------------------------------------------------------------------------
(* The loop of run_authenticated. *)

BeginUpdate(s, c, v) ==
  /\ phase[s] = "serving"
  /\ as[s] = c
  /\ s \notin dead
  /\ SetPushSubscription(c, v) \/ SetIdentities(c, v)
  /\ holder' = s
  /\ Moves(s, "updating")
  /\ UNCHANGED <<as, seen, awaiting, dead, slot, known, rejected>>

FinishUpdate(s, outcome) ==
  /\ holder = s
  /\ phase[s] = "updating"
  /\ Finish(outcome)
  /\ holder' = None
  /\ Moves(s, IF outcome = "saved" THEN "serving" ELSE "leaving")
  /\ UNCHANGED <<as, seen, awaiting, dead, slot, known, rejected>>

(* A message that ends the loop, an update that is refused, the close of   *)
(* the socket or the end of the broker.                                    *)
BreakLoop(s) ==
  /\ phase[s] = "serving"
  /\ Moves(s, "leaving")
  /\ UNCHANGED <<pairingVars, as, seen, awaiting, dead, holder, slot, known, rejected>>

(* A command of the broker is sent.  The loop waits for sender.send and    *)
(* polls nothing else meanwhile.                                           *)
SendCommand(s) ==
  /\ phase[s] = "serving"
  /\ Moves(s, "sending")
  /\ UNCHANGED <<pairingVars, as, seen, awaiting, dead, holder, slot, known, rejected>>

(* The frame is taken, or the socket fails.                                *)
FinishSend(s) ==
  /\ phase[s] = "sending"
  /\ Moves(s, "serving") \/ Moves(s, "leaving")
  /\ UNCHANGED <<pairingVars, as, seen, awaiting, dead, holder, slot, known, rejected>>

Pong(s) ==
  /\ phase[s] = "serving"
  /\ s \notin dead
  /\ awaiting[s]
  /\ awaiting' = [awaiting EXCEPT ![s] = FALSE]
  /\ UNCHANGED <<pairingVars, phase, as, seen, dead, holder, slot, known, rejected>>

(* Mutant: an unanswered ping is sent again. *)
Heartbeat_Patient(s) ==
  /\ phase[s] = "serving"
  /\ awaiting' = [awaiting EXCEPT ![s] = TRUE]
  /\ Moves(s, "sending")
  /\ UNCHANGED <<pairingVars, as, seen, dead, holder, slot, known, rejected>>

(* The flag is set after the ping was sent; nobody reads it in between.    *)
Heartbeat(s) ==
  /\ phase[s] = "serving"
  /\ \/ awaiting[s] /\ Moves(s, "leaving") /\ UNCHANGED awaiting
     \/ ~awaiting[s] /\ awaiting' = [awaiting EXCEPT ![s] = TRUE] /\ Moves(s, "sending")
  /\ UNCHANGED <<pairingVars, as, seen, dead, holder, slot, known, rejected>>

(* Mutant: a revocation is noticed only by a client that is not paired. *)
Revoked_OnlyUnpaired(s) ==
  /\ phase[s] = "serving"
  /\ seen[s] # generation
  /\ client = Unpaired
  /\ Moves(s, "leaving")
  /\ UNCHANGED <<pairingVars, as, seen, awaiting, dead, holder, slot, known, rejected>>

(* revocations.changed()                                                   *)
Revoked(s) ==
  /\ phase[s] = "serving"
  /\ seen[s] # generation
  /\ Moves(s, "leaving")
  /\ UNCHANGED <<pairingVars, as, seen, awaiting, dead, holder, slot, known, rejected>>

(* remote_disconnected: the broker forgets the session it is told of.      *)
Leave(s) ==
  /\ phase[s] = "leaving"
  /\ slot' = IF slot = s THEN None ELSE slot
  /\ Returns(s)
  /\ awaiting' = [awaiting EXCEPT ![s] = FALSE]
  /\ UNCHANGED <<pairingVars, holder, known, rejected>>

-----------------------------------------------------------------------------
(* The browser, the control socket and the daemon. *)

(* The browser or the network is gone; the server does not know it yet.    *)
BrowserGone(s) ==
  /\ up
  /\ phase[s] # "closed"
  /\ s \notin dead
  /\ dead' = dead \cup {s}
  /\ UNCHANGED <<pairingVars, phase, as, seen, awaiting, holder, slot, known, rejected>>

ControlClear == Clear /\ UNCHANGED taskVars

ControlFinish(outcome) == holder = None /\ Finish(outcome) /\ UNCHANGED taskVars

ControlAbort == AbortClear /\ UNCHANGED taskVars

DaemonCrash ==
  /\ Crash
  /\ phase' = [s \in Sessions |-> "closed"]
  /\ as' = [s \in Sessions |-> None]
  /\ seen' = [s \in Sessions |-> 0]
  /\ awaiting' = [s \in Sessions |-> FALSE]
  /\ dead' = {}
  /\ holder' = None
  /\ slot' = None
  /\ UNCHANGED <<known, rejected>>

DaemonOpen == Open /\ UNCHANGED taskVars

-----------------------------------------------------------------------------
SessionStep(s) ==
  \/ \E outcome \in Outcome : FinishAuthorization(s, outcome) \/ FinishUpdate(s, outcome)
  \/ BindRemote(s)
  \/ RefuseRemote(s)
  \/ SendHandshake(s)
  \/ HandshakeFails(s)
  \/ Leave(s)

SessionNext ==
  \/ \E s \in Sessions :
       \/ Accept(s)
       \/ RefuseHandshake(s)
       \/ \E c \in Clients :
            \/ RequestPair(s, c)
            \/ RequestAuthenticate(s, c)
            \/ \E v \in Values : BeginUpdate(s, c, v)
       \/ SessionStep(s)
       \/ BreakLoop(s)
       \/ SendCommand(s)
       \/ FinishSend(s)
       \/ Pong(s)
       \/ Heartbeat(s)
       \/ Revoked(s)
       \/ BrowserGone(s)
  \/ ControlClear
  \/ \E outcome \in Outcome : ControlFinish(outcome)
  \/ ControlAbort
  \/ DaemonCrash
  \/ DaemonOpen

SessionSpec == SessionInit /\ [][SessionNext]_sessionVars

(* Tokio polls every ready branch of the loop again and again, timers tick *)
(* and the write of the store returns.  A send ends, because a browser     *)
(* reads what arrives and the kernel gives up a connection whose peer does *)
(* not acknowledge.  Nothing ends the wait for the first message: it has   *)
(* no timeout, and the server sends nothing that could fail meanwhile.     *)
SessionFairness ==
  /\ \A s \in Sessions :
       /\ WF_sessionVars(SessionStep(s))
       /\ WF_sessionVars(FinishSend(s))
       /\ SF_sessionVars(Heartbeat(s))
       /\ SF_sessionVars(Revoked(s))
  /\ WF_sessionVars(\E outcome \in Outcome : ControlFinish(outcome))

SessionFairSpec == SessionSpec /\ SessionFairness

-----------------------------------------------------------------------------
(* Properties. *)

(* Every variable of the connection tasks keeps its type.                  *)
SessionTypeOK ==
  /\ PairingTypeOK
  /\ phase \in [Sessions -> Phase]
  /\ as \in [Sessions -> Clients \cup {None}]
  /\ seen \in [Sessions -> Nat]
  /\ awaiting \in [Sessions -> BOOLEAN]
  /\ dead \subseteq Sessions
  /\ holder \in Sessions \cup {None}
  /\ slot \in Sessions \cup {None}
  /\ known \subseteq Clients
  /\ rejected \subseteq Clients

(* A task works for the client that holds the pairing, or a revocation is  *)
(* waiting for it: no order of clear, pair, authenticate and bind leaves a *)
(* revoked client connected unnoticed.                                     *)
ServedIsPaired ==
  \A s \in Sessions :
    phase[s] \in Authorized => as[s] = client.id \/ seen[s] # generation

(* The broker's slot belongs to the task that will give it back: no early  *)
(* return leaks it, and at most one task holds it.                         *)
SlotIsHeld == \A s \in Sessions : slot = s <=> phase[s] \in Bound

(* A revoked task leaves, whatever it waits for when it is revoked, unless *)
(* the daemon stops first.                                                 *)
RevokedLeaves ==
  \A s \in Sessions :
    (phase[s] \in Authorized /\ seen[s] # generation) ~> phase[s] = "closed"

(* A task that has read its first message and whose browser is gone leaves *)
(* although nobody closed the socket: only the heart beat can tell.  The   *)
(* slot that it holds is free again and the browser can come back.         *)
DeadLeaves ==
  \A s \in Sessions : (s \in dead /\ phase[s] # "hello") ~> phase[s] = "closed"

(* A client that was answered Rejected does not hold the pairing: clearing *)
(* the pairing frees the slot for a client that can use it.                *)
RejectedHoldsNothing == up => client.id \notin rejected
=============================================================================
