--------------------------- MODULE ClientSession ---------------------------
(***************************************************************************)
(* The browser worker's end of the connection,                             *)
(* packages/app/src/remote/session.ts: one desired connection, at most one *)
(* WebSocket, a pairing record in IndexedDB, and the requests buffered for *)
(* the agent.                                                              *)
(*                                                                         *)
(* JavaScript runs one callback at a time, so a step is what happens       *)
(* between two awaits.  The awaits are those of the pairing store, whose   *)
(* operations complete in the order in which they were issued, and of the  *)
(* agent that handles a request.  Between them the page may call any       *)
(* method and the socket may open, deliver, fail or close.                 *)
(*                                                                         *)
(* There is one endpoint.  The generation counter is only ever compared    *)
(* with its current value, so a queued load says whether it is still the   *)
(* current one.  A request stands for its id and attempt, which the server *)
(* uses once.                                                              *)
(***************************************************************************)
EXTENDS Naturals, Sequences, FiniteSets

CONSTANTS
  Sockets,        \* WebSocket objects; a name is used again once forgotten
  Requests,       \* request keys
  EarlyRequests,  \* requests that canProcessBeforeReady accepts
  Credentials,    \* what a server may hand out in a pairing
  Lists,          \* identity lists, compared only
  None,           \* no socket, credential or announcement
  MaxPending,     \* MAX_PENDING_REQUESTS
  MaxStore,       \* bound on store operations under way
  DeleteMayFail   \* the store may refuse to delete a pairing

ASSUME NoneIsNoSocket     == None \notin Sockets
ASSUME NoneIsNoCredential == None \notin Credentials
ASSUME EarlyAreRequests   == EarlyRequests \subseteq Requests
ASSUME LimitsArePositive  == MaxPending \in Nat \ {0} /\ MaxStore \in Nat \ {0}
ASSUME DeleteIsBoolean    == DeleteMayFail \in BOOLEAN

VARIABLES
  wanted,      \* connect has named an endpoint
  active,      \* #active
  status,      \* #snapshot.status
  socket,      \* #socket
  live,        \* sockets the client has created and not closed
  readyState,  \* readyState of #socket
  pairing,     \* #pairing
  stored,      \* the pairing record in IndexedDB
  storeQ,      \* store operations under way, in order
  saving,      \* the socket whose handshake waits for savePairing
  retry,       \* a retry timer is set
  ready,       \* #ready
  identities,  \* #identities
  announced,   \* readiness and identities last sent on #socket
  pending,     \* keys of #pending
  running,     \* calls of handleRequest under way, by key
  origin,      \* the socket that delivered each key
  answers,     \* responses sent, by key
  outcome      \* what onRequestSettled was told, by key

connection == <<wanted, active, status, socket, live, readyState, pairing, retry>>
store == <<stored, storeQ, saving>>
agent == <<ready, identities, announced>>
work == <<pending, running, origin, answers, outcome>>
clientVars == <<connection, store, agent, work>>

Load(current) == [op |-> "load", current |-> current, id |-> None]
Save(c) == [op |-> "save", current |-> FALSE, id |-> c]
Delete == [op |-> "delete", current |-> FALSE, id |-> None]

ClientInit ==
  /\ wanted = FALSE
  /\ active = TRUE
  /\ status = "connecting"
  /\ socket = None
  /\ live = {}
  /\ readyState = "closed"
  /\ pairing = None
  /\ stored = None
  /\ storeQ = << >>
  /\ saving = None
  /\ retry = FALSE
  /\ ready = FALSE
  /\ identities \in Lists
  /\ announced = None
  /\ pending = {}
  /\ running = [k \in Requests |-> 0]
  /\ origin = [k \in Requests |-> None]
  /\ answers = [k \in Requests |-> 0]
  /\ outcome = [k \in Requests |-> "open"]

-----------------------------------------------------------------------------
(* Steps that several methods share. *)

(* #socket is given up: closed, its requests forgotten, and onDisconnect   *)
(* called if it was connected, which locks the vault (worker/index.ts).    *)
GiveUp(next, wasConnected) ==
  /\ status' = next
  /\ socket' = None
  /\ live' = live \ {socket}
  /\ readyState' = "closed"
  /\ announced' = None
  /\ pending' = {}
  /\ ready' = (ready /\ ~wasConnected)

(* ++#generation makes the loads under way stale.                          *)
Superseded(queue) == [i \in 1..Len(queue) |-> [queue[i] EXCEPT !.current = FALSE]]

(* #open up to loadPairing.                                                *)
Opened(queue, open) == IF open THEN Append(Superseded(queue), Load(TRUE)) ELSE queue

(* #finish, for the current socket.                                        *)
Finish(next) ==
  /\ GiveUp(next, status = "connected")
  /\ retry' = FALSE
  /\ UNCHANGED <<wanted, active, pairing, storeQ>>

(* Mutant: no retry is scheduled when a connected session is lost. *)
ConnectionLost_NoRetry ==
  /\ GiveUp("reconnecting", status = "connected")
  /\ retry' = (retry \/ (active /\ status # "connected"))
  /\ UNCHANGED <<wanted, active, pairing, storeQ>>

(* #connectionLost, for the current socket.                                *)
ConnectionLost ==
  /\ GiveUp("reconnecting", status = "connected")
  /\ retry' = (retry \/ active)
  /\ UNCHANGED <<wanted, active, pairing, storeQ>>

(* #fail: an exception on a socket that is still open is final.            *)
Fail == IF readyState = "open" THEN Finish("error") ELSE ConnectionLost

-----------------------------------------------------------------------------
(* Methods called by the worker. *)

StoreFree == Len(storeQ) < MaxStore

Connect ==
  /\ StoreFree
  /\ wanted' = TRUE
  /\ active' = TRUE
  /\ retry' = FALSE
  /\ GiveUp("connecting", status = "connected")
  /\ pairing' = None
  /\ storeQ' = Opened(storeQ, TRUE)
  /\ UNCHANGED <<stored, saving, identities, running, origin, answers, outcome>>

(* A session that was rejected or failed stays so.                         *)
SetActiveTerminal(on) ==
  /\ status \in {"rejected", "error"}
  /\ active' = on
  /\ retry' = FALSE
  /\ UNCHANGED <<wanted, status, socket, live, readyState, pairing, store, agent, work>>

Deactivate ==
  /\ status \notin {"rejected", "error"}
  /\ active' = FALSE
  /\ retry' = FALSE
  /\ GiveUp("reconnecting", status = "connected")
  /\ pairing' = None
  /\ storeQ' = Superseded(storeQ)
  /\ UNCHANGED <<wanted, stored, saving, identities, running, origin, answers, outcome>>

(* Mutant: the retry timer is stopped before the early return, and nothing *)
(* opens because an earlier attempt is thought to be under way. *)
Activate_TrustsLoad ==
  /\ status \notin {"rejected", "error"}
  /\ StoreFree
  /\ active' = TRUE
  /\ retry' = FALSE
  /\ \/ socket # None /\ UNCHANGED <<status, storeQ>>
     \/ /\ socket = None
        /\ status' = "reconnecting"
        /\ storeQ' = Opened(storeQ, wanted /\ storeQ = << >>)
  /\ UNCHANGED <<wanted, socket, live, readyState, pairing, stored, saving, agent, work>>

Activate ==
  /\ status \notin {"rejected", "error"}
  /\ StoreFree
  /\ active' = TRUE
  /\ retry' = FALSE
  /\ \/ socket # None /\ UNCHANGED <<status, storeQ>>
     \/ /\ socket = None
        /\ status' = "reconnecting"
        /\ storeQ' = Opened(storeQ, wanted)
  /\ UNCHANGED <<wanted, socket, live, readyState, pairing, stored, saving, agent, work>>

(* forgetPairing up to deletePairing.                                      *)
ForgetPairing ==
  /\ StoreFree
  /\ retry' = FALSE
  /\ GiveUp("reconnecting", status = "connected")
  /\ pairing' = None
  /\ storeQ' = Append(Superseded(storeQ), Delete)
  /\ UNCHANGED <<wanted, active, stored, saving, identities, running, origin, answers, outcome>>

(* #tryProcess, for the keys that are offered.                             *)
Startable(keys, isReady) ==
  {k \in keys : running[k] = 0 /\ (isReady \/ k \in EarlyRequests)}

Started(keys) == [k \in Requests |-> running[k] + IF k \in keys THEN 1 ELSE 0]

(* Mutant: requests that waited for the agent are not offered again. *)
SetReady_NoDrain(on) ==
  /\ ready' = on
  /\ announced' = IF status = "connected" /\ readyState = "open"
                  THEN [announced EXCEPT !.ready = on]
                  ELSE announced
  /\ UNCHANGED <<connection, store, identities, work>>

(* #send throws on a socket that is closing: readiness is then remembered  *)
(* and neither announced nor acted on.                                     *)
SetReady(on) ==
  /\ ready' = on
  /\ IF status = "connected" /\ readyState = "open"
     THEN /\ announced' = [announced EXCEPT !.ready = on]
          /\ running' = IF on THEN Started(Startable(pending, TRUE)) ELSE running
     ELSE UNCHANGED <<announced, running>>
  /\ UNCHANGED <<connection, store, identities, pending, origin, answers, outcome>>

(* Mutant: identities are sent only by an agent that is ready. *)
SetIdentities_ReadyOnly(list) ==
  /\ identities' = list
  /\ announced' = IF status = "connected" /\ readyState = "open" /\ ready
                  THEN [announced EXCEPT !.identities = list]
                  ELSE announced
  /\ UNCHANGED <<connection, store, ready, work>>

SetIdentities(list) ==
  /\ identities' = list
  /\ announced' = IF status = "connected" /\ readyState = "open"
                  THEN [announced EXCEPT !.identities = list]
                  ELSE announced
  /\ UNCHANGED <<connection, store, ready, work>>

-----------------------------------------------------------------------------
(* The pairing store answers. *)

(* Mutant: #open does not look at the generation again. *)
Loaded_AnyGeneration ==
  /\ storeQ # << >>
  /\ Head(storeQ).op = "load"
  /\ storeQ' = Tail(storeQ)
  /\ IF active
     THEN \E s \in Sockets :
            /\ s \notin live
            /\ saving # s
            /\ \A k \in Requests : running[k] > 0 => origin[k] # s
            /\ socket' = s
            /\ live' = live \cup {s}
            /\ readyState' = "connecting"
            /\ pairing' = stored
     ELSE UNCHANGED <<socket, live, readyState, pairing>>
  /\ UNCHANGED <<wanted, active, status, retry, stored, saving, agent, work>>

(* #open goes on if it has not been superseded.                            *)
Loaded ==
  /\ storeQ # << >>
  /\ Head(storeQ).op = "load"
  /\ storeQ' = Tail(storeQ)
  /\ IF Head(storeQ).current /\ active /\ socket = None
     THEN \E s \in Sockets :
            /\ s \notin live
            /\ saving # s
            /\ \A k \in Requests : running[k] > 0 => origin[k] # s
            /\ socket' = s
            /\ live' = live \cup {s}
            /\ readyState' = "connecting"
            /\ pairing' = stored
     ELSE UNCHANGED <<socket, live, readyState, pairing>>
  /\ UNCHANGED <<wanted, active, status, retry, stored, saving, agent, work>>

(* loadPairing or the WebSocket constructor throws.                        *)
LoadFails ==
  /\ storeQ # << >>
  /\ Head(storeQ).op = "load"
  /\ storeQ' = Tail(storeQ)
  /\ status' = IF Head(storeQ).current THEN "error" ELSE status
  /\ UNCHANGED <<wanted, active, socket, live, readyState, pairing, retry,
                 stored, saving, agent, work>>

(* #connected: identities, then readiness, are sent; the send throws if    *)
(* the socket is closing.                                                  *)
Connected ==
  \/ /\ readyState = "open"
     /\ status' = "connected"
     /\ announced' = [ready |-> ready, identities |-> identities]
     /\ UNCHANGED <<wanted, active, socket, live, readyState, retry, ready, pending>>
  \/ /\ readyState # "open"
     /\ GiveUp("reconnecting", TRUE)
     /\ retry' = (retry \/ active)
     /\ UNCHANGED <<wanted, active>>

(* savePairing resolves: the record is kept whatever happened to its       *)
(* socket, which is connected only if it is still the current one.         *)
Saved ==
  /\ storeQ # << >>
  /\ Head(storeQ).op = "save"
  /\ storeQ' = Tail(storeQ)
  /\ stored' = Head(storeQ).id
  /\ saving' = None
  /\ \/ /\ saving = socket
        /\ pairing' = Head(storeQ).id
        /\ Connected
     \/ saving # socket /\ UNCHANGED <<connection, ready, announced, pending>>
  /\ UNCHANGED <<identities, running, origin, answers, outcome>>

SaveFails ==
  /\ storeQ # << >>
  /\ Head(storeQ).op = "save"
  /\ saving' = None
  /\ \/ /\ saving = socket
        /\ IF readyState = "open"
           THEN GiveUp("error", status = "connected") /\ retry' = FALSE
           ELSE GiveUp("reconnecting", status = "connected") /\ retry' = (retry \/ active)
        /\ UNCHANGED <<wanted, active, pairing>>
     \/ saving # socket /\ UNCHANGED <<connection, ready, announced, pending>>
  /\ storeQ' = Tail(storeQ)
  /\ UNCHANGED <<stored, identities, running, origin, answers, outcome>>

(* forgetPairing goes on: it opens unless a socket exists.                 *)
Deleted ==
  /\ storeQ # << >>
  /\ Head(storeQ).op = "delete"
  /\ stored' = None
  /\ storeQ' = Opened(Tail(storeQ), wanted /\ active /\ socket = None)
  /\ UNCHANGED <<connection, saving, agent, work>>

(* deletePairing rejects, and forgetPairing with it.                       *)
DeleteFails ==
  /\ DeleteMayFail
  /\ storeQ # << >>
  /\ Head(storeQ).op = "delete"
  /\ storeQ' = Tail(storeQ)
  /\ UNCHANGED <<connection, stored, saving, agent, work>>

-----------------------------------------------------------------------------
(* Events of the current socket; those of any other are ignored. *)

(* The socket opens: authenticate or pair_request is sent.                 *)
SocketOpens ==
  /\ socket # None
  /\ readyState = "connecting"
  /\ readyState' = "open"
  /\ UNCHANGED <<wanted, active, status, socket, live, pairing, retry, store, agent, work>>

(* The server closes; the close event follows.                             *)
SocketCloses ==
  /\ readyState = "open"
  /\ readyState' = "closing"
  /\ UNCHANGED <<wanted, active, status, socket, live, pairing, retry, store, agent, work>>

(* The error or close event.                                               *)
SocketLost ==
  /\ socket # None
  /\ ConnectionLost
  /\ UNCHANGED <<stored, saving, identities, running, origin, answers, outcome>>

RetryFires ==
  /\ retry
  /\ StoreFree
  /\ retry' = FALSE
  /\ storeQ' = Opened(storeQ, active /\ wanted /\ socket = None)
  /\ UNCHANGED <<wanted, active, status, socket, live, readyState, pairing,
                 stored, saving, agent, work>>

(* Messages are handled in order, one after the other: none while an       *)
(* earlier one waits for the store.                                        *)
Receives ==
  /\ saving = None
  /\ socket # None
  /\ readyState \in {"open", "closing"}

Handshaking == Receives /\ status \in {"connecting", "reconnecting"}

ReceiveRejected ==
  /\ Handshaking
  /\ Finish("rejected")
  /\ UNCHANGED <<stored, saving, identities, running, origin, answers, outcome>>

(* Mutant: the session is connected before its pairing is saved. *)
ReceivePaired_NoWait(c) ==
  /\ Handshaking
  /\ pairing = None
  /\ StoreFree
  /\ storeQ' = Append(storeQ, Save(c))
  /\ pairing' = c
  /\ Connected
  /\ UNCHANGED <<stored, saving, identities, running, origin, answers, outcome>>

ReceivePaired(c) ==
  /\ Handshaking
  /\ pairing = None
  /\ StoreFree
  /\ storeQ' = Append(storeQ, Save(c))
  /\ saving' = socket
  /\ UNCHANGED <<connection, stored, agent, work>>

ReceiveAuthenticated ==
  /\ Handshaking
  /\ pairing # None
  /\ Connected
  /\ UNCHANGED <<pairing, store, identities, running, origin, answers, outcome>>

(* A message that cannot be decoded, or that this state does not allow, is *)
(* an exception.                                                           *)
ReceiveUnexpected ==
  /\ Receives
  /\ Fail
  /\ UNCHANGED <<stored, saving, identities, running, origin, answers, outcome>>

(* #enqueue.  A full buffer is an exception.                               *)
ReceiveRequest(k) ==
  /\ Receives
  /\ status = "connected"
  /\ origin[k] = None
  /\ origin' = [origin EXCEPT ![k] = socket]
  /\ \/ /\ Cardinality(pending) < MaxPending
        /\ pending' = pending \cup {k}
        /\ running' = Started(Startable({k}, ready))
        /\ UNCHANGED <<connection, storeQ, ready, announced>>
     \/ /\ Cardinality(pending) >= MaxPending
        /\ Fail
        /\ UNCHANGED running
  /\ UNCHANGED <<stored, saving, identities, answers, outcome>>

(* Mutant: a cancelled request stays in the buffer until it is answered. *)
ReceiveCancel_Keeps(k) ==
  /\ Receives
  /\ status = "connected"
  /\ k \in pending
  /\ outcome' = [outcome EXCEPT ![k] = "canceled"]
  /\ pending' = IF running[k] > 0 THEN pending ELSE pending \ {k}
  /\ UNCHANGED <<connection, store, agent, running, origin, answers>>

(* #cancel                                                                 *)
ReceiveCancel(k) ==
  /\ Receives
  /\ status = "connected"
  /\ k \in pending
  /\ pending' = pending \ {k}
  /\ outcome' = [outcome EXCEPT ![k] = "canceled"]
  /\ UNCHANGED <<connection, store, agent, running, origin, answers>>

-----------------------------------------------------------------------------
(* The agent answers. *)

(* The answer is dropped unless its socket is current and the request is   *)
(* still buffered; the send throws if the socket is closing.               *)
Handled(k) ==
  /\ running[k] > 0
  /\ running' = [running EXCEPT ![k] = @ - 1]
  /\ IF origin[k] = socket /\ k \in pending
     THEN \/ /\ readyState = "open"
             /\ answers' = [answers EXCEPT ![k] = @ + 1]
             /\ outcome' = [outcome EXCEPT ![k] = "signed"]
             /\ pending' = pending \ {k}
             /\ UNCHANGED <<connection, storeQ, ready, announced>>
          \/ /\ readyState # "open"
             /\ ConnectionLost
             /\ UNCHANGED <<answers, outcome>>
     ELSE UNCHANGED <<connection, storeQ, ready, announced, pending, answers, outcome>>
  /\ UNCHANGED <<stored, saving, identities, origin>>

(* handleRequest throws: #fail, which ignores a socket that was replaced.  *)
HandlerFails(k) ==
  /\ running[k] > 0
  /\ running' = [running EXCEPT ![k] = @ - 1]
  /\ IF origin[k] = socket
     THEN Fail
     ELSE UNCHANGED <<connection, storeQ, ready, announced, pending>>
  /\ UNCHANGED <<stored, saving, identities, origin, answers, outcome>>

-----------------------------------------------------------------------------
PageCalls ==
  \/ Connect
  \/ \E on \in BOOLEAN : SetActiveTerminal(on) \/ SetReady(on)
  \/ Deactivate
  \/ Activate
  \/ ForgetPairing
  \/ \E list \in Lists : SetIdentities(list)

StoreAnswers == Loaded \/ Saved \/ Deleted

StoreRefuses == LoadFails \/ SaveFails \/ DeleteFails

SocketGoes == SocketCloses \/ SocketLost

Handshake ==
  \/ ReceiveRejected
  \/ \E c \in Credentials : ReceivePaired(c)
  \/ ReceiveAuthenticated

ClientNext ==
  \/ PageCalls
  \/ StoreAnswers
  \/ StoreRefuses
  \/ SocketOpens
  \/ SocketGoes
  \/ RetryFires
  \/ Handshake
  \/ ReceiveUnexpected
  \/ \E k \in Requests :
       ReceiveRequest(k) \/ ReceiveCancel(k) \/ Handled(k) \/ HandlerFails(k)

ClientSpec == ClientInit /\ [][ClientNext]_clientVars

(* The store answers, timers fire, sockets open and servers answer the     *)
(* handshake; and after some time the page is left alone and the network   *)
(* holds.                                                                  *)
ClientFairSpec ==
  /\ ClientSpec
  /\ WF_clientVars(StoreAnswers)
  /\ WF_clientVars(RetryFires)
  /\ WF_clientVars(SocketOpens)
  /\ WF_clientVars(readyState = "open" /\ Handshake)
  /\ WF_clientVars(readyState = "closing" /\ SocketLost)
  /\ <>[][~(PageCalls \/ StoreRefuses \/ SocketGoes)]_clientVars

-----------------------------------------------------------------------------
(* Properties. *)

(* Every socket but the current one is closed, and an inactive session has *)
(* none: no interleaving of connect, visibility changes and loads leaks a  *)
(* connection that would keep the server's only slot.                      *)
NoLeakedSocket ==
  /\ live = {socket} \ {None}
  /\ ~active => live = {}

(* An active session that says it is connecting has something under way    *)
(* that will connect it: a socket, a timer, a load or a deletion.          *)
NoStall ==
  (active /\ wanted /\ status \in {"connecting", "reconnecting"}) =>
    \/ socket # None
    \/ retry
    \/ \E i \in 1..Len(storeQ) : storeQ[i].current \/ storeQ[i].op = "delete"

(* A connected session holds the credential that is in the store: the next *)
(* start authenticates as the client the server has paired.                *)
ConnectedIsStored == status = "connected" => pairing # None /\ stored = pairing

(* The server was told the agent's latest readiness and identities.        *)
AnnouncedIsCurrent ==
  (status = "connected" /\ readyState = "open") =>
    announced = [ready |-> ready, identities |-> identities]

(* Buffered requests came over the current connection, and one that may be *)
(* processed is: none waits for a readiness that was already announced.    *)
PendingIsServed ==
  \A k \in pending :
    /\ status = "connected"
    /\ origin[k] = socket
    /\ (readyState = "open" /\ announced.ready) => running[k] = 1
    /\ k \in EarlyRequests => running[k] = 1

(* A request is answered once, on the socket it came over, while it is     *)
(* buffered: never after its cancellation or the loss of its connection.   *)
AnswersLiveRequest ==
  [][\A k \in Requests :
       answers'[k] # answers[k] =>
         /\ answers[k] = 0
         /\ outcome[k] = "open"
         /\ origin[k] = socket
         /\ k \in pending]_clientVars

(* Left alone with a working network, a session settles: it is connected,  *)
(* it was told that it may not connect, or the page does not want it.      *)
Settles == <>[](status \in {"connected", "rejected", "error"} \/ ~active \/ ~wanted)
=============================================================================
