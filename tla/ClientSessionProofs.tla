------------------------ MODULE ClientSessionProofs ------------------------
(***************************************************************************)
(* Theorems about module ClientSession: the browser's end of a connection  *)
(* never leaks a socket, never stalls, holds the credential that is in the *)
(* store, and answers a request once, while it is live.                    *)
(*                                                                         *)
(* The argument turns on the store queue.  A load that is still current is *)
(* its last operation, and a socket exists only while the queue is empty   *)
(* or holds the one save that the socket's handshake waits for.            *)
(***************************************************************************)
EXTENDS ClientSession, SequenceTheorems, TLAPS

StoreOps == [op : {"load", "save", "delete"}, current : BOOLEAN, id : Credentials \cup {None}]

NoneCurrent(q) == \A i \in 1..Len(q) : ~q[i].current

NoDelete(q) == \A i \in 1..Len(q) : q[i].op # "delete"

HasSave(q) == \E i \in 1..Len(q) : q[i].op = "save"

(* Nothing in the queue will open a socket.                                *)
Settled(q) == NoneCurrent(q) /\ NoDelete(q)

(* Only a load is current, and it is the last operation; there is at most  *)
(* one save.                                                               *)
QueueOK(q) ==
  /\ q \in Seq(StoreOps)
  /\ \A i \in 1..Len(q) : q[i].current => q[i].op = "load" /\ i = Len(q)
  /\ \A i, j \in 1..Len(q) : q[i].op = "save" /\ q[j].op = "save" => i = j
  /\ \A i \in 1..Len(q) : q[i].op = "save" => q[i].id \in Credentials

Statuses == {"connecting", "reconnecting", "connected", "rejected", "error"}

TypeOK ==
  /\ wanted \in BOOLEAN /\ active \in BOOLEAN /\ retry \in BOOLEAN /\ ready \in BOOLEAN
  /\ status \in Statuses
  /\ socket \in Sockets \cup {None}
  /\ readyState \in {"closed", "connecting", "open", "closing"}
  /\ pairing \in Credentials \cup {None}
  /\ stored \in Credentials \cup {None}
  /\ saving \in Sockets \cup {None}
  /\ identities \in Lists
  /\ announced \in {None} \cup [ready : BOOLEAN, identities : Lists]
  /\ pending \subseteq Requests
  /\ running \in [Requests -> Nat]
  /\ origin \in [Requests -> Sockets \cup {None}]
  /\ answers \in [Requests -> Nat]
  /\ outcome \in [Requests -> {"open", "signed", "canceled"}]

(* The socket and what the session says of itself.                         *)
SocketInv ==
  /\ NoLeakedSocket
  /\ readyState = "closed" <=> socket = None
  /\ status = "connected" =>
       /\ readyState \in {"open", "closing"}
       /\ announced \in [ready : BOOLEAN, identities : Lists]
       /\ saving = None
       /\ pairing # None
  /\ AnnouncedIsCurrent

(* The handshake of the current socket waits for the only save.            *)
AwaitsSave ==
  /\ saving = socket
  /\ Len(storeQ) = 1
  /\ storeQ[1].op = "save"
  /\ pairing = None
  /\ status \in {"connecting", "reconnecting"}

(* The queue and the timer.                                                *)
QueueInv ==
  /\ QueueOK(storeQ)
  /\ saving # None <=> HasSave(storeQ)
  /\ socket # None =>
       /\ pairing = stored
       /\ (saving = None /\ storeQ = << >>) \/ AwaitsSave
  /\ retry => socket = None /\ Settled(storeQ)
  /\ status \in {"rejected", "error"} => socket = None /\ ~retry /\ Settled(storeQ)

(* A request that was never delivered has no trace.                        *)
Untouched ==
  \A k \in Requests :
    /\ running[k] \in {0, 1}
    /\ origin[k] = None => running[k] = 0 /\ answers[k] = 0 /\ outcome[k] = "open"

(* The requests.                                                           *)
WorkInv ==
  /\ Untouched
  /\ PendingIsServed
  /\ \A k \in pending : answers[k] = 0 /\ outcome[k] = "open"

(* Inductive.                                                              *)
Inv == TypeOK /\ SocketInv /\ QueueInv /\ WorkInv
-----------------------------------------------------------------------------
(* The store queue. *)

(* ++#generation leaves every operation in place, none of them current.    *)
LEMMA SupersededFacts ==
  ASSUME NEW q, QueueOK(q)
  PROVE  /\ Superseded(q) \in Seq(StoreOps)
         /\ Len(Superseded(q)) = Len(q)
         /\ \A i \in 1..Len(q) : /\ Superseded(q)[i].op = q[i].op
                                 /\ Superseded(q)[i].id = q[i].id
         /\ QueueOK(Superseded(q))
         /\ NoneCurrent(Superseded(q))
         /\ NoDelete(Superseded(q)) <=> NoDelete(q)
         /\ HasSave(Superseded(q)) <=> HasSave(q)
<1> DEFINE f == Superseded(q)
<1>1. q \in Seq(StoreOps) /\ Len(q) \in Nat
  BY DEF QueueOK
<1>2. f = [i \in 1..Len(q) |-> [q[i] EXCEPT !.current = FALSE]]
  BY DEF Superseded
<1>3. \A i \in 1..Len(q) : q[i] \in StoreOps
  BY <1>1
<1>4. \A i \in 1..Len(q) : [q[i] EXCEPT !.current = FALSE] \in StoreOps
  BY <1>3 DEF StoreOps
<1>5. f \in Seq(StoreOps) /\ Len(f) = Len(q)
  <2>1. f \in [1..Len(q) -> StoreOps]
    BY <1>2, <1>4
  <2> HIDE DEF f
  <2>2. f \in Seq(StoreOps)
    BY <2>1, <1>1, IsASeq
  <2> QED BY <2>1, <2>2, <1>1, LenProperties
<1>6. \A i \in 1..Len(q) : f[i].op = q[i].op /\ f[i].id = q[i].id /\ ~f[i].current
  BY <1>2, <1>3 DEF StoreOps
<1> HIDE DEF f
<1>7. QueueOK(f) /\ NoneCurrent(f)
  BY <1>5, <1>6 DEF QueueOK, NoneCurrent
<1>8. (NoDelete(f) <=> NoDelete(q)) /\ (HasSave(f) <=> HasSave(q))
  BY <1>5, <1>6 DEF NoDelete, HasSave
<1> QED BY <1>5, <1>6, <1>7, <1>8 DEF f

(* An operation at the end of a queue in which none is current.            *)
LEMMA AppendFacts ==
  ASSUME NEW q, QueueOK(q), NoneCurrent(q), NEW o \in StoreOps,
         o.current => o.op = "load",
         o.op = "save" => ~HasSave(q) /\ o.id \in Credentials
  PROVE  /\ QueueOK(Append(q, o))
         /\ Len(Append(q, o)) = Len(q) + 1
         /\ NoneCurrent(Append(q, o)) <=> ~o.current
         /\ NoDelete(Append(q, o)) <=> NoDelete(q) /\ o.op # "delete"
         /\ HasSave(Append(q, o)) <=> HasSave(q) \/ o.op = "save"
<1> DEFINE f == Append(q, o)
<1>1. q \in Seq(StoreOps) /\ Len(q) \in Nat
  BY DEF QueueOK
<1>2. /\ f \in Seq(StoreOps)
      /\ Len(f) = Len(q) + 1
      /\ \A i \in 1..Len(q) : f[i] = q[i]
      /\ f[Len(q) + 1] = o
  BY <1>1, AppendProperties
<1> HIDE DEF f
<1>3. \A i \in 1..Len(f) : i \in 1..Len(q) \/ i = Len(q) + 1
  BY <1>1, <1>2
<1>4. 1..Len(q) \subseteq 1..Len(f) /\ Len(q) + 1 \in 1..Len(f)
  BY <1>1, <1>2
<1>5. QueueOK(f)
  BY <1>2, <1>3 DEF QueueOK, NoneCurrent, HasSave
<1>6. NoneCurrent(f) <=> ~o.current
  BY <1>2, <1>3, <1>4 DEF NoneCurrent
<1>7. NoDelete(f) <=> NoDelete(q) /\ o.op # "delete"
  BY <1>2, <1>3, <1>4 DEF NoDelete
<1>8. HasSave(f) <=> HasSave(q) \/ o.op = "save"
  BY <1>2, <1>3, <1>4 DEF HasSave
<1> QED BY <1>2, <1>5, <1>6, <1>7, <1>8 DEF f

(* #open: a load that is current, and no other is.                         *)
LEMMA OpenedFacts ==
  ASSUME NEW q, QueueOK(q)
  PROVE  /\ QueueOK(Opened(q, TRUE))
         /\ ~NoneCurrent(Opened(q, TRUE))
         /\ HasSave(Opened(q, TRUE)) <=> HasSave(q)
         /\ Opened(q, FALSE) = q
<1>1. Load(TRUE) \in StoreOps /\ Load(TRUE).current /\ Load(TRUE).op = "load"
  BY DEF Load, StoreOps
<1>2. Opened(q, TRUE) = Append(Superseded(q), Load(TRUE)) /\ Opened(q, FALSE) = q
  BY DEF Opened
<1> QED BY <1>1, <1>2, SupersededFacts, AppendFacts

(* forgetPairing: a delete, and no load is current.                        *)
LEMMA ForgetFacts ==
  ASSUME NEW q, QueueOK(q)
  PROVE  /\ QueueOK(Append(Superseded(q), Delete))
         /\ ~NoDelete(Append(Superseded(q), Delete))
         /\ HasSave(Append(Superseded(q), Delete)) <=> HasSave(q)
<1>1. Delete \in StoreOps /\ ~Delete.current /\ Delete.op = "delete"
  BY DEF Delete, StoreOps
<1> QED BY <1>1, SupersededFacts, AppendFacts

(* The first operation completes.                                          *)
LEMMA TailFacts ==
  ASSUME NEW q, QueueOK(q), q # << >>
  PROVE  /\ Head(q) \in StoreOps
         /\ Head(q) = q[1]
         /\ QueueOK(Tail(q))
         /\ Len(q) = 1 => Tail(q) = << >>
         /\ Head(q).current => Tail(q) = << >> /\ Head(q).op = "load"
         /\ Head(q).op = "save" =>
              /\ HasSave(q)
              /\ ~HasSave(Tail(q))
              /\ Head(q).id \in Credentials
         /\ Head(q).op # "save" => (HasSave(Tail(q)) <=> HasSave(q))
         /\ Settled(q) => Settled(Tail(q))
         /\ ~Head(q).current /\ Head(q).op # "delete" /\ Settled(Tail(q)) => Settled(q)
<1> DEFINE f == Tail(q)
<1>1. q \in Seq(StoreOps) /\ Len(q) \in Nat /\ Len(q) > 0
  BY EmptySeq DEF QueueOK
<1>2. /\ f \in Seq(StoreOps)
      /\ Len(f) = Len(q) - 1
      /\ \A i \in 1..Len(f) : f[i] = q[i + 1]
  BY <1>1, HeadTailProperties
<1>3. Head(q) = q[1] /\ Head(q) \in StoreOps
  BY <1>1
<1> HIDE DEF f
<1>4. /\ 1 \in 1..Len(q)
      /\ \A i \in 1..Len(f) : i + 1 \in 1..Len(q) /\ i + 1 # 1
      /\ \A i \in 1..Len(q) : i = 1 \/ (i - 1 \in 1..Len(f) /\ f[i - 1] = q[i])
  BY <1>1, <1>2
<1>5. QueueOK(f)
  <2>1. \A i \in 1..Len(f) : f[i].current => f[i].op = "load" /\ i = Len(f)
    BY <1>1, <1>2, <1>4 DEF QueueOK
  <2>2. \A i, j \in 1..Len(f) : f[i].op = "save" /\ f[j].op = "save" => i = j
    <3> SUFFICES ASSUME NEW i \in 1..Len(f), NEW j \in 1..Len(f),
                        f[i].op = "save", f[j].op = "save"
                 PROVE  i = j
      OBVIOUS
    <3>1. i + 1 = j + 1
      BY <1>2, <1>4 DEF QueueOK
    <3> QED BY <3>1, <1>2
  <2>3. \A i \in 1..Len(f) : f[i].op = "save" => f[i].id \in Credentials
    BY <1>2, <1>4 DEF QueueOK
  <2> QED BY <1>2, <2>1, <2>2, <2>3 DEF QueueOK
<1>6. Len(q) = 1 => f = << >>
  BY <1>1, <1>2, EmptySeq
<1>7. Head(q).current => f = << >> /\ Head(q).op = "load"
  BY <1>3, <1>4, <1>6 DEF QueueOK
<1>8. Head(q).op = "save" => HasSave(q) /\ ~HasSave(f) /\ Head(q).id \in Credentials
  BY <1>2, <1>3, <1>4 DEF QueueOK, HasSave
<1>9. Head(q).op # "save" => (HasSave(f) <=> HasSave(q))
  BY <1>2, <1>3, <1>4 DEF HasSave
<1>10. Settled(q) => Settled(f)
  BY <1>2, <1>4 DEF Settled, NoneCurrent, NoDelete
<1>11. ~Head(q).current /\ Head(q).op # "delete" /\ Settled(f) => Settled(q)
  BY <1>2, <1>3, <1>4 DEF Settled, NoneCurrent, NoDelete
<1> QED BY <1>3, <1>5, <1>6, <1>7, <1>8, <1>9, <1>10, <1>11 DEF f

(* The empty queue.                                                        *)
LEMMA EmptyFacts ==
  /\ QueueOK(<< >>)
  /\ Settled(<< >>)
  /\ ~HasSave(<< >>)
<1>1. << >> \in Seq(StoreOps) /\ Len(<< >>) = 0
  BY EmptySeq
<1> QED BY <1>1 DEF QueueOK, Settled, NoneCurrent, NoDelete, HasSave
-----------------------------------------------------------------------------
(* What the steps share. *)

(* A new RemoteSession.                                                    *)
LEMMA InvInit == ClientInit => Inv
<1> SUFFICES ASSUME ClientInit PROVE Inv
  OBVIOUS
<1>1. TypeOK
  <2>1. wanted \in BOOLEAN /\ active \in BOOLEAN /\ retry \in BOOLEAN /\ ready \in BOOLEAN
    BY DEF ClientInit
  <2> QED BY <2>1 DEF ClientInit, TypeOK, Statuses
<1>2. SocketInv
  BY DEF ClientInit, SocketInv, NoLeakedSocket, AnnouncedIsCurrent
<1>3. QueueInv
  BY EmptyFacts DEF ClientInit, QueueInv
<1>4. WorkInv
  BY DEF ClientInit, WorkInv, Untouched, PendingIsServed
<1> QED BY <1>1, <1>2, <1>3, <1>4 DEF Inv

(* The requests, as far as no connection is concerned.                     *)
WorkTypes ==
  /\ running \in [Requests -> Nat]
  /\ origin \in [Requests -> Sockets \cup {None}]
  /\ answers \in [Requests -> Nat]
  /\ outcome \in [Requests -> {"open", "signed", "canceled"}]
  /\ Untouched

(* Whatever gives the socket up restores the invariant, if it leaves the   *)
(* queue and the timer in order.                                           *)
LEMMA GivingUp ==
  ASSUME Inv, NEW next \in Statuses \ {"connected"}, NEW was,
         GiveUp(next, was),
         wanted' \in BOOLEAN, active' \in BOOLEAN, retry' \in BOOLEAN,
         pairing' \in Credentials \cup {None},
         stored' \in Credentials \cup {None},
         saving' \in Sockets \cup {None},
         identities' \in Lists,
         QueueOK(storeQ'),
         saving' # None <=> HasSave(storeQ'),
         retry' => Settled(storeQ'),
         next \in {"rejected", "error"} => ~retry' /\ Settled(storeQ'),
         WorkTypes'
  PROVE  Inv'
<1>1. TypeOK'
  <2>1. ready' \in BOOLEAN
    BY DEF GiveUp
  <2>2. /\ status' \in Statuses
        /\ socket' = None
        /\ readyState' = "closed"
        /\ announced' = None
        /\ pending' = {}
    BY DEF GiveUp
  <2> QED BY <2>1, <2>2 DEF TypeOK, WorkTypes
<1>2. SocketInv'
  <2>1. live' = {}
    BY DEF GiveUp, Inv, SocketInv, NoLeakedSocket
  <2> QED BY <2>1 DEF GiveUp, SocketInv, NoLeakedSocket, AnnouncedIsCurrent
<1>3. QueueInv'
  BY DEF GiveUp, QueueInv
<1>4. WorkInv'
  BY DEF GiveUp, WorkInv, WorkTypes, PendingIsServed
<1> QED BY <1>1, <1>2, <1>3, <1>4 DEF Inv

(* The invariant has the types of the requests.                            *)
LEMMA WorkTypesHold ==
  ASSUME Inv
  PROVE  WorkTypes /\ (UNCHANGED <<running, origin, answers, outcome>> => WorkTypes')
BY DEF Inv, TypeOK, WorkInv, WorkTypes, Untouched

(* A socket that is given up when no method of the worker is the cause.    *)
LEMMA QueueOfSocket ==
  ASSUME Inv, socket # None
  PROVE  /\ Settled(storeQ)
         /\ ~retry
         /\ status \in {"connecting", "reconnecting", "connected"}
         /\ saving = socket => AwaitsSave
<1>1. CASE storeQ = << >>
  BY <1>1, EmptyFacts DEF Inv, QueueInv, TypeOK, Statuses
<1>2. CASE AwaitsSave
  <2>1. \A i \in 1..Len(storeQ) : i = 1
    BY <1>2 DEF AwaitsSave
  <2> QED
    BY <1>2, <2>1 DEF Inv, QueueInv, TypeOK, Statuses, AwaitsSave, QueueOK, Settled,
       NoneCurrent, NoDelete
<1> QED BY <1>1, <1>2 DEF Inv, QueueInv

(* The socket is lost, or the session ends for good.                       *)
LEMMA LosingSocket ==
  ASSUME Inv, socket # None, WorkTypes',
         \/ ConnectionLost
         \/ \E next \in {"rejected", "error"} : Finish(next),
         UNCHANGED <<stored, saving, identities>>
  PROVE  Inv'
<1> USE QueueOfSocket
<1>1. /\ QueueOK(storeQ) /\ (saving # None <=> HasSave(storeQ)) /\ UNCHANGED storeQ
      /\ UNCHANGED <<wanted, active, pairing>>
  BY DEF Inv, QueueInv, ConnectionLost, Finish
<1>2. /\ wanted' \in BOOLEAN /\ active' \in BOOLEAN
      /\ pairing' \in Credentials \cup {None}
      /\ stored' \in Credentials \cup {None}
      /\ saving' \in Sockets \cup {None}
      /\ identities' \in Lists
  BY <1>1 DEF Inv, TypeOK
<1>3. CASE ConnectionLost
  <2>1. GiveUp("reconnecting", status = "connected") /\ retry' \in BOOLEAN
    BY <1>3 DEF ConnectionLost
  <2>2. "reconnecting" \in Statuses \ {"connected"}
    BY DEF Statuses
  <2> QED BY <1>1, <1>2, <2>1, <2>2, GivingUp
<1>4. ASSUME NEW next \in {"rejected", "error"}, Finish(next)
      PROVE  Inv'
  <2>1. GiveUp(next, status = "connected") /\ retry' = FALSE
    BY <1>4 DEF Finish
  <2>2. next \in Statuses \ {"connected"}
    BY DEF Statuses
  <2> QED BY <1>1, <1>2, <2>1, <2>2, GivingUp
<1> QED BY <1>3, <1>4

(* #fail: the end on an open socket, a lost connection otherwise.          *)
LEMMA Failing ==
  ASSUME Inv, socket # None, WorkTypes', Fail, UNCHANGED <<stored, saving, identities>>
  PROVE  Inv'
BY LosingSocket DEF Fail
-----------------------------------------------------------------------------
(* Methods called by the worker. *)

(* connect.                                                                *)
LEMMA ConnectKeepsInv ==
  ASSUME Inv, Connect
  PROVE  Inv'
<1>1. GiveUp("connecting", status = "connected") /\ "connecting" \in Statuses \ {"connected"}
  BY DEF Connect, Statuses
<1>2. /\ QueueOK(storeQ')
      /\ saving' # None <=> HasSave(storeQ')
  BY OpenedFacts DEF Connect, Inv, QueueInv
<1>3. /\ wanted' \in BOOLEAN /\ active' \in BOOLEAN /\ retry' = FALSE
      /\ pairing' \in Credentials \cup {None}
      /\ stored' \in Credentials \cup {None}
      /\ saving' \in Sockets \cup {None}
      /\ identities' \in Lists
  BY DEF Connect, Inv, TypeOK
<1> QED BY <1>1, <1>2, <1>3, GivingUp, WorkTypesHold DEF Connect

(* setActive(false).                                                       *)
LEMMA DeactivateKeepsInv ==
  ASSUME Inv, Deactivate
  PROVE  Inv'
<1>1. GiveUp("reconnecting", status = "connected") /\ "reconnecting" \in Statuses \ {"connected"}
  BY DEF Deactivate, Statuses
<1>2. /\ QueueOK(storeQ')
      /\ saving' # None <=> HasSave(storeQ')
  BY SupersededFacts DEF Deactivate, Inv, QueueInv
<1>3. /\ wanted' \in BOOLEAN /\ active' \in BOOLEAN /\ retry' = FALSE
      /\ pairing' \in Credentials \cup {None}
      /\ stored' \in Credentials \cup {None}
      /\ saving' \in Sockets \cup {None}
      /\ identities' \in Lists
  BY DEF Deactivate, Inv, TypeOK
<1> QED BY <1>1, <1>2, <1>3, GivingUp, WorkTypesHold DEF Deactivate

(* forgetPairing.                                                          *)
LEMMA ForgetPairingKeepsInv ==
  ASSUME Inv, ForgetPairing
  PROVE  Inv'
<1>1. GiveUp("reconnecting", status = "connected") /\ "reconnecting" \in Statuses \ {"connected"}
  BY DEF ForgetPairing, Statuses
<1>2. /\ QueueOK(storeQ')
      /\ saving' # None <=> HasSave(storeQ')
  BY ForgetFacts DEF ForgetPairing, Inv, QueueInv
<1>3. /\ wanted' \in BOOLEAN /\ active' \in BOOLEAN /\ retry' = FALSE
      /\ pairing' \in Credentials \cup {None}
      /\ stored' \in Credentials \cup {None}
      /\ saving' \in Sockets \cup {None}
      /\ identities' \in Lists
  BY DEF ForgetPairing, Inv, TypeOK
<1> QED BY <1>1, <1>2, <1>3, GivingUp, WorkTypesHold DEF ForgetPairing

(* Steps that change neither the socket nor the requests.                  *)
LEMMA KeepingSocket ==
  ASSUME Inv, UNCHANGED <<socket, live, readyState, ready, identities, announced,
                          pending, running, origin, answers, outcome>>,
         status' = status \/ (status # "connected" /\ status' # "connected"),
         active' \/ socket = None
  PROVE  /\ readyState' = "closed" <=> socket' = None
         /\ NoLeakedSocket'
         /\ AnnouncedIsCurrent'
         /\ WorkInv'
<1>1. NoLeakedSocket' /\ AnnouncedIsCurrent'
  BY DEF Inv, SocketInv, NoLeakedSocket, AnnouncedIsCurrent
<1>2. pending # {} => status = "connected"
  BY DEF Inv, WorkInv, PendingIsServed
<1>3. WorkInv'
  BY <1>2 DEF Inv, WorkInv, Untouched, PendingIsServed
<1> QED BY <1>1, <1>3 DEF Inv, SocketInv

(* setActive on a session that has ended.                                  *)
LEMMA SetActiveTerminalKeepsInv ==
  ASSUME Inv, NEW on \in BOOLEAN, SetActiveTerminal(on)
  PROVE  Inv'
<1>1. /\ socket = None /\ status \in {"rejected", "error"}
      /\ active' = on /\ retry' = FALSE
      /\ UNCHANGED <<wanted, status, socket, live, readyState, pairing,
                     stored, storeQ, saving, ready, identities, announced,
                     pending, running, origin, answers, outcome>>
  BY DEF SetActiveTerminal, Inv, QueueInv, store, agent, work
<1>2. TypeOK'
  BY <1>1 DEF Inv, TypeOK
<1>3. SocketInv'
  BY <1>1, KeepingSocket DEF Inv, SocketInv
<1>4. QueueInv'
  BY <1>1 DEF Inv, QueueInv, AwaitsSave
<1>5. WorkInv'
  BY <1>1, KeepingSocket
<1> QED BY <1>2, <1>3, <1>4, <1>5 DEF Inv

(* setActive(true).                                                        *)
LEMMA ActivateKeepsInv ==
  ASSUME Inv, Activate
  PROVE  Inv'
<1>1. /\ active' = TRUE /\ retry' = FALSE
      /\ status \in {"connecting", "reconnecting", "connected"}
      /\ UNCHANGED <<wanted, socket, live, readyState, pairing,
                     stored, saving, ready, identities, announced,
                     pending, running, origin, answers, outcome>>
  BY DEF Activate, Inv, TypeOK, Statuses, agent, work
<1>2. CASE socket # None
  <2>1. UNCHANGED <<status, storeQ>>
    BY <1>2 DEF Activate
  <2>2. TypeOK'
    BY <1>1, <2>1 DEF Inv, TypeOK
  <2>3. SocketInv'
    BY <1>1, <2>1, KeepingSocket DEF Inv, SocketInv
  <2>4. QueueInv'
    BY <1>1, <2>1 DEF Inv, QueueInv, AwaitsSave
  <2>5. WorkInv'
    BY <1>1, <2>1, KeepingSocket
  <2> QED BY <2>2, <2>3, <2>4, <2>5 DEF Inv
<1>3. CASE socket = None
  <2>1. status' = "reconnecting" /\ storeQ' = Opened(storeQ, wanted)
    BY <1>3 DEF Activate
  <2>2. status # "connected"
    BY <1>3 DEF Inv, SocketInv
  <2>3. QueueOK(storeQ') /\ (HasSave(storeQ') <=> HasSave(storeQ))
    BY <2>1, OpenedFacts DEF Inv, QueueInv, TypeOK
  <2>4. TypeOK'
    BY <1>1, <2>1 DEF Inv, TypeOK, Statuses
  <2>5. SocketInv'
    BY <1>1, <2>1, <2>2, KeepingSocket DEF Inv, SocketInv
  <2>6. QueueInv'
    BY <1>1, <1>3, <2>1, <2>3 DEF Inv, QueueInv
  <2>7. WorkInv'
    BY <1>1, <2>1, <2>2, KeepingSocket
  <2> QED BY <2>4, <2>5, <2>6, <2>7 DEF Inv
<1> QED BY <1>2, <1>3
(* Requests that are offered are run once.                                 *)
LEMMA StartedFacts ==
  ASSUME TypeOK, Untouched, NEW keys \in SUBSET Requests, NEW isReady \in BOOLEAN
  PROVE  LET now == Started(Startable(keys, isReady)) IN
         /\ now \in [Requests -> Nat]
         /\ \A k \in Requests :
              /\ now[k] \in {0, 1}
              /\ k \in keys /\ (isReady \/ k \in EarlyRequests) => now[k] = 1
              /\ running[k] = 1 => now[k] = 1
              /\ k \notin keys => now[k] = running[k]
<1> DEFINE now == Started(Startable(keys, isReady))
<1>1. \A k \in Requests :
        now[k] = running[k] + IF k \in Startable(keys, isReady) THEN 1 ELSE 0
  BY DEF Started
<1>2. \A k \in Requests :
        k \in Startable(keys, isReady) <=>
          k \in keys /\ running[k] = 0 /\ (isReady \/ k \in EarlyRequests)
  BY DEF Startable
<1>3. \A k \in Requests : running[k] \in {0, 1}
  BY DEF Untouched
<1>4. now \in [Requests -> Nat]
  BY <1>3 DEF Started
<1> HIDE DEF now
<1>5. ASSUME NEW k \in Requests
      PROVE  /\ now[k] \in {0, 1}
             /\ k \in keys /\ (isReady \/ k \in EarlyRequests) => now[k] = 1
             /\ running[k] = 1 => now[k] = 1
             /\ k \notin keys => now[k] = running[k]
  BY <1>1, <1>2, <1>3
<1> QED BY <1>4, <1>5 DEF now

(* setReady: the buffered requests start, each once.                       *)
LEMMA SetReadyKeepsInv ==
  ASSUME Inv, NEW on \in BOOLEAN, SetReady(on)
  PROVE  Inv'
<1>1. /\ ready' = on
      /\ UNCHANGED <<wanted, active, status, socket, live, readyState, pairing, retry,
                     stored, storeQ, saving, identities, pending, origin, answers, outcome>>
  BY DEF SetReady, connection, store
<1>2. QueueInv'
  BY <1>1 DEF Inv, QueueInv, AwaitsSave
<1>3. CASE ~(status = "connected" /\ readyState = "open")
  <2>1. UNCHANGED <<announced, running>>
    BY <1>3 DEF SetReady
  <2>2. TypeOK'
    BY <1>1, <2>1 DEF Inv, TypeOK
  <2>3. SocketInv'
    BY <1>1, <1>3, <2>1 DEF Inv, SocketInv, NoLeakedSocket, AnnouncedIsCurrent
  <2>4. WorkInv'
    BY <1>1, <1>3, <2>1 DEF Inv, WorkInv, Untouched, PendingIsServed
  <2> QED BY <1>2, <2>2, <2>3, <2>4 DEF Inv
<1>4. CASE status = "connected" /\ readyState = "open"
  <2>1. announced = [ready |-> ready, identities |-> identities]
    BY <1>4 DEF Inv, SocketInv, AnnouncedIsCurrent
  <2>2. announced' = [ready |-> on, identities |-> identities]
    BY <1>4, <2>1 DEF SetReady
  <2>3. /\ pending \in SUBSET Requests
        /\ \A k \in Requests : running[k] \in {0, 1}
    BY DEF Inv, TypeOK, WorkInv, Untouched
  <2>4. /\ running' \in [Requests -> Nat]
        /\ \A k \in Requests :
             /\ running'[k] \in {0, 1}
             /\ on /\ k \in pending => running'[k] = 1
             /\ running[k] = 1 => running'[k] = 1
             /\ k \notin pending => running'[k] = running[k]
    <3>1. CASE on
      <4>1. running' = Started(Startable(pending, TRUE))
        BY <1>4, <3>1 DEF SetReady
      <4> QED BY <2>3, <4>1, StartedFacts DEF Inv, WorkInv
    <3>2. CASE ~on
      <4>1. running' = running
        BY <1>4, <3>2 DEF SetReady
      <4> QED BY <2>3, <3>2, <4>1 DEF Inv, TypeOK
    <3> QED BY <3>1, <3>2
  <2>5. TypeOK'
    BY <1>1, <2>2, <2>4 DEF Inv, TypeOK
  <2>6. SocketInv'
    BY <1>1, <2>2 DEF Inv, TypeOK, SocketInv, NoLeakedSocket, AnnouncedIsCurrent
  <2>7. Untouched'
    <3>1. \A k \in pending : origin[k] # None
      BY <1>4 DEF Inv, WorkInv, PendingIsServed, SocketInv
    <3> QED BY <1>1, <2>4, <3>1 DEF Inv, WorkInv, Untouched
  <2>8. PendingIsServed'
    BY <1>1, <2>2, <2>3, <2>4 DEF Inv, WorkInv, PendingIsServed
  <2>9. WorkInv'
    BY <1>1, <2>7, <2>8 DEF Inv, WorkInv
  <2> QED BY <1>2, <2>5, <2>6, <2>9 DEF Inv
<1> QED BY <1>3, <1>4

(* setIdentities.                                                          *)
LEMMA SetIdentitiesKeepsInv ==
  ASSUME Inv, NEW list \in Lists, SetIdentities(list)
  PROVE  Inv'
<1>1. /\ identities' = list
      /\ UNCHANGED <<wanted, active, status, socket, live, readyState, pairing, retry,
                     stored, storeQ, saving, ready,
                     pending, running, origin, answers, outcome>>
  BY DEF SetIdentities, connection, store, work
<1>2. QueueInv'
  BY <1>1 DEF Inv, QueueInv, AwaitsSave
<1>3. CASE ~(status = "connected" /\ readyState = "open")
  <2>1. UNCHANGED announced
    BY <1>3 DEF SetIdentities
  <2>2. TypeOK'
    BY <1>1, <2>1 DEF Inv, TypeOK
  <2>3. SocketInv'
    BY <1>1, <1>3, <2>1 DEF Inv, SocketInv, NoLeakedSocket, AnnouncedIsCurrent
  <2>4. WorkInv'
    BY <1>1, <2>1 DEF Inv, WorkInv, Untouched, PendingIsServed
  <2> QED BY <1>2, <2>2, <2>3, <2>4 DEF Inv
<1>4. CASE status = "connected" /\ readyState = "open"
  <2>1. announced = [ready |-> ready, identities |-> identities]
    BY <1>4 DEF Inv, SocketInv, AnnouncedIsCurrent
  <2>2. announced' = [ready |-> ready, identities |-> list]
    BY <1>4, <2>1 DEF SetIdentities
  <2>3. TypeOK'
    BY <1>1, <2>2 DEF Inv, TypeOK
  <2>4. SocketInv'
    BY <1>1, <2>2 DEF Inv, TypeOK, SocketInv, NoLeakedSocket, AnnouncedIsCurrent
  <2>5. WorkInv'
    BY <1>1, <2>1, <2>2 DEF Inv, WorkInv, Untouched, PendingIsServed
  <2> QED BY <1>2, <2>3, <2>4, <2>5 DEF Inv
<1> QED BY <1>3, <1>4
-----------------------------------------------------------------------------
(* The pairing store answers. *)

(* The credential was loaded: a socket opens, if the load is current.      *)
LEMMA LoadedKeepsInv ==
  ASSUME Inv, Loaded
  PROVE  Inv'
<1> DEFINE opens == Head(storeQ).current /\ active /\ socket = None
<1>1. /\ storeQ # << >> /\ Head(storeQ).op = "load" /\ storeQ' = Tail(storeQ)
      /\ UNCHANGED <<wanted, active, status, retry, stored, saving, ready, identities, announced,
                     pending, running, origin, answers, outcome>>
  BY DEF Loaded, agent, work
<1>2. QueueOK(storeQ)
  BY DEF Inv, QueueInv
<1>3. socket = None
  BY <1>1, <1>2, TailFacts DEF Inv, QueueInv, AwaitsSave
<1>4. /\ status # "connected"
      /\ pending = {}
      /\ saving' # None <=> HasSave(storeQ')
      /\ QueueOK(storeQ')
      /\ Settled(storeQ) => Settled(storeQ')
  BY <1>1, <1>2, <1>3, TailFacts DEF Inv, SocketInv, QueueInv, WorkInv, PendingIsServed
<1>5. CASE opens
  <2>1. PICK s \in Sockets :
          /\ socket' = s
          /\ live' = live \cup {s}
          /\ readyState' = "connecting"
          /\ pairing' = stored
    BY <1>5 DEF Loaded
  <2>2. storeQ' = << >> /\ ~Settled(storeQ)
    <3>1. 1 \in 1..Len(storeQ) /\ Head(storeQ) = storeQ[1]
      BY <1>1, <1>2, EmptySeq DEF QueueOK
    <3> QED BY <1>1, <1>2, <1>5, <3>1, TailFacts DEF Settled, NoneCurrent
  <2>3. s # None
    BY NoneIsNoSocket
  <2>4. TypeOK'
    BY <1>1, <2>1 DEF Inv, TypeOK
  <2>5. SocketInv'
    BY <1>1, <1>3, <1>4, <1>5, <2>1, <2>3 DEF Inv, SocketInv, NoLeakedSocket, AnnouncedIsCurrent
  <2>6. QueueInv'
    BY <1>1, <1>4, <2>1, <2>2, <2>3, EmptyFacts DEF Inv, QueueInv
  <2>7. WorkInv'
    BY <1>1, <1>4 DEF Inv, WorkInv, Untouched, PendingIsServed
  <2> QED BY <2>4, <2>5, <2>6, <2>7 DEF Inv
<1>6. CASE ~opens
  <2>1. UNCHANGED <<socket, live, readyState, pairing>>
    BY <1>6 DEF Loaded
  <2>2. TypeOK'
    BY <1>1, <2>1 DEF Inv, TypeOK
  <2>3. SocketInv'
    BY <1>1, <2>1 DEF Inv, SocketInv, NoLeakedSocket, AnnouncedIsCurrent
  <2>4. QueueInv'
    BY <1>1, <1>3, <1>4, <2>1 DEF Inv, QueueInv
  <2>5. WorkInv'
    BY <1>1, <1>4 DEF Inv, WorkInv, Untouched, PendingIsServed
  <2> QED BY <2>2, <2>3, <2>4, <2>5 DEF Inv
<1> QED BY <1>5, <1>6

(* A load fails.                                                           *)
LEMMA LoadFailsKeepsInv ==
  ASSUME Inv, LoadFails
  PROVE  Inv'
<1>1. /\ storeQ # << >> /\ Head(storeQ).op = "load" /\ storeQ' = Tail(storeQ)
      /\ status' = IF Head(storeQ).current THEN "error" ELSE status
      /\ UNCHANGED <<wanted, active, socket, live, readyState, pairing, retry,
                     stored, saving, ready, identities, announced,
                     pending, running, origin, answers, outcome>>
  BY DEF LoadFails, agent, work
<1>2. QueueOK(storeQ)
  BY DEF Inv, QueueInv
<1>3. socket = None
  BY <1>1, <1>2, TailFacts DEF Inv, QueueInv, AwaitsSave
<1>4. /\ status # "connected"
      /\ saving' # None <=> HasSave(storeQ')
      /\ QueueOK(storeQ')
      /\ Settled(storeQ) => Settled(storeQ')
  BY <1>1, <1>2, <1>3, TailFacts DEF Inv, SocketInv, QueueInv
<1>5. Head(storeQ).current => Settled(storeQ') /\ ~retry
  <2>1. 1 \in 1..Len(storeQ) /\ Head(storeQ) = storeQ[1]
    BY <1>1, <1>2, EmptySeq DEF QueueOK
  <2>2. Head(storeQ).current => storeQ' = << >> /\ ~Settled(storeQ)
    BY <1>1, <1>2, <2>1, TailFacts DEF Settled, NoneCurrent
  <2> QED BY <2>2, EmptyFacts DEF Inv, QueueInv
<1>6. TypeOK'
  BY <1>1 DEF Inv, TypeOK, Statuses
<1>7. SocketInv'
  BY <1>1, <1>3, <1>4 DEF Inv, SocketInv, NoLeakedSocket, AnnouncedIsCurrent
<1>8. QueueInv'
  BY <1>1, <1>3, <1>4, <1>5 DEF Inv, QueueInv
<1>9. WorkInv'
  BY <1>1, <1>3, <1>4 DEF Inv, WorkInv, Untouched, PendingIsServed
<1> QED BY <1>6, <1>7, <1>8, <1>9 DEF Inv
(* #connected, after a handshake that leaves the credential stored.        *)
LEMMA ConnectedKeepsInv ==
  ASSUME Inv, socket # None, status \in {"connecting", "reconnecting"}, Connected,
         storeQ' = << >>, saving' = None,
         pairing' \in Credentials, stored' = pairing',
         UNCHANGED <<identities, running, origin, answers, outcome>>
  PROVE  Inv'
<1>1. pending = {} /\ ~retry
  BY QueueOfSocket DEF Inv, WorkInv, PendingIsServed
<1>2. CASE readyState = "open"
  <2>1. /\ status' = "connected"
        /\ announced' = [ready |-> ready, identities |-> identities]
        /\ UNCHANGED <<wanted, active, socket, live, readyState, retry, ready, pending>>
    BY <1>2 DEF Connected
  <2>2. TypeOK'
    BY <2>1 DEF Inv, TypeOK, Statuses
  <2>3. SocketInv'
    BY <1>2, <2>1, NoneIsNoCredential DEF Inv, TypeOK, SocketInv, NoLeakedSocket, AnnouncedIsCurrent
  <2>4. QueueInv'
    BY <1>1, <2>1, EmptyFacts DEF Inv, QueueInv
  <2>5. WorkInv'
    BY <1>1, <2>1 DEF Inv, WorkInv, Untouched, PendingIsServed
  <2> QED BY <2>2, <2>3, <2>4, <2>5 DEF Inv
<1>3. CASE readyState # "open"
  <2>1. GiveUp("reconnecting", TRUE) /\ "reconnecting" \in Statuses \ {"connected"}
    BY <1>3 DEF Connected, Statuses
  <2>2. retry' \in BOOLEAN /\ UNCHANGED <<wanted, active>>
    BY <1>3 DEF Connected
  <2>3. wanted' \in BOOLEAN /\ active' \in BOOLEAN /\ identities' \in Lists
    BY <2>2 DEF Inv, TypeOK
  <2> QED BY <2>1, <2>2, <2>3, EmptyFacts, GivingUp, WorkTypesHold
<1> QED BY <1>2, <1>3

(* A save that no longer concerns the current socket: there is none.       *)
LEMMA StaleSave ==
  ASSUME Inv, storeQ # << >>, Head(storeQ).op = "save", saving # socket
  PROVE  socket = None
BY DEF Inv, QueueInv, AwaitsSave

(* The credential was saved: the handshake completes, if it still waits.   *)
LEMMA SavedKeepsInv ==
  ASSUME Inv, Saved
  PROVE  Inv'
<1>1. /\ storeQ # << >> /\ Head(storeQ).op = "save" /\ storeQ' = Tail(storeQ)
      /\ stored' = Head(storeQ).id /\ saving' = None
      /\ UNCHANGED <<identities, running, origin, answers, outcome>>
  BY DEF Saved
<1>2. QueueOK(storeQ)
  BY DEF Inv, QueueInv
<1>3. /\ saving # None
      /\ stored' \in Credentials
      /\ QueueOK(storeQ')
      /\ ~HasSave(storeQ')
      /\ Settled(storeQ) => Settled(storeQ')
  BY <1>1, <1>2, TailFacts DEF Inv, QueueInv
<1>4. CASE saving = socket
  <2>1. AwaitsSave /\ socket # None
    BY <1>3, <1>4, QueueOfSocket
  <2>2. storeQ' = << >>
    BY <1>1, <1>2, <2>1, TailFacts DEF AwaitsSave
  <2>3. Connected /\ pairing' = Head(storeQ).id
    BY <1>4 DEF Saved
  <2> QED BY <1>1, <1>3, <2>1, <2>2, <2>3, ConnectedKeepsInv DEF AwaitsSave
<1>5. CASE saving # socket
  <2>1. /\ socket = None
        /\ UNCHANGED <<wanted, active, status, socket, live, readyState, pairing, retry,
                       ready, announced, pending>>
    BY <1>1, <1>5, StaleSave DEF Saved, connection
  <2>2. status # "connected"
    BY <2>1 DEF Inv, SocketInv
  <2>3. TypeOK'
    BY <1>1, <1>3, <2>1 DEF Inv, TypeOK
  <2>4. SocketInv'
    BY <1>1, <2>1, <2>2 DEF Inv, SocketInv, NoLeakedSocket, AnnouncedIsCurrent
  <2>5. QueueInv'
    BY <1>1, <1>3, <2>1 DEF Inv, QueueInv
  <2>6. WorkInv'
    BY <1>1, <2>1 DEF Inv, WorkInv, Untouched, PendingIsServed
  <2> QED BY <2>3, <2>4, <2>5, <2>6 DEF Inv
<1> QED BY <1>4, <1>5

(* A save fails.                                                           *)
LEMMA SaveFailsKeepsInv ==
  ASSUME Inv, SaveFails
  PROVE  Inv'
<1>1. /\ storeQ # << >> /\ Head(storeQ).op = "save" /\ storeQ' = Tail(storeQ)
      /\ saving' = None
      /\ UNCHANGED <<stored, identities, running, origin, answers, outcome>>
  BY DEF SaveFails
<1>2. QueueOK(storeQ)
  BY DEF Inv, QueueInv
<1>3. /\ saving # None
      /\ QueueOK(storeQ')
      /\ ~HasSave(storeQ')
      /\ Settled(storeQ) => Settled(storeQ')
  BY <1>1, <1>2, TailFacts DEF Inv, QueueInv
<1>4. CASE saving = socket
  <2>1. /\ wanted' \in BOOLEAN /\ active' \in BOOLEAN
        /\ pairing' \in Credentials \cup {None}
        /\ stored' \in Credentials \cup {None}
        /\ identities' \in Lists
    BY <1>1, <1>4 DEF SaveFails, Inv, TypeOK
  <2>2. Settled(storeQ')
    BY <1>3, <1>4, QueueOfSocket
  <2>3. CASE readyState = "open"
    <3>1. GiveUp("error", status = "connected") /\ retry' = FALSE
      BY <1>4, <2>3 DEF SaveFails
    <3>2. "error" \in Statuses \ {"connected"}
      BY DEF Statuses
    <3> QED BY <1>1, <1>3, <2>1, <2>2, <3>1, <3>2, GivingUp, WorkTypesHold
  <2>4. CASE readyState # "open"
    <3>1. GiveUp("reconnecting", status = "connected") /\ retry' \in BOOLEAN
      BY <1>4, <2>4 DEF SaveFails
    <3>2. "reconnecting" \in Statuses \ {"connected"}
      BY DEF Statuses
    <3> QED BY <1>1, <1>3, <2>1, <2>2, <3>1, <3>2, GivingUp, WorkTypesHold
  <2> QED BY <2>3, <2>4
<1>5. CASE saving # socket
  <2>1. /\ socket = None
        /\ UNCHANGED <<wanted, active, status, socket, live, readyState, pairing, retry,
                       ready, announced, pending>>
    BY <1>1, <1>5, StaleSave DEF SaveFails, connection
  <2>2. status # "connected"
    BY <2>1 DEF Inv, SocketInv
  <2>3. TypeOK'
    BY <1>1, <2>1 DEF Inv, TypeOK
  <2>4. SocketInv'
    BY <1>1, <2>1, <2>2 DEF Inv, SocketInv, NoLeakedSocket, AnnouncedIsCurrent
  <2>5. QueueInv'
    BY <1>1, <1>3, <2>1 DEF Inv, QueueInv
  <2>6. WorkInv'
    BY <1>1, <2>1 DEF Inv, WorkInv, Untouched, PendingIsServed
  <2> QED BY <2>3, <2>4, <2>5, <2>6 DEF Inv
<1> QED BY <1>4, <1>5

(* A queue that holds a delete belongs to a session that has no socket,    *)
(* has no timer set and has not ended.                                     *)
LEMMA DeleteInQueue ==
  ASSUME Inv, storeQ # << >>, Head(storeQ).op = "delete"
  PROVE  /\ socket = None
         /\ ~retry
         /\ status \in {"connecting", "reconnecting"}
         /\ ~Settled(storeQ)
<1>1. 1 \in 1..Len(storeQ) /\ Head(storeQ) = storeQ[1]
  BY EmptySeq DEF Inv, QueueInv, QueueOK
<1>2. ~Settled(storeQ)
  BY <1>1 DEF Settled, NoDelete
<1> QED BY <1>1, <1>2 DEF Inv, QueueInv, AwaitsSave, SocketInv, TypeOK, Statuses

(* deletePairing completes, and the session may open again, or fails.      *)
LEMMA DeletedKeepsInv ==
  ASSUME Inv, Deleted \/ DeleteFails
  PROVE  Inv'
<1>1. /\ storeQ # << >> /\ Head(storeQ).op = "delete"
      /\ UNCHANGED <<wanted, active, status, socket, live, readyState, pairing, retry,
                     saving, ready, identities, announced,
                     pending, running, origin, answers, outcome>>
      /\ stored' \in {stored, None}
      /\ storeQ' \in {Tail(storeQ), Opened(Tail(storeQ), wanted /\ active /\ socket = None)}
  BY DEF Deleted, DeleteFails, connection, agent, work
<1>2. QueueOK(storeQ)
  BY DEF Inv, QueueInv
<1>3. QueueOK(Tail(storeQ)) /\ (HasSave(Tail(storeQ)) <=> HasSave(storeQ))
  BY <1>1, <1>2, TailFacts
<1>4. QueueOK(storeQ') /\ (HasSave(storeQ') <=> HasSave(storeQ))
  <2>1. CASE wanted /\ active /\ socket = None
    BY <1>1, <1>3, <2>1, OpenedFacts
  <2>2. CASE ~(wanted /\ active /\ socket = None)
    BY <1>1, <1>3, <2>2, OpenedFacts
  <2> QED BY <2>1, <2>2
<1>5. /\ socket = None /\ ~retry /\ status \in {"connecting", "reconnecting"}
  BY <1>1, DeleteInQueue
<1>6. TypeOK'
  BY <1>1 DEF Inv, TypeOK
<1>7. SocketInv'
  BY <1>1 DEF Inv, SocketInv, NoLeakedSocket, AnnouncedIsCurrent
<1>8. QueueInv'
  BY <1>1, <1>4, <1>5 DEF Inv, QueueInv
<1>9. WorkInv'
  BY <1>1 DEF Inv, WorkInv, Untouched, PendingIsServed
<1> QED BY <1>6, <1>7, <1>8, <1>9 DEF Inv
-----------------------------------------------------------------------------
(* Events of the current socket. *)

(* The socket opens or begins to close.                                    *)
LEMMA SocketMovesKeepsInv ==
  ASSUME Inv, SocketOpens \/ SocketCloses
  PROVE  Inv'
<1>1. /\ socket # None
      /\ readyState' \in {"open", "closing"}
      /\ readyState' = "open" => readyState = "connecting"
      /\ UNCHANGED <<wanted, active, status, socket, live, pairing, retry,
                     stored, storeQ, saving, ready, identities, announced,
                     pending, running, origin, answers, outcome>>
  BY DEF SocketOpens, SocketCloses, Inv, SocketInv, store, agent, work
<1>2. status = "connected" => readyState' = "closing"
  BY <1>1 DEF Inv, SocketInv
<1>3. TypeOK'
  BY <1>1 DEF Inv, TypeOK
<1>4. SocketInv'
  BY <1>1, <1>2 DEF Inv, SocketInv, NoLeakedSocket, AnnouncedIsCurrent
<1>5. QueueInv'
  BY <1>1 DEF Inv, QueueInv, AwaitsSave
<1>6. WorkInv'
  BY <1>1, <1>2 DEF Inv, WorkInv, Untouched, PendingIsServed
<1> QED BY <1>3, <1>4, <1>5, <1>6 DEF Inv

(* The socket closes.                                                      *)
LEMMA SocketLostKeepsInv ==
  ASSUME Inv, SocketLost
  PROVE  Inv'
BY LosingSocket, WorkTypesHold DEF SocketLost

(* The retry timer fires: another load.                                    *)
LEMMA RetryFiresKeepsInv ==
  ASSUME Inv, RetryFires
  PROVE  Inv'
<1>1. /\ retry /\ retry' = FALSE
      /\ storeQ' = Opened(storeQ, active /\ wanted /\ socket = None)
      /\ UNCHANGED <<wanted, active, status, socket, live, readyState, pairing,
                     stored, saving, ready, identities, announced,
                     pending, running, origin, answers, outcome>>
  BY DEF RetryFires, agent, work
<1>2. socket = None /\ status \in {"connecting", "reconnecting"}
  BY <1>1 DEF Inv, QueueInv, SocketInv, TypeOK, Statuses
<1>3. QueueOK(storeQ') /\ (HasSave(storeQ') <=> HasSave(storeQ))
  <2>1. CASE active /\ wanted /\ socket = None
    BY <1>1, <2>1, OpenedFacts DEF Inv, QueueInv
  <2>2. CASE ~(active /\ wanted /\ socket = None)
    BY <1>1, <2>2, OpenedFacts DEF Inv, QueueInv
  <2> QED BY <2>1, <2>2
<1>4. TypeOK'
  BY <1>1 DEF Inv, TypeOK
<1>5. SocketInv'
  BY <1>1 DEF Inv, SocketInv, NoLeakedSocket, AnnouncedIsCurrent
<1>6. QueueInv'
  BY <1>1, <1>2, <1>3 DEF Inv, QueueInv
<1>7. WorkInv'
  BY <1>1 DEF Inv, WorkInv, Untouched, PendingIsServed
<1> QED BY <1>4, <1>5, <1>6, <1>7 DEF Inv

(* The server rejects the session.                                         *)
LEMMA ReceiveRejectedKeepsInv ==
  ASSUME Inv, ReceiveRejected
  PROVE  Inv'
BY LosingSocket, WorkTypesHold DEF ReceiveRejected, Handshaking, Receives

(* A message that does not fit the state.                                  *)
LEMMA ReceiveUnexpectedKeepsInv ==
  ASSUME Inv, ReceiveUnexpected
  PROVE  Inv'
BY Failing, WorkTypesHold DEF ReceiveUnexpected, Receives

(* Paired: the new credential is saved before the session is connected.    *)
LEMMA ReceivePairedKeepsInv ==
  ASSUME Inv, NEW c \in Credentials, ReceivePaired(c)
  PROVE  Inv'
<1>1. /\ socket # None /\ saving = None /\ pairing = None
      /\ status \in {"connecting", "reconnecting"}
      /\ storeQ' = Append(storeQ, Save(c)) /\ saving' = socket
      /\ UNCHANGED <<wanted, active, status, socket, live, readyState, pairing, retry,
                     stored, ready, identities, announced,
                     pending, running, origin, answers, outcome>>
  BY DEF ReceivePaired, Handshaking, Receives, connection, agent, work
<1>2. storeQ = << >>
  BY <1>1 DEF Inv, QueueInv, AwaitsSave
<1>3. Save(c) \in StoreOps /\ Save(c).op = "save" /\ ~Save(c).current /\ Save(c).id = c
  BY DEF Save, StoreOps
<1>4. NoneCurrent(storeQ) /\ QueueOK(storeQ) /\ ~HasSave(storeQ)
  BY <1>2, EmptyFacts DEF Settled
<1>5. QueueOK(storeQ') /\ Len(storeQ') = 1 /\ HasSave(storeQ')
  <2>1. Len(storeQ) = 0
    BY <1>2
  <2>2. /\ QueueOK(Append(storeQ, Save(c)))
        /\ Len(Append(storeQ, Save(c))) = Len(storeQ) + 1
        /\ HasSave(Append(storeQ, Save(c)))
    BY <1>3, <1>4, AppendFacts
  <2> QED BY <1>1, <2>1, <2>2
<1>6. storeQ'[1].op = "save"
  BY <1>5 DEF HasSave
<1>7. ~retry
  BY <1>1, QueueOfSocket
<1>8. TypeOK'
  BY <1>1 DEF Inv, TypeOK
<1>9. SocketInv'
  BY <1>1 DEF Inv, SocketInv, NoLeakedSocket, AnnouncedIsCurrent
<1>10. QueueInv'
  BY <1>1, <1>5, <1>6, <1>7 DEF Inv, QueueInv, AwaitsSave
<1>11. WorkInv'
  BY <1>1 DEF Inv, WorkInv, Untouched, PendingIsServed
<1> QED BY <1>8, <1>9, <1>10, <1>11 DEF Inv

(* Authenticated: the session is connected.                                *)
LEMMA ReceiveAuthenticatedKeepsInv ==
  ASSUME Inv, ReceiveAuthenticated
  PROVE  Inv'
<1>1. /\ socket # None /\ saving = None /\ pairing # None
      /\ status \in {"connecting", "reconnecting"}
      /\ Connected
      /\ UNCHANGED <<pairing, stored, storeQ, saving,
                     identities, running, origin, answers, outcome>>
  BY DEF ReceiveAuthenticated, Handshaking, Receives, store
<1>2. storeQ = << >> /\ pairing = stored /\ pairing \in Credentials
  BY <1>1 DEF Inv, QueueInv, AwaitsSave, TypeOK
<1> QED BY <1>1, <1>2, ConnectedKeepsInv

(* A request is buffered, and runs if the session is ready.                *)
LEMMA ReceiveRequestKeepsInv ==
  ASSUME Inv, NEW k \in Requests, ReceiveRequest(k)
  PROVE  Inv'
<1>1. /\ socket # None /\ status = "connected" /\ origin[k] = None
      /\ origin' = [origin EXCEPT ![k] = socket]
      /\ UNCHANGED <<stored, saving, identities, answers, outcome>>
  BY DEF ReceiveRequest, Receives
<1>2. /\ origin' \in [Requests -> Sockets \cup {None}]
      /\ origin'[k] = socket
      /\ \A j \in Requests : j # k => origin'[j] = origin[j]
  BY <1>1 DEF Inv, TypeOK
<1>3. running[k] = 0 /\ answers[k] = 0 /\ outcome[k] = "open" /\ k \notin pending
  BY <1>1 DEF Inv, WorkInv, Untouched, PendingIsServed
<1>4. CASE /\ Fail
           /\ UNCHANGED running
  <2>1. WorkTypes'
    BY <1>1, <1>2, <1>4 DEF Inv, TypeOK, WorkInv, WorkTypes, Untouched
  <2> QED BY <1>1, <1>4, <2>1, Failing
<1>5. CASE /\ pending' = pending \cup {k}
           /\ running' = Started(Startable({k}, ready))
           /\ UNCHANGED <<connection, storeQ, ready, announced>>
  <2>1. UNCHANGED <<wanted, active, status, socket, live, readyState, pairing, retry,
                    storeQ, ready, announced>>
    BY <1>5 DEF connection
  <2>2. {k} \in SUBSET Requests /\ ready \in BOOLEAN /\ TypeOK /\ Untouched
    BY DEF Inv, TypeOK, WorkInv
  <2>3. /\ running' \in [Requests -> Nat]
        /\ \A j \in Requests : running'[j] \in {0, 1}
        /\ \A j \in Requests : j # k => running'[j] = running[j]
        /\ ready \/ k \in EarlyRequests => running'[k] = 1
    BY <1>5, <2>2, StartedFacts
  <2>4. TypeOK'
    BY <1>1, <1>2, <1>5, <2>1, <2>3 DEF Inv, TypeOK
  <2>5. SocketInv'
    BY <1>1, <2>1 DEF Inv, SocketInv, NoLeakedSocket, AnnouncedIsCurrent
  <2>6. QueueInv'
    BY <1>1, <2>1 DEF Inv, QueueInv, AwaitsSave
  <2>7. Untouched'
    BY <1>1, <1>2, <2>1, <2>3 DEF Untouched, Inv, WorkInv
  <2>8. PendingIsServed'
    <3>1. readyState = "open" => announced.ready = ready
      BY <1>1 DEF Inv, SocketInv, AnnouncedIsCurrent
    <3>2. ASSUME NEW j \in pending'
          PROVE  /\ status' = "connected"
                 /\ origin'[j] = socket'
                 /\ (readyState' = "open" /\ announced'.ready) => running'[j] = 1
                 /\ j \in EarlyRequests => running'[j] = 1
      <4>1. CASE j = k
        BY <1>1, <1>2, <2>1, <2>3, <3>1, <4>1
      <4>2. CASE j # k
        <5>1. j \in pending /\ j \in Requests
          BY <1>5, <4>2 DEF Inv, TypeOK
        <5> QED BY <1>1, <1>2, <2>1, <2>3, <4>2, <5>1 DEF Inv, WorkInv, PendingIsServed
      <4> QED BY <4>1, <4>2
    <3> QED BY <3>2 DEF PendingIsServed
  <2>9. WorkInv'
    BY <1>1, <1>3, <1>5, <2>7, <2>8 DEF Inv, WorkInv
  <2> QED BY <2>4, <2>5, <2>6, <2>9 DEF Inv
<1> QED BY <1>4, <1>5 DEF ReceiveRequest

(* A request is cancelled.                                                 *)
LEMMA ReceiveCancelKeepsInv ==
  ASSUME Inv, NEW k \in Requests, ReceiveCancel(k)
  PROVE  Inv'
<1>1. /\ k \in pending /\ pending' = pending \ {k}
      /\ outcome' = [outcome EXCEPT ![k] = "canceled"]
      /\ UNCHANGED <<wanted, active, status, socket, live, readyState, pairing, retry,
                     stored, storeQ, saving, ready, identities, announced,
                     running, origin, answers>>
  BY DEF ReceiveCancel, connection, store, agent
<1>2. /\ outcome' \in [Requests -> {"open", "signed", "canceled"}]
      /\ \A j \in Requests : j # k => outcome'[j] = outcome[j]
  BY <1>1 DEF Inv, TypeOK
<1>3. origin[k] # None
  BY <1>1 DEF Inv, WorkInv, PendingIsServed, SocketInv
<1>4. TypeOK'
  BY <1>1, <1>2 DEF Inv, TypeOK
<1>5. SocketInv'
  BY <1>1 DEF Inv, SocketInv, NoLeakedSocket, AnnouncedIsCurrent
<1>6. QueueInv'
  BY <1>1 DEF Inv, QueueInv, AwaitsSave
<1>7. WorkInv'
  BY <1>1, <1>2, <1>3 DEF Inv, TypeOK, WorkInv, Untouched, PendingIsServed
<1> QED BY <1>4, <1>5, <1>6, <1>7 DEF Inv
-----------------------------------------------------------------------------
(* The agent answers. *)

(* A call of handleRequest ends.                                           *)
LEMMA RunEnds ==
  ASSUME Inv, NEW k \in Requests, running[k] > 0,
         running' = [running EXCEPT ![k] = @ - 1]
  PROVE  /\ running' \in [Requests -> Nat]
         /\ running[k] = 1 /\ running'[k] = 0
         /\ \A j \in Requests : j # k => running'[j] = running[j]
         /\ origin[k] # None
         /\ UNCHANGED <<origin, answers, outcome>> => WorkTypes'
<1>1. running[k] = 1 /\ origin[k] # None
  BY DEF Inv, WorkInv, Untouched
<1>2. /\ running' \in [Requests -> Nat]
      /\ running'[k] = 0
      /\ \A j \in Requests : j # k => running'[j] = running[j]
  BY <1>1 DEF Inv, TypeOK
<1>3. UNCHANGED <<origin, answers, outcome>> => WorkTypes'
  BY <1>1, <1>2 DEF Inv, TypeOK, WorkInv, WorkTypes, Untouched
<1> QED BY <1>1, <1>2, <1>3

(* Its answer is dropped: the request is no longer buffered.               *)
LEMMA AnswerDropped ==
  ASSUME Inv, NEW k \in Requests, running[k] > 0, k \notin pending,
         running' = [running EXCEPT ![k] = @ - 1],
         UNCHANGED <<connection, storeQ, ready, announced, pending,
                     stored, saving, identities, origin, answers, outcome>>
  PROVE  Inv'
<1>1. UNCHANGED <<wanted, active, status, socket, live, readyState, pairing, retry>>
  BY DEF connection
<1>2. TypeOK'
  BY <1>1, RunEnds DEF Inv, TypeOK
<1>3. SocketInv'
  BY <1>1 DEF Inv, SocketInv, NoLeakedSocket, AnnouncedIsCurrent
<1>4. QueueInv'
  BY <1>1 DEF Inv, QueueInv, AwaitsSave
<1>5. WorkInv'
  <2>1. \A j \in pending : running'[j] = running[j] /\ j \in Requests
    BY RunEnds DEF Inv, TypeOK
  <2>2. Untouched'
    BY RunEnds DEF WorkTypes
  <2> QED BY <1>1, <2>1, <2>2 DEF Inv, WorkInv, PendingIsServed
<1> QED BY <1>2, <1>3, <1>4, <1>5 DEF Inv

(* handleRequest resolves.                                                 *)
LEMMA HandledKeepsInv ==
  ASSUME Inv, NEW k \in Requests, Handled(k)
  PROVE  Inv'
<1>1. /\ running[k] > 0 /\ running' = [running EXCEPT ![k] = @ - 1]
      /\ UNCHANGED <<stored, saving, identities, origin>>
  BY DEF Handled
<1>2. CASE ~(origin[k] = socket /\ k \in pending)
  <2>1. k \notin pending
    BY <1>2 DEF Inv, WorkInv, PendingIsServed
  <2> QED BY <1>1, <1>2, <2>1, AnswerDropped DEF Handled
<1>3. CASE origin[k] = socket /\ k \in pending /\ readyState # "open"
  <2>1. socket # None
    BY <1>1, <1>3, RunEnds
  <2>2. ConnectionLost /\ UNCHANGED <<answers, outcome>>
    BY <1>3 DEF Handled
  <2> QED BY <1>1, <2>1, <2>2, RunEnds, LosingSocket
<1>4. CASE origin[k] = socket /\ k \in pending /\ readyState = "open"
  <2>1. /\ answers' = [answers EXCEPT ![k] = @ + 1]
        /\ outcome' = [outcome EXCEPT ![k] = "signed"]
        /\ pending' = pending \ {k}
        /\ UNCHANGED <<wanted, active, status, socket, live, readyState, pairing, retry,
                       storeQ, ready, announced>>
    BY <1>4 DEF Handled, connection
  <2>2. /\ answers' \in [Requests -> Nat]
        /\ outcome' \in [Requests -> {"open", "signed", "canceled"}]
        /\ \A j \in Requests : j # k => answers'[j] = answers[j] /\ outcome'[j] = outcome[j]
    BY <2>1 DEF Inv, TypeOK
  <2>3. TypeOK'
    BY <1>1, <2>1, <2>2, RunEnds DEF Inv, TypeOK
  <2>4. SocketInv'
    BY <1>1, <2>1 DEF Inv, SocketInv, NoLeakedSocket, AnnouncedIsCurrent
  <2>5. QueueInv'
    BY <1>1, <2>1 DEF Inv, QueueInv, AwaitsSave
  <2>6. WorkInv'
    <3>1. \A j \in pending' : j # k /\ j \in pending /\ j \in Requests
      BY <2>1 DEF Inv, TypeOK
    <3>2. Untouched'
      BY <1>1, <2>2, RunEnds DEF Inv, WorkInv, Untouched
    <3>3. \A j \in pending' : running'[j] = running[j]
      BY <1>1, <3>1, RunEnds
    <3>4. PendingIsServed'
      BY <1>1, <2>1, <3>1, <3>3 DEF Inv, WorkInv, PendingIsServed
    <3> QED BY <2>2, <3>1, <3>2, <3>4 DEF Inv, WorkInv
  <2> QED BY <2>3, <2>4, <2>5, <2>6 DEF Inv
<1> QED BY <1>2, <1>3, <1>4

(* handleRequest rejects.                                                  *)
LEMMA HandlerFailsKeepsInv ==
  ASSUME Inv, NEW k \in Requests, HandlerFails(k)
  PROVE  Inv'
<1>1. /\ running[k] > 0 /\ running' = [running EXCEPT ![k] = @ - 1]
      /\ UNCHANGED <<stored, saving, identities, origin, answers, outcome>>
  BY DEF HandlerFails
<1>2. CASE origin[k] # socket
  <2>1. k \notin pending
    BY <1>2 DEF Inv, WorkInv, PendingIsServed
  <2> QED BY <1>1, <1>2, <2>1, AnswerDropped DEF HandlerFails
<1>3. CASE origin[k] = socket
  <2>1. socket # None
    BY <1>1, <1>3, RunEnds
  <2> QED BY <1>1, <1>3, <2>1, RunEnds, Failing DEF HandlerFails
<1> QED BY <1>2, <1>3
-----------------------------------------------------------------------------
(* The invariant holds. *)

(* One action after the other.                                             *)
LEMMA InvStep ==
  ASSUME Inv, [ClientNext]_clientVars
  PROVE  Inv'
<1>1. CASE PageCalls
  BY <1>1, ConnectKeepsInv, SetActiveTerminalKeepsInv, SetReadyKeepsInv, DeactivateKeepsInv,
     ActivateKeepsInv, ForgetPairingKeepsInv, SetIdentitiesKeepsInv DEF PageCalls
<1>2. CASE StoreAnswers \/ StoreRefuses
  BY <1>2, LoadedKeepsInv, SavedKeepsInv, DeletedKeepsInv, LoadFailsKeepsInv, SaveFailsKeepsInv
  DEF StoreAnswers, StoreRefuses
<1>3. CASE SocketOpens \/ SocketGoes \/ RetryFires
  BY <1>3, SocketMovesKeepsInv, SocketLostKeepsInv, RetryFiresKeepsInv DEF SocketGoes
<1>4. CASE Handshake \/ ReceiveUnexpected
  BY <1>4, ReceiveRejectedKeepsInv, ReceivePairedKeepsInv, ReceiveAuthenticatedKeepsInv,
     ReceiveUnexpectedKeepsInv DEF Handshake
<1>5. ASSUME NEW k \in Requests,
             ReceiveRequest(k) \/ ReceiveCancel(k) \/ Handled(k) \/ HandlerFails(k)
      PROVE  Inv'
  BY <1>5, ReceiveRequestKeepsInv, ReceiveCancelKeepsInv, HandledKeepsInv, HandlerFailsKeepsInv
<1>6. CASE UNCHANGED clientVars
  <2>1. UNCHANGED <<wanted, active, status, socket, live, readyState, pairing, retry,
                    stored, storeQ, saving, ready, identities, announced,
                    pending, running, origin, answers, outcome>>
    BY <1>6 DEF clientVars, connection, store, agent, work
  <2>2. TypeOK' /\ QueueInv'
    BY <2>1 DEF Inv, TypeOK, QueueInv, AwaitsSave
  <2>3. SocketInv' /\ WorkInv'
    BY <2>1 DEF Inv, SocketInv, NoLeakedSocket, AnnouncedIsCurrent, WorkInv, Untouched,
       PendingIsServed
  <2> QED BY <2>2, <2>3 DEF Inv
<1> QED BY <1>1, <1>2, <1>3, <1>4, <1>5, <1>6 DEF ClientNext

(* The invariant that the theorems below are read off: every variable has  *)
(* its type, a current load is the last store operation, a socket exists   *)
(* only beside an empty queue or the save it waits for, and a request      *)
(* leaves a trace only on the socket that delivered it.                    *)
THEOREM InvHolds == ClientSpec => []Inv
BY InvInit, InvStep, PTL DEF ClientSpec

(* Every WebSocket but the current one is closed, and an inactive session  *)
(* has none, however connect, setActive, forgetPairing, retries and loads  *)
(* from the store overlap.                                                 *)
THEOREM NoSocketLeaks == ClientSpec => []NoLeakedSocket
BY InvHolds, PTL DEF Inv, SocketInv

(* A connected session holds the credential that is in IndexedDB, though   *)
(* saves and deletions of earlier sockets may complete at any time.        *)
THEOREM ConnectedCredentialIsStored == ClientSpec => []ConnectedIsStored
<1>1. Inv => ConnectedIsStored
  BY DEF Inv, SocketInv, QueueInv, ConnectedIsStored
<1> QED BY <1>1, InvHolds, PTL

(* On an open connection the server was told the latest readiness and      *)
(* identities, in whatever order setReady, setIdentities and the handshake *)
(* came.                                                                   *)
THEOREM AnnouncementsAreCurrent == ClientSpec => []AnnouncedIsCurrent
BY InvHolds, PTL DEF Inv, SocketInv

(* The buffered requests came over the current connection, and each that   *)
(* may be processed is being processed, once.                              *)
THEOREM BufferedRequestsAreServed == ClientSpec => []PendingIsServed
BY InvHolds, PTL DEF Inv, WorkInv

(* Only Handled answers, and only a request that is live.                  *)
LEMMA AnswerStep ==
  ASSUME Inv, [ClientNext]_clientVars, NEW k \in Requests, answers'[k] # answers[k]
  PROVE  answers[k] = 0 /\ outcome[k] = "open" /\ origin[k] = socket /\ k \in pending
<1>1. CASE UNCHANGED answers
  BY <1>1
<1>2. ASSUME NEW j \in Requests, Handled(j)
      PROVE  answers[k] = 0 /\ outcome[k] = "open" /\ origin[k] = socket /\ k \in pending
  <2>1. CASE origin[j] = socket /\ j \in pending /\ readyState = "open"
    <3>1. j = k
      BY <1>2, <2>1 DEF Handled, Inv, TypeOK
    <3> QED BY <2>1, <3>1 DEF Inv, WorkInv
  <2>2. CASE ~(origin[j] = socket /\ j \in pending /\ readyState = "open")
    <3>1. UNCHANGED answers
      BY <1>2, <2>2 DEF Handled
    <3> QED BY <3>1
  <2> QED BY <2>1, <2>2
<1>3. CASE PageCalls
  BY <1>1, <1>3 DEF PageCalls, Connect, SetActiveTerminal, SetReady, Deactivate, Activate,
     ForgetPairing, SetIdentities, work
<1>4. CASE StoreAnswers \/ StoreRefuses
  BY <1>1, <1>4 DEF StoreAnswers, StoreRefuses, Loaded, Saved, Deleted, LoadFails, SaveFails,
     DeleteFails, work
<1>5. CASE SocketOpens \/ SocketGoes \/ RetryFires
  BY <1>1, <1>5 DEF SocketOpens, SocketGoes, SocketCloses, SocketLost, RetryFires, work
<1>6. CASE Handshake \/ ReceiveUnexpected
  BY <1>1, <1>6 DEF Handshake, ReceiveRejected, ReceivePaired, ReceiveAuthenticated,
     ReceiveUnexpected, work
<1>7. ASSUME NEW j \in Requests, ReceiveRequest(j) \/ ReceiveCancel(j) \/ HandlerFails(j)
      PROVE  UNCHANGED answers
  BY <1>7 DEF ReceiveRequest, ReceiveCancel, HandlerFails
<1>8. CASE UNCHANGED clientVars
  BY <1>1, <1>8 DEF clientVars, work
<1> QED BY <1>1, <1>2, <1>3, <1>4, <1>5, <1>6, <1>7, <1>8 DEF ClientNext

(* A request is answered at most once, on the socket it came over, while   *)
(* it is buffered: no answer follows a cancellation, an earlier answer or  *)
(* the loss of its connection, however late the agent settles.             *)
THEOREM AnswersAreLive == ClientSpec => AnswersLiveRequest
<1>1. Inv /\ [ClientNext]_clientVars =>
        [\A k \in Requests :
           answers'[k] # answers[k] =>
             /\ answers[k] = 0
             /\ outcome[k] = "open"
             /\ origin[k] = socket
             /\ k \in pending]_clientVars
  BY AnswerStep
<1> QED BY <1>1, InvHolds, PTL DEF ClientSpec, AnswersLiveRequest
-----------------------------------------------------------------------------
(* Nothing stalls. *)

(* The property, in the words of the queue's predicates.                   *)
LEMMA NoStallMeans ==
  NoStall <=>
    ((active /\ wanted /\ status \in {"connecting", "reconnecting"}) =>
       socket # None \/ retry \/ ~Settled(storeQ))
BY DEF NoStall, Settled, NoneCurrent, NoDelete

Waits == active /\ wanted /\ status \in {"connecting", "reconnecting"}

Moves == socket # None \/ retry \/ ~Settled(storeQ)

(* A session that is not wanted has nothing to wait for.                   *)
LEMMA StallInit == ClientInit => (Waits => Moves)
BY DEF ClientInit, Waits

(* A step that takes the last thing under way starts another.              *)
LEMMA StallStep ==
  ASSUME ~DeleteMayFail, Inv, Waits => Moves, [ClientNext]_clientVars
  PROVE  Waits' => Moves'
<1> SUFFICES ASSUME Waits' PROVE Moves'
  OBVIOUS
<1>1. /\ QueueOK(storeQ)
      /\ active' /\ wanted' /\ status' \in {"connecting", "reconnecting"}
  BY DEF Inv, QueueInv, Waits
<1>2. CASE UNCHANGED <<active, wanted, status, socket, retry, storeQ>>
  BY <1>2 DEF Waits, Moves
<1>3. ASSUME retry' PROVE Moves'
  BY <1>3 DEF Moves
<1>4. ASSUME storeQ' = Opened(storeQ, TRUE) PROVE Moves'
  BY <1>1, <1>4, OpenedFacts DEF Moves, Settled
<1>5. CASE PageCalls
  <2>1. CASE Connect
    BY <1>4, <2>1 DEF Connect
  <2>2. CASE \E on \in BOOLEAN : SetActiveTerminal(on)
    BY <1>1, <2>2 DEF SetActiveTerminal
  <2>3. CASE Deactivate
    BY <1>1, <2>3 DEF Deactivate
  <2>4. CASE Activate
    <3>1. CASE socket # None
      BY <2>4, <3>1 DEF Activate, Moves
    <3>2. CASE socket = None
      <4>1. storeQ' = Opened(storeQ, wanted) /\ wanted = TRUE
        BY <1>1, <2>4, <3>2 DEF Activate, Inv, TypeOK
      <4> QED BY <1>4, <4>1
    <3> QED BY <3>1, <3>2
  <2>5. CASE ForgetPairing
    <3>1. storeQ' = Append(Superseded(storeQ), Delete)
      BY <2>5 DEF ForgetPairing
    <3> QED BY <1>1, <3>1, ForgetFacts DEF Moves, Settled
  <2>6. CASE \/ \E on \in BOOLEAN : SetReady(on)
             \/ \E list \in Lists : SetIdentities(list)
    BY <1>2, <2>6 DEF SetReady, SetIdentities, connection, store
  <2> QED BY <1>5, <2>1, <2>2, <2>3, <2>4, <2>5, <2>6 DEF PageCalls
<1>6. CASE Loaded
  <2>1. CASE Head(storeQ).current /\ active /\ socket = None
    BY <1>6, <2>1, NoneIsNoSocket DEF Loaded, Moves
  <2>2. CASE ~(Head(storeQ).current /\ active /\ socket = None)
    <3>1. /\ storeQ # << >> /\ Head(storeQ).op = "load" /\ storeQ' = Tail(storeQ)
          /\ UNCHANGED <<active, wanted, status, socket, retry>>
      BY <1>6, <2>2 DEF Loaded
    <3>2. CASE Head(storeQ).current
      BY <1>1, <2>2, <3>1, <3>2 DEF Moves
    <3>3. CASE ~Head(storeQ).current
      BY <1>1, <3>1, <3>3, TailFacts DEF Moves, Waits
    <3> QED BY <3>2, <3>3
  <2> QED BY <2>1, <2>2
<1>7. CASE LoadFails
  <2>1. /\ storeQ # << >> /\ Head(storeQ).op = "load" /\ storeQ' = Tail(storeQ)
        /\ status' = IF Head(storeQ).current THEN "error" ELSE status
        /\ UNCHANGED <<active, wanted, socket, retry>>
    BY <1>7 DEF LoadFails
  <2>2. ~Head(storeQ).current /\ status' = status
    BY <1>1, <2>1
  <2> QED BY <1>1, <2>1, <2>2, TailFacts DEF Moves, Waits
<1>8. CASE Saved \/ SaveFails
  <2>1. /\ storeQ # << >> /\ Head(storeQ).op = "save" /\ storeQ' = Tail(storeQ)
    BY <1>8 DEF Saved, SaveFails
  <2>2. CASE saving = socket
    <3>1. CASE Saved
      BY <1>1, <1>3, <2>2, <3>1 DEF Saved, Connected
    <3>2. CASE SaveFails
      BY <1>1, <1>3, <2>2, <3>2 DEF SaveFails, GiveUp
    <3> QED BY <1>8, <3>1, <3>2
  <2>3. CASE saving # socket
    <3>1. UNCHANGED <<active, wanted, status, socket, retry>>
      BY <1>8, <2>3 DEF Saved, SaveFails, connection
    <3>2. ~Head(storeQ).current
      BY <1>1, <2>1, TailFacts
    <3> QED BY <1>1, <2>1, <3>1, <3>2, TailFacts DEF Moves, Waits
  <2> QED BY <2>2, <2>3
<1>9. CASE Deleted
  <2>1. /\ storeQ # << >> /\ Head(storeQ).op = "delete"
        /\ storeQ' = Opened(Tail(storeQ), wanted /\ active /\ socket = None)
        /\ UNCHANGED <<active, wanted, socket>>
    BY <1>9 DEF Deleted, connection
  <2>2. (wanted /\ active /\ socket = None) = TRUE
    BY <1>1, <2>1, DeleteInQueue
  <2>3. storeQ' = Opened(Tail(storeQ), TRUE)
    BY <2>1, <2>2
  <2> QED BY <1>1, <2>1, <2>3, TailFacts, OpenedFacts DEF Moves, Settled
<1>10. CASE DeleteFails
  BY <1>10 DEF DeleteFails
<1>11. CASE SocketOpens \/ SocketCloses
  BY <1>2, <1>11 DEF SocketOpens, SocketCloses, store
<1>12. CASE ConnectionLost
  BY <1>1, <1>3, <1>12 DEF ConnectionLost, GiveUp
<1>13. ASSUME NEW next \in {"rejected", "error"}, Finish(next) PROVE Moves'
  BY <1>1, <1>13 DEF Finish, GiveUp
<1>14. CASE Fail
  BY <1>12, <1>13, <1>14 DEF Fail
<1>15. CASE RetryFires
  <2>1. /\ retry /\ storeQ' = Opened(storeQ, active /\ wanted /\ socket = None)
        /\ UNCHANGED <<active, wanted, socket>>
    BY <1>15 DEF RetryFires
  <2>2. (active /\ wanted /\ socket = None) = TRUE
    BY <1>1, <2>1 DEF Inv, QueueInv
  <2> QED BY <1>4, <2>1, <2>2
<1>16. CASE SocketLost \/ ReceiveRejected \/ ReceiveUnexpected
  BY <1>12, <1>13, <1>14, <1>16 DEF SocketLost, ReceiveRejected, ReceiveUnexpected
<1>17. ASSUME NEW c \in Credentials, ReceivePaired(c) PROVE Moves'
  BY <1>17 DEF ReceivePaired, Handshaking, Receives, connection, Moves
<1>18. CASE ReceiveAuthenticated
  BY <1>1, <1>3, <1>18 DEF ReceiveAuthenticated, Connected
<1>19. ASSUME NEW k \in Requests,
              ReceiveRequest(k) \/ ReceiveCancel(k) \/ Handled(k) \/ HandlerFails(k)
       PROVE  Moves'
  <2>1. ConnectionLost \/ Fail \/ UNCHANGED <<connection, storeQ>>
    BY <1>19 DEF ReceiveRequest, ReceiveCancel, Handled, HandlerFails, store
  <2> QED BY <1>2, <1>12, <1>14, <2>1 DEF connection
<1>20. CASE UNCHANGED clientVars
  BY <1>2, <1>20 DEF clientVars, connection, store
<1> QED
  BY <1>5, <1>6, <1>7, <1>8, <1>9, <1>10, <1>11, <1>15, <1>16, <1>17, <1>18, <1>19, <1>20
  DEF ClientNext, StoreAnswers, StoreRefuses, SocketGoes, Handshake

(* If deletions from the store succeed, an active session that says it is  *)
(* connecting has a socket, a timer, a load or a deletion under way that   *)
(* carries it on: no interleaving of the page's calls, the store's answers *)
(* and the socket's events leaves it waiting for nothing.                  *)
THEOREM SessionsNeverStall == ~DeleteMayFail /\ ClientSpec => []NoStall
<1>1. ~DeleteMayFail /\ Inv /\ (Waits => Moves) /\ [ClientNext]_clientVars => (Waits => Moves)'
  BY StallStep
<1>2. ~DeleteMayFail => []~DeleteMayFail
  OBVIOUS
<1>3. (Waits => Moves) => NoStall
  BY NoStallMeans DEF Waits, Moves
<1> QED BY StallInit, InvHolds, <1>1, <1>2, <1>3, PTL DEF ClientSpec
=============================================================================
