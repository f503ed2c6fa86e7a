---------------------------- MODULE RequestLine ----------------------------
(***************************************************************************)
(* What the broker promises to the local callers: one waiting line.        *)
(*                                                                         *)
(* Requests join at the end.  While the remote is online it holds the      *)
(* first Capacity requests of the line, neither more nor fewer; while it   *)
(* is offline it holds none.  Only a request the remote holds can be       *)
(* served, one at a time; any request may fail at any moment (deadline,    *)
(* cancellation, shutdown), and a request is refused only if the line is   *)
(* full.  A request leaves the line exactly when its caller is answered,   *)
(* and its place is never given to a request that joined later.            *)
(*                                                                         *)
(* Sessions, attempts, channels, timers and the announcement of waiting    *)
(* work do not appear.                                                     *)
(***************************************************************************)
EXTENDS Listing

CONSTANTS Requests, Capacity, MaxPending

VARIABLES
  line,    \* the requests that wait for an answer, oldest first
  held,    \* those the remote has been given
  online,  \* a remote is connected
  served,  \* requests answered by a remote
  failed   \* requests answered with an error

vars == <<line, held, online, served, failed>>

Front(q, n) == {q[i] : i \in {j \in DOMAIN q : j <= n}}

Init ==
  /\ line = <<>>
  /\ held = {}
  /\ online = FALSE
  /\ served = {}
  /\ failed = {}

(* The requests of Late fail, then those of gone leave and those of new    *)
(* join; the remote ends up with the front of the line or with nothing.    *)
Move(late, gone, new) ==
  /\ line' = Retain(line, Requests \ (late \cup gone)) \o new
  /\ Len(line') <= MaxPending
  /\ held' = IF online' THEN Front(line', Capacity) ELSE {}

Join(r, late) ==
  /\ r \notin Range(line) \cup served \cup failed
  /\ Move(late, {}, <<r>>)
  /\ failed' = failed \cup late
  /\ UNCHANGED served

Refuse(r, late) ==
  /\ r \notin Range(line) \cup served \cup failed
  /\ Move(late, {}, <<>>)
  /\ Len(line') = MaxPending
  /\ failed' = failed \cup late \cup {r}
  /\ UNCHANGED served

Serve(r, late) ==
  /\ r \in held \ late
  /\ Move(late, {r}, <<>>)
  /\ served' = served \cup {r}
  /\ failed' = failed \cup late

Fail(late) ==
  /\ Move(late, {}, <<>>)
  /\ failed' = failed \cup late
  /\ UNCHANGED served

Next ==
  \E late \in SUBSET Range(line) :
    /\ online' \in BOOLEAN
    /\ \/ Fail(late)
       \/ \E r \in Requests : Join(r, late) \/ Refuse(r, late) \/ Serve(r, late)

Spec == Init /\ [][Next]_vars
=============================================================================
