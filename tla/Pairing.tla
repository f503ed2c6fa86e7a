------------------------------ MODULE Pairing ------------------------------
(***************************************************************************)
(* First-client pairing, crates/server/src/remote/pairing: the service     *)
(* (mod.rs) that owns the single client slot behind a mutex, and the file  *)
(* store (file.rs) it writes through.                                      *)
(*                                                                         *)
(* Every operation takes the mutex, decides, writes the whole next state   *)
(* to the store while it holds the mutex, and only then replaces the state *)
(* in memory.  The write is the only await in between, so an operation is  *)
(* two steps: one that decides and starts the write, and Finish.  The      *)
(* daemon may crash at any moment and start again.                         *)
(*                                                                         *)
(* A client id stands for the id and the credential that `pair` generates  *)
(* with it; labels, time stamps and the server id are copied through.      *)
(* The memory store is the case in which writes never fail and the daemon  *)
(* never restarts.                                                         *)
(***************************************************************************)
EXTENDS Naturals, FiniteSets

CONSTANTS
  Clients,       \* client ids, each generated once by pair
  Values,        \* identity lists and push subscriptions, compared only
  None,          \* no client, no value, no file
  MaxDoubt       \* bound on the contents in doubt after failed or cut writes

ASSUME NoneIsNoClient == None \notin Clients
ASSUME NoneIsNoValue  == None \notin Values
ASSUME MaxDoubtIsNat  == MaxDoubt \in Nat

VARIABLES
  client,      \* PairingState.client in memory
  disk,        \* contents the next load may find at the path
  write,       \* the operation that holds the mutex, or Idle
  orphaned,    \* an aborted clear left its blocking write running
  identities,  \* the identity list in the watch channel
  generation,  \* the revocation counter in the watch channel
  up,          \* the daemon is running
  used,        \* ids that pair has generated
  granted,     \* ids whose credential pair has returned
  contested,   \* ids that clear has been asked to remove
  cleared,     \* ids whose removal clear has reported
  registered   \* <<id, value>> that sessions asked to register as identities

pairingVars ==
  <<client, disk, write, orphaned, identities, generation, up, used,
    granted, contested, cleared, registered>>

-----------------------------------------------------------------------------
(* States. *)

Unpaired == [id |-> None, push |-> None, identities |-> None]

PairedClient ==
  [id : Clients, push : Values \cup {None}, identities : Values \cup {None}]

PairingState == PairedClient \cup {Unpaired}

(* The path does not exist before the first start.                         *)
NoFile == [id |-> None, push |-> None, identities |-> "NoFile"]

Operation == {"pair", "authenticate", "set_push_subscription", "set_identities", "clear"}

Idle == [op |-> "idle", next |-> Unpaired]

PairingInit ==
  /\ client = Unpaired
  /\ disk = {NoFile}
  /\ write = Idle
  /\ orphaned = FALSE
  /\ identities = None
  /\ generation = 0
  /\ up = FALSE
  /\ used = {}
  /\ granted = {}
  /\ contested = {}
  /\ cleared = {}
  /\ registered = {}

-----------------------------------------------------------------------------
(* Operations of the service, up to the await of the write. *)

Paired(c) == up /\ client # Unpaired /\ client.id = c

Begin(op, next) ==
  /\ up
  /\ write = Idle
  /\ write' = [op |-> op, next |-> next]
  /\ UNCHANGED <<client, disk, orphaned, identities, generation, up, granted, cleared>>

(* The slot is claimed only while it is empty.                             *)
Pair(c) ==
  /\ client = Unpaired
  /\ c \notin used
  /\ used' = used \cup {c}
  /\ Begin("pair", [id |-> c, push |-> None, identities |-> None])
  /\ UNCHANGED <<contested, registered>>

(* Only last_seen_at changes.                                              *)
Authenticate(c) ==
  /\ Paired(c)
  /\ Begin("authenticate", client)
  /\ UNCHANGED <<used, contested, registered>>

SetPushSubscription(c, v) ==
  /\ Paired(c)
  /\ Begin("set_push_subscription", [client EXCEPT !.push = v])
  /\ UNCHANGED <<used, contested, registered>>

(* Mutant: a stale session may write to the client that replaced its own.  *)
SetIdentities_AnyClient(c, v) ==
  /\ client # Unpaired
  /\ registered' = registered \cup {<<c, v>>}
  /\ Begin("set_identities", [client EXCEPT !.identities = v])
  /\ UNCHANGED <<used, contested>>

SetIdentities(c, v) ==
  /\ Paired(c)
  /\ registered' = registered \cup {<<c, v>>}
  /\ Begin("set_identities", [client EXCEPT !.identities = v])
  /\ UNCHANGED <<used, contested>>

(* Requested through the control socket, which closes at shutdown.         *)
Clear ==
  /\ client # Unpaired
  /\ ~orphaned
  /\ contested' = contested \cup {client.id}
  /\ Begin("clear", Unpaired)
  /\ UNCHANGED <<used, registered>>

-----------------------------------------------------------------------------
(* The write. *)

(* write_and_replace writes a temporary file, renames it over the path and *)
(* syncs the directory.  It fails before the rename, or after it: then the *)
(* new contents are in place although the operation reports an error.      *)
Outcome == {"saved", "failed", "unsynced"}

(* One more contents may become uncertain.                                 *)
DoubtLeft == Cardinality(disk) < MaxDoubt

(* Mutant: an acknowledged write may still be lost (no rename, no sync). *)
Written_Volatile(outcome) ==
  CASE outcome = "saved"    -> disk \cup {write.next}
    [] outcome = "failed"   -> disk
    [] outcome = "unsynced" -> disk \cup {write.next}

Written(outcome) ==
  CASE outcome = "saved"    -> {write.next} \cup (IF orphaned THEN {Unpaired} ELSE {})
    [] outcome = "failed"   -> disk
    [] outcome = "unsynced" -> disk \cup {write.next}

(* Mutant: clear leaves the state in memory. *)
Stored_KeepsClient == IF write.op = "clear" THEN client ELSE write.next

(* The state in memory after a successful write.                           *)
Stored == write.next

(* Mutant: clear does not publish that the identities are gone. *)
Published_OutlivesClear == IF write.op = "set_identities" THEN write.next.identities ELSE identities

(* The identity list in the watch channel after it.                        *)
Published ==
  CASE write.op = "set_identities" -> write.next.identities
    [] write.op = "clear"          -> None
    [] OTHER                       -> identities

(* The write returns; only a success changes the state in memory, the      *)
(* published identities and the revocation counter.                        *)
Finish(outcome) ==
  /\ up
  /\ write # Idle
  /\ outcome = "unsynced" => DoubtLeft
  /\ disk' = Written(outcome)
  /\ write' = Idle
  /\ IF outcome = "saved"
     THEN /\ client' = Stored
          /\ identities' = Published
          /\ generation' = IF write.op = "clear" THEN generation + 1 ELSE generation
          /\ granted' = IF write.op = "pair" THEN granted \cup {write.next.id} ELSE granted
          /\ cleared' = IF write.op = "clear" THEN cleared \cup {client.id} ELSE cleared
     ELSE UNCHANGED <<client, identities, generation, granted, cleared>>
  /\ UNCHANGED <<orphaned, up, used, contested, registered>>

(* Shutdown aborts the control connection that waits in clear: the mutex   *)
(* is released, the blocking write goes on.                                *)
AbortClear ==
  /\ up
  /\ write.op = "clear"
  /\ DoubtLeft
  /\ write' = Idle
  /\ orphaned' = TRUE
  /\ disk' = disk \cup {Unpaired}
  /\ UNCHANGED <<client, identities, generation, up, used,
    granted, contested, cleared, registered>>

-----------------------------------------------------------------------------
(* The life of the daemon. *)

(* Whatever was being written may or may not have reached the disk.        *)
Crash ==
  /\ up
  /\ up' = FALSE
  /\ write = Idle \/ DoubtLeft
  /\ disk' = IF write = Idle THEN disk ELSE disk \cup {write.next}
  /\ write' = Idle
  /\ orphaned' = FALSE
  /\ UNCHANGED <<client, identities, generation, used, granted, contested, cleared, registered>>

(* PairingService::open.  A contents that an unsynced rename left in doubt *)
(* stays in doubt until the next write.                                    *)
Open ==
  /\ ~up
  /\ \E found \in disk :
       IF found = NoFile
       THEN \/ client' = Unpaired /\ identities' = None /\ disk' = {Unpaired} /\ up' = TRUE
            \/ disk' \in {disk, disk \cup {Unpaired}} /\ UNCHANGED <<client, identities, up>>
       ELSE /\ client' = found
            /\ identities' = found.identities
            /\ up' = TRUE
            /\ UNCHANGED disk
  /\ generation' = 0
  /\ UNCHANGED <<write, orphaned, used, granted, contested, cleared, registered>>

-----------------------------------------------------------------------------
PairingNext ==
  \/ \E c \in Clients :
       \/ Pair(c)
       \/ Authenticate(c)
       \/ \E v \in Values : SetPushSubscription(c, v) \/ SetIdentities(c, v)
  \/ Clear
  \/ \E outcome \in Outcome : Finish(outcome)
  \/ AbortClear
  \/ Crash
  \/ Open

PairingSpec == PairingInit /\ [][PairingNext]_pairingVars

-----------------------------------------------------------------------------
(* Properties. *)

(* Every variable keeps its type; whatever is loaded is a pairing state.   *)
PairingTypeOK ==
  /\ client \in PairingState
  /\ disk \subseteq PairingState \cup {NoFile}
  /\ write \in {Idle} \cup [op : Operation, next : PairingState]
  /\ orphaned \in BOOLEAN
  /\ identities \in Values \cup {None}
  /\ generation \in Nat
  /\ up \in BOOLEAN
  /\ used \subseteq Clients
  /\ granted \subseteq Clients
  /\ contested \subseteq Clients
  /\ cleared \subseteq Clients
  /\ registered \subseteq Clients \X Values

(* Once clear has reported success, the client is gone for good: neither a *)
(* write in progress, nor a failed one, nor a crash and restart brings its *)
(* credential back.                                                        *)
RevokedStaysOut ==
  /\ up => client.id \notin cleared
  /\ write.next.id \notin cleared
  /\ \A d \in disk : d.id \notin cleared

(* The identities advertised to local SSH clients are the ones stored for  *)
(* the paired client, across clears, failed writes and restarts.           *)
AdvertisedIsStored == up => identities = client.identities

(* Stored identities were registered by the client they are stored for: a  *)
(* session that outlives its pairing cannot write to its successor.        *)
IdentitiesAreOwn ==
  \A p \in {client, write.next} \cup (disk \ {NoFile}) :
    p.identities # None => <<p.id, p.identities>> \in registered

(* A pairing whose credential was handed out holds the slot, in memory and *)
(* after every restart, until somebody asks to clear it: failed writes and *)
(* crashes never hand the slot to another client.                          *)
GrantedHoldsSlot ==
  \A c \in granted \ contested :
    /\ up => client.id = c
    /\ \A d \in disk : d.id = c
=============================================================================
