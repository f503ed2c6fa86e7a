------------------------------- MODULE Worker -------------------------------
(***************************************************************************)
(* The dedicated worker, packages/app/src/worker/index.ts, with the vault  *)
(* (vault/vault.ts) and its IndexedDB store (vault/storage.ts).            *)
(*                                                                         *)
(* The vault is an immutable value: each operation reads #state, awaits    *)
(* cryptography and one store transaction, and then replaces #state by a   *)
(* value made from the one it read.  Between the two, the connection may   *)
(* be lost or the page hidden, which locks the vault at once, and the      *)
(* worker may be terminated with the page.                                 *)
(*                                                                         *)
(* Of the remote session (module ClientSession), the worker sees whether   *)
(* it is connected, tells it readiness and identities, and gets an         *)
(* exception when the socket is closing.  Signing is left out: it changes  *)
(* no state.                                                               *)
(***************************************************************************)
EXTENDS Naturals, FiniteSets

CONSTANTS
  Keys,    \* SSH keys, by their fingerprint
  Calls,   \* operations that the page has under way at the same time
  None     \* no key

ASSUME NoneIsNoKey == None \notin Keys

VARIABLES
  state,       \* #state: the vault in memory
  vault,       \* the vault record in IndexedDB
  blobs,       \* keys whose encrypted blob is in IndexedDB
  calls,       \* what each call has read and how far it is
  link,        \* the remote session: "down", "connected" or "closing"
  endpoint,    \* connect has told the remote session where to connect
  active,      \* the page is visible and online, as far as the session knows
  ready,       \* the readiness the remote session holds
  identities   \* the identities the remote session holds

workerVars == <<state, vault, blobs, calls, link, endpoint, active, ready, identities>>

Kind == {"createVault", "unlock", "addKey", "removeKey", "destroy"}

Unloaded == [status |-> "unloaded", keys |-> {}]
NoVault  == [status |-> "no-vault", keys |-> {}]

Idle == [kind |-> "none", base |-> Unloaded, key |-> None, stage |-> "idle"]

WorkerInit ==
  /\ state = Unloaded
  /\ vault = NoVault
  /\ blobs = {}
  /\ calls = [c \in Calls |-> Idle]
  /\ link = "down"
  /\ endpoint = FALSE
  /\ active = TRUE
  /\ ready = FALSE
  /\ identities = {}

-----------------------------------------------------------------------------
(* Opening and locking. *)

(* #current on first use, by subscribe or any other call: openVault, which *)
(* opens what is stored locked.                                            *)
Load ==
  /\ state = Unloaded
  /\ state' = vault
  /\ UNCHANGED <<vault, blobs, calls, link, endpoint, active, ready, identities>>

(* connect, which the page calls once it has a snapshot.  The user may be  *)
(* at work by then: the session is told what the vault is like now.        *)
Connect ==
  /\ state # Unloaded
  /\ ~endpoint
  /\ identities' = state.keys
  /\ ready' = (state.status = "unlocked")
  /\ endpoint' = TRUE
  /\ active' = TRUE
  /\ UNCHANGED <<state, vault, blobs, calls, link>>

Locked(s) == IF s.status = "unlocked" THEN [s EXCEPT !.status = "locked"] ELSE s

(* #lock on a closing socket throws after the vault was locked.            *)
LockThrows == state.status = "unlocked" /\ link = "closing"

Lock ==
  /\ state # Unloaded
  /\ state' = Locked(state)
  /\ ready' = (ready /\ state.status # "unlocked")
  /\ UNCHANGED <<vault, blobs, calls, link, endpoint, active, identities>>

(* setConnectionActive(false) locks, then closes the connection; if the    *)
(* lock throws, the connection stays wanted.  The page may be hidden and   *)
(* shown before the vault is loaded.                                       *)
Hide ==
  /\ state' = Locked(state)
  /\ ready' = (ready /\ state.status # "unlocked")
  /\ IF LockThrows
     THEN UNCHANGED <<link, active>>
     ELSE link' = "down" /\ active' = FALSE
  /\ UNCHANGED <<vault, blobs, calls, endpoint, identities>>

Show ==
  /\ active' = TRUE
  /\ UNCHANGED <<state, vault, blobs, calls, link, endpoint, ready, identities>>

(* The remote session connects, starts to close, and is lost; losing it    *)
(* calls onDisconnect.                                                     *)
LinkUp ==
  /\ endpoint /\ active
  /\ link = "down"
  /\ link' = "connected"
  /\ UNCHANGED <<state, vault, blobs, calls, endpoint, active, ready, identities>>

LinkCloses ==
  /\ link = "connected"
  /\ link' = "closing"
  /\ UNCHANGED <<state, vault, blobs, calls, endpoint, active, ready, identities>>

LinkLost ==
  /\ link # "down"
  /\ link' = "down"
  /\ state' = Locked(state)
  /\ ready' = (ready /\ state.status # "unlocked")
  /\ UNCHANGED <<vault, blobs, calls, endpoint, active, identities>>

-----------------------------------------------------------------------------
(* Operations on the vault. *)

(* assertVaultStatus                                                       *)
Requires(kind) ==
  CASE kind = "createVault" -> {"no-vault"}
    [] kind = "unlock"      -> {"locked"}
    [] kind = "addKey"      -> {"unlocked"}
    [] kind = "removeKey"   -> {"locked", "unlocked"}
    [] kind = "destroy"     -> {"locked", "unlocked"}

Begin(c, kind, key) ==
  /\ calls[c] = Idle
  /\ state.status \in Requires(kind)
  /\ kind \in {"addKey", "removeKey"} <=> key # None
  /\ kind = "addKey" => key \notin state.keys
  /\ calls' = [calls EXCEPT ![c] =
                 [kind |-> kind, base |-> state, key |-> key, stage |-> "working"]]
  /\ UNCHANGED <<state, vault, blobs, link, endpoint, active, ready, identities>>

(* The vault that the call makes of the one it read.                       *)
Result(call) ==
  CASE call.kind = "createVault" -> [status |-> "unlocked", keys |-> {}]
    [] call.kind = "unlock"      -> [status |-> "unlocked", keys |-> call.base.keys]
    [] call.kind = "addKey"      -> [status |-> "unlocked", keys |-> call.base.keys \cup {call.key}]
    [] call.kind = "removeKey"   -> [call.base EXCEPT !.keys = @ \ {call.key}]
    [] call.kind = "destroy"     -> NoVault

(* Mutant: the blob is removed in a transaction of its own, too late. *)
StoredBlobs_Metadata(call) ==
  CASE call.kind = "addKey"  -> blobs \cup {call.key}
    [] call.kind = "destroy" -> {}
    [] OTHER                 -> blobs

StoredBlobs(call) ==
  CASE call.kind = "addKey"    -> blobs \cup {call.key}
    [] call.kind = "removeKey" -> blobs \ {call.key}
    [] call.kind = "destroy"   -> {}
    [] OTHER                   -> blobs

(* The store transaction, which writes the metadata and the blob at once.  *)
(* unlock has none, and neither has the removal of a key that is absent.   *)
Commit(c) ==
  LET call == calls[c] IN
  /\ call.stage = "working"
  /\ calls' = [calls EXCEPT ![c].stage = "committed"]
  /\ IF call.kind = "unlock" \/ (call.kind = "removeKey" /\ call.key \notin call.base.keys)
     THEN UNCHANGED <<vault, blobs>>
     ELSE /\ vault' = Locked(Result(call))
          /\ blobs' = StoredBlobs(call)
  /\ UNCHANGED <<state, link, endpoint, active, ready, identities>>

(* The passkey is wrong, or the transaction fails.                         *)
Reject(c) ==
  /\ calls[c].stage = "working"
  /\ calls' = [calls EXCEPT ![c] = Idle]
  /\ UNCHANGED <<state, vault, blobs, link, endpoint, active, ready, identities>>

(* Mutant: the page is shown the vault before the removal. *)
Resume_OldIdentities(c) ==
  LET call == calls[c] IN
  /\ call.stage = "committed"
  /\ calls' = [calls EXCEPT ![c] = Idle]
  /\ state' = Result(call)
  /\ identities' = IF call.kind = "unlock" THEN identities ELSE state.keys
  /\ UNCHANGED <<vault, blobs, link, endpoint, active, ready>>

(* Mutant: the vault in memory is updated only when a key is added. *)
Resume_DropsRemoval(c) ==
  LET call == calls[c] IN
  /\ call.stage = "committed"
  /\ calls' = [calls EXCEPT ![c] = Idle]
  /\ state' = IF call.kind = "removeKey" THEN state ELSE Result(call)
  /\ identities' = IF call.kind = "unlock" THEN identities ELSE Result(call).keys
  /\ UNCHANGED <<vault, blobs, link, endpoint, active, ready>>

(* #state is replaced and the remote session told: identities first, and   *)
(* readiness only if that did not throw on a closing socket.               *)
Resume(c) ==
  LET call == calls[c]
      throws == link = "closing" /\ call.kind # "unlock" IN
  /\ call.stage = "committed"
  /\ calls' = [calls EXCEPT ![c] = Idle]
  /\ state' = Result(call)
  /\ identities' = IF call.kind = "unlock" THEN identities ELSE Result(call).keys
  /\ ready' = CASE call.kind \in {"createVault", "unlock"} /\ ~throws -> TRUE
                [] call.kind = "destroy" /\ ~throws                   -> FALSE
                [] OTHER                                              -> ready
  /\ UNCHANGED <<vault, blobs, link, endpoint, active>>

(* The page goes away and the worker with it; another is started later.    *)
(* A transaction under way has been committed or never will be.            *)
Terminate ==
  /\ state # Unloaded
  /\ state' = Unloaded
  /\ calls' = [c \in Calls |-> Idle]
  /\ link' = "down"
  /\ endpoint' = FALSE
  /\ active' = TRUE
  /\ ready' = FALSE
  /\ identities' = {}
  /\ UNCHANGED <<vault, blobs>>

-----------------------------------------------------------------------------
WorkerNext ==
  \/ Load
  \/ Connect
  \/ Lock
  \/ Hide
  \/ Show
  \/ LinkUp
  \/ LinkCloses
  \/ LinkLost
  \/ \E c \in Calls :
       \/ \E kind \in Kind, key \in Keys \cup {None} : Begin(c, kind, key)
       \/ Commit(c)
       \/ Reject(c)
       \/ Resume(c)
  \/ Terminate

WorkerSpec == WorkerInit /\ [][WorkerNext]_workerVars

-----------------------------------------------------------------------------
(* Properties. *)

(* No call has been started, or all have ended.                            *)
Quiet == \A c \in Calls : calls[c] = Idle

(* Key metadata and key blobs never drift apart, whenever the worker is    *)
(* terminated: a key that is listed can sign, and no blob is orphaned.     *)
MetadataMatchesBlobs == vault.keys = blobs

(* Between calls, the vault in memory is the stored one, whatever was      *)
(* locked, lost or rejected meanwhile.                                     *)
MemoryMatchesStore ==
  Quiet /\ state # Unloaded => vault = Locked(state)

(* Once it may connect, the remote session holds the identities of the     *)
(* vault between calls, also when connect comes in the middle of one.      *)
IdentitiesMatchVault == Quiet /\ endpoint => identities = state.keys

(* A vault that was locked stays locked until somebody unlocks it.         *)
LockHolds ==
  [][state.status = "locked" /\ state'.status = "unlocked" =>
       \E c \in Calls : calls[c].kind = "unlock" /\ calls'[c] = Idle]_workerVars
=============================================================================
