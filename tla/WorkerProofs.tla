---------------------------- MODULE WorkerProofs ----------------------------
(***************************************************************************)
(* Theorems about module Worker: the vault record, the key blobs, the      *)
(* vault in memory and the identities told to the server stay in step for  *)
(* every set of keys, whenever a call fails, the connection is lost, the   *)
(* page is hidden or the worker is terminated.                             *)
(*                                                                         *)
(* They hold for a page that waits for a call to end before it starts the  *)
(* next: every call replaces the vault it has read, so two calls at once   *)
(* lose each other's change.  OneCall is that condition.                   *)
(***************************************************************************)
EXTENDS Worker, TLAPS

VaultStates ==
  [status : {"unloaded", "no-vault", "locked", "unlocked"}, keys : SUBSET Keys]

(* What a call that has been started is like: the status it requires was   *)
(* that of the vault it has read.                                          *)
Started(call) ==
  /\ call.kind \in Kind
  /\ call.base.status \in Requires(call.kind)
  /\ call.kind \in {"addKey", "removeKey"} => call.key \in Keys
  /\ call.kind = "addKey" => call.key \notin call.base.keys

NoKeysWithoutVault(s) == s.status \in {"unloaded", "no-vault"} => s.keys = {}

TypeOK ==
  /\ state \in VaultStates
  /\ NoKeysWithoutVault(state)
  /\ vault \in VaultStates
  /\ vault.status \in {"no-vault", "locked"}
  /\ NoKeysWithoutVault(vault)
  /\ blobs \subseteq Keys
  /\ calls \in [Calls -> [kind : Kind \cup {"none"}, base : VaultStates,
                          key : Keys \cup {None},
                          stage : {"idle", "working", "committed"}]]
  /\ \A c \in Calls :
       \/ calls[c] = Idle
       \/ /\ calls[c].stage \in {"working", "committed"}
          /\ Started(calls[c])
          /\ NoKeysWithoutVault(calls[c].base)
          /\ state # Unloaded
  /\ link \in {"down", "connected", "closing"}
  /\ endpoint \in BOOLEAN
  /\ active \in BOOLEAN
  /\ ready \in BOOLEAN
  /\ identities \subseteq Keys
  /\ endpoint => state # Unloaded

(* The page has one call under way at a time.                              *)
OneCall == \A c, d \in Calls : c = d

(* A call that has not written yet has read the stored vault, and the      *)
(* vault in memory is still that one, locked meanwhile or not.             *)
WorkingAgrees ==
  \A c \in Calls : calls[c].stage = "working" =>
    /\ vault = Locked(calls[c].base)
    /\ vault = Locked(state)
    /\ endpoint => identities = state.keys

(* A call that has written has stored what it will put in memory; unlock   *)
(* changes no key.                                                         *)
CommittedAgrees ==
  \A c \in Calls : calls[c].stage = "committed" =>
    /\ vault = Locked(Result(calls[c]))
    /\ calls[c].kind = "unlock" =>
         state.keys = vault.keys /\ (endpoint => identities = vault.keys)

-----------------------------------------------------------------------------
(* Facts about the operators. *)

(* Locking changes the status of an unlocked vault and nothing else.       *)
LEMMA LockedFacts ==
  ASSUME NEW s \in VaultStates
  PROVE  /\ Locked(s) \in VaultStates
         /\ Locked(s).keys = s.keys
         /\ Locked(s).status # "unlocked"
         /\ s.status # "unlocked" => Locked(s) = s
         /\ s.status = "unlocked" => Locked(s) = [status |-> "locked", keys |-> s.keys]
         /\ Locked(Locked(s)) = Locked(s)
BY DEF Locked, VaultStates

(* What each kind of call makes of the vault it has read.                  *)
LEMMA ResultFacts ==
  ASSUME NEW call, Started(call), call.base \in VaultStates
  PROVE  /\ Result(call) \in VaultStates
         /\ Result(call).status \in {"no-vault", "locked", "unlocked"}
         /\ call.kind = "createVault" => Result(call) = [status |-> "unlocked", keys |-> {}]
         /\ call.kind = "unlock" => Result(call) = [status |-> "unlocked", keys |-> call.base.keys]
         /\ call.kind = "addKey" =>
              Result(call) = [status |-> "unlocked", keys |-> call.base.keys \cup {call.key}]
         /\ call.kind = "removeKey" =>
              Result(call) = [status |-> call.base.status, keys |-> call.base.keys \ {call.key}]
         /\ call.kind = "destroy" => Result(call) = [status |-> "no-vault", keys |-> {}]
<1>1. CASE call.kind = "createVault"
  BY <1>1 DEF Result, VaultStates
<1>2. CASE call.kind = "unlock"
  BY <1>2 DEF Result, VaultStates
<1>3. CASE call.kind = "addKey"
  BY <1>3 DEF Result, VaultStates, Started
<1>4. CASE call.kind = "removeKey"
  BY <1>4 DEF Result, VaultStates, Started, Requires
<1>5. CASE call.kind = "destroy"
  BY <1>5 DEF Result, VaultStates, NoVault
<1> QED BY <1>1, <1>2, <1>3, <1>4, <1>5 DEF Started, Kind
-----------------------------------------------------------------------------
(* Type correctness. *)

(* A new worker.                                                           *)
LEMMA TypeInit == WorkerInit => TypeOK
<1> SUFFICES ASSUME WorkerInit PROVE TypeOK
  OBVIOUS
<1>1. endpoint \in BOOLEAN /\ active \in BOOLEAN /\ ready \in BOOLEAN /\ ~endpoint
  BY DEF WorkerInit
<1>2. /\ calls \in [Calls -> [kind : Kind \cup {"none"}, base : VaultStates,
                              key : Keys \cup {None},
                              stage : {"idle", "working", "committed"}]]
      /\ \A c \in Calls : calls[c] = Idle
  BY DEF WorkerInit, Idle, Unloaded, VaultStates
<1> QED
  BY <1>1, <1>2 DEF WorkerInit, TypeOK, Unloaded, NoVault, VaultStates, NoKeysWithoutVault

(* One action after the other.                                             *)
LEMMA TypeStep ==
  ASSUME TypeOK, [WorkerNext]_workerVars
  PROVE  TypeOK'
<1> USE DEF TypeOK
<1>0. CASE Load
  <2>1. state' # Unloaded
    BY <1>0 DEF Load, Unloaded
  <2> QED BY <1>0, <2>1 DEF Load
<1>1. CASE Connect
  <2>1. identities' \subseteq Keys /\ ready' \in BOOLEAN
    BY <1>1 DEF Connect, VaultStates
  <2> QED BY <1>1, <2>1 DEF Connect
<1>2. CASE Lock
  BY <1>2, LockedFacts DEF Lock, Unloaded, VaultStates, NoKeysWithoutVault
<1>3. CASE Hide
  <2>1. link' \in {"down", "connected", "closing"} /\ active' \in BOOLEAN
    BY <1>3 DEF Hide
  <2>2. /\ ready' \in BOOLEAN
        /\ state' = Locked(state)
        /\ UNCHANGED <<vault, blobs, calls, endpoint, identities>>
    BY <1>3 DEF Hide
  <2> QED BY <2>1, <2>2, LockedFacts DEF Unloaded, VaultStates, NoKeysWithoutVault
<1>4. CASE Show
  BY <1>4 DEF Show
<1>5. CASE LinkUp
  BY <1>5 DEF LinkUp
<1>6. CASE LinkCloses
  BY <1>6 DEF LinkCloses
<1>7. CASE LinkLost
  BY <1>7, LockedFacts DEF LinkLost, Unloaded, VaultStates, NoKeysWithoutVault
<1>8. ASSUME NEW c \in Calls, NEW kind \in Kind, NEW key \in Keys \cup {None}, Begin(c, kind, key)
      PROVE  TypeOK'
  BY <1>8, NoneIsNoKey DEF Begin, Started, Requires, Kind, Unloaded, VaultStates
<1>9. ASSUME NEW c \in Calls, Commit(c)
      PROVE  TypeOK'
  <2>1. /\ Started(calls[c])
        /\ calls[c].base \in VaultStates
        /\ calls[c].stage = "working"
        /\ state # Unloaded
        /\ NoKeysWithoutVault(calls[c].base)
    BY <1>9 DEF Commit, Idle
  <2>2. /\ Result(calls[c]) \in VaultStates
        /\ NoKeysWithoutVault(Result(calls[c]))
        /\ Result(calls[c]).status # "unloaded"
    BY <2>1, ResultFacts DEF NoKeysWithoutVault, Started, Requires, Kind
  <2>3. /\ vault' \in VaultStates
        /\ vault'.status \in {"no-vault", "locked"}
        /\ NoKeysWithoutVault(vault')
    <3>1. CASE UNCHANGED <<vault, blobs>>
      BY <3>1
    <3>2. CASE vault' = Locked(Result(calls[c]))
      BY <3>2, <2>2, LockedFacts DEF NoKeysWithoutVault, VaultStates
    <3> QED BY <1>9, <3>1, <3>2 DEF Commit
  <2>4. blobs' \subseteq Keys
    BY <1>9, <2>1 DEF Commit, StoredBlobs, Started
  <2>5. calls' = [calls EXCEPT ![c].stage = "committed"]
    BY <1>9 DEF Commit
  <2>6. ASSUME NEW d \in Calls
        PROVE  \/ calls'[d] = Idle
               \/ /\ calls'[d].stage \in {"working", "committed"}
                  /\ Started(calls'[d])
                  /\ NoKeysWithoutVault(calls'[d].base)
                  /\ state # Unloaded
    <3>1. CASE d # c
      BY <3>1, <2>5
    <3>2. CASE d = c
      BY <3>2, <2>1, <2>5 DEF Started
    <3> QED BY <3>1, <3>2
  <2> QED BY <1>9, <2>3, <2>4, <2>5, <2>6 DEF Commit
<1>10. ASSUME NEW c \in Calls, Reject(c)
       PROVE  TypeOK'
  BY <1>10 DEF Reject, Idle, Unloaded, VaultStates
<1>11. ASSUME NEW c \in Calls, Resume(c)
       PROVE  TypeOK'
  <2>1. /\ Started(calls[c])
        /\ calls[c].base \in VaultStates
        /\ NoKeysWithoutVault(calls[c].base)
    BY <1>11 DEF Resume, Idle
  <2>2. /\ Result(calls[c]) \in VaultStates
        /\ NoKeysWithoutVault(Result(calls[c]))
        /\ Result(calls[c]).status # "unloaded"
    BY <2>1, ResultFacts DEF NoKeysWithoutVault, Started, Requires, Kind
  <2>3. /\ state' = Result(calls[c])
        /\ state' # Unloaded
        /\ calls' = [calls EXCEPT ![c] = Idle]
    BY <1>11, <2>2 DEF Resume, Unloaded
  <2>4. /\ calls' \in [Calls -> [kind : Kind \cup {"none"}, base : VaultStates,
                                  key : Keys \cup {None},
                                  stage : {"idle", "working", "committed"}]]
        /\ \A d \in Calls : calls'[d] = IF d = c THEN Idle ELSE calls[d]
    BY <2>3 DEF Idle, Unloaded, VaultStates
  <2>5. /\ identities' \subseteq Keys
        /\ ready' \in BOOLEAN
    BY <1>11, <2>2 DEF Resume, VaultStates
  <2> QED BY <1>11, <2>2, <2>3, <2>4, <2>5 DEF Resume
<1>12. CASE Terminate
  BY <1>12 DEF Terminate, Idle, Unloaded, VaultStates, NoKeysWithoutVault
<1>13. CASE UNCHANGED workerVars
  BY <1>13 DEF workerVars
<1> QED
  BY <1>0, <1>1, <1>2, <1>3, <1>4, <1>5, <1>6, <1>7, <1>8, <1>9, <1>10, <1>11, <1>12, <1>13
  DEF WorkerNext

(* Every variable keeps its type, and a call that was started has read a   *)
(* vault in a status that its kind requires (assertVaultStatus), however   *)
(* many calls are under way.                                               *)
THEOREM Typing == WorkerSpec => []TypeOK
BY TypeInit, TypeStep, PTL DEF WorkerSpec
-----------------------------------------------------------------------------
(* Memory, store and identities stay in step. *)

(* With TypeOK, inductive for one call at a time.  The properties speak of *)
(* the states between calls; the last two conjuncts carry them through the *)
(* states in the middle of one.                                            *)
Agreement ==
  /\ MetadataMatchesBlobs
  /\ MemoryMatchesStore
  /\ IdentitiesMatchVault
  /\ WorkingAgrees
  /\ CommittedAgrees

(* Nothing is stored and nothing is loaded.                                *)
LEMMA AgreementInit == WorkerInit => Agreement
BY DEF WorkerInit, Agreement, MetadataMatchesBlobs, MemoryMatchesStore, IdentitiesMatchVault,
       WorkingAgrees, CommittedAgrees, NoVault, Idle

(* Locking, in whatever way it comes about.                                *)
LEMMA LockingKeepsAgreement ==
  ASSUME TypeOK, Agreement,
         state' = Locked(state),
         UNCHANGED <<vault, blobs, calls, endpoint, identities>>
  PROVE  Agreement'
<1>1. /\ Locked(state)' = Locked(state)
      /\ state'.keys = state.keys
      /\ state' # Unloaded => state # Unloaded
  BY LockedFacts DEF Locked, TypeOK, VaultStates, Unloaded
<1>2. /\ MetadataMatchesBlobs'
      /\ MemoryMatchesStore'
      /\ IdentitiesMatchVault'
  BY <1>1 DEF Agreement, MetadataMatchesBlobs, MemoryMatchesStore, IdentitiesMatchVault, Quiet
<1>3. WorkingAgrees'
  BY <1>1 DEF Agreement, WorkingAgrees, Locked
<1>4. CommittedAgrees'
  BY <1>1 DEF Agreement, CommittedAgrees, Result, Locked
<1> QED BY <1>2, <1>3, <1>4 DEF Agreement

(* Steps that touch neither the vault nor the calls.                       *)
LEMMA OtherKeepsAgreement ==
  ASSUME Agreement, UNCHANGED <<state, vault, blobs, calls, endpoint, identities>>
  PROVE  Agreement'
BY DEF Agreement, MetadataMatchesBlobs, MemoryMatchesStore, IdentitiesMatchVault, Quiet,
       WorkingAgrees, CommittedAgrees, Result, Locked

(* The vault is loaded.                                                    *)
LEMMA LoadKeepsAgreement ==
  ASSUME TypeOK, Agreement, Load
  PROVE  Agreement'
<1>1. (\A c \in Calls : calls'[c] = Idle) /\ ~endpoint'
  BY DEF Load, TypeOK
<1>2. Locked(vault) = vault
  BY LockedFacts DEF TypeOK
<1>3. Locked(state') = vault
  BY <1>2 DEF Load
<1> QED
  BY <1>1, <1>3 DEF Load, Agreement, MetadataMatchesBlobs, MemoryMatchesStore,
     IdentitiesMatchVault, WorkingAgrees, CommittedAgrees, Idle, Locked

(* connect, between calls or in the middle of one.                         *)
LEMMA ConnectKeepsAgreement ==
  ASSUME Agreement, Connect
  PROVE  Agreement'
<1>1. identities' = state'.keys /\ UNCHANGED <<state, vault, blobs, calls>>
  BY DEF Connect
<1> QED
  BY <1>1 DEF Agreement, MetadataMatchesBlobs, MemoryMatchesStore, Quiet,
     IdentitiesMatchVault, WorkingAgrees, CommittedAgrees, Result, Locked

(* A call reads the vault.                                                 *)
LEMMA BeginKeepsAgreement ==
  ASSUME OneCall, TypeOK, Agreement, NEW c \in Calls, NEW kind \in Kind,
         NEW key \in Keys \cup {None}, Begin(c, kind, key)
  PROVE  Agreement'
<1>1. Quiet /\ state # Unloaded
  BY DEF OneCall, Quiet, Begin, Requires, Kind, Unloaded
<1>2. /\ calls'[c].stage = "working"
      /\ calls'[c].base = state
      /\ UNCHANGED <<state, vault, blobs, endpoint, identities>>
  BY DEF Begin, TypeOK
<1>3. vault = Locked(state) /\ (endpoint => identities = state.keys)
  BY <1>1 DEF Agreement, MemoryMatchesStore, IdentitiesMatchVault
<1>4. WorkingAgrees' /\ CommittedAgrees'
  BY <1>2, <1>3 DEF OneCall, WorkingAgrees, CommittedAgrees, Locked
<1>5. MetadataMatchesBlobs' /\ MemoryMatchesStore' /\ IdentitiesMatchVault'
  BY <1>2, <1>3 DEF Agreement, MetadataMatchesBlobs, MemoryMatchesStore, IdentitiesMatchVault,
     Locked
<1> QED BY <1>4, <1>5 DEF Agreement

(* The transaction of a call commits.                                      *)
LEMMA CommitKeepsAgreement ==
  ASSUME OneCall, TypeOK, Agreement, NEW c \in Calls, Commit(c)
  PROVE  Agreement'
<1> DEFINE call == calls[c]
<1>1. /\ Started(call)
      /\ call.base \in VaultStates
      /\ NoKeysWithoutVault(call.base)
      /\ call.stage = "working"
  BY DEF Commit, TypeOK, Idle
<1>2. /\ vault = Locked(call.base)
      /\ vault = Locked(state)
      /\ endpoint => identities = state.keys
      /\ vault.keys = blobs
  BY <1>1 DEF Agreement, WorkingAgrees, MetadataMatchesBlobs
<1>3. vault.keys = call.base.keys /\ vault.keys = state.keys
  BY <1>1, <1>2, LockedFacts DEF TypeOK
<1>4. /\ calls'[c].stage = "committed"
      /\ calls'[c].kind = call.kind
      /\ calls'[c].base = call.base
      /\ calls'[c].key = call.key
  BY DEF Commit, TypeOK
<1>5. Result(calls'[c]) = Result(call)
  BY <1>4 DEF Result
<1>6. vault' = Locked(Result(call)) /\ vault'.keys = blobs'
  <2> HIDE DEF call
  <2> USE <1>1, <1>2, <1>3
  <2>1. CASE call.kind = "unlock"
    <3>1. UNCHANGED <<vault, blobs>>
      BY <2>1 DEF Commit, call
    <3>2. call.base.status = "locked"
      BY <2>1 DEF Started, Requires
    <3>3. vault = call.base
      BY <3>2, LockedFacts
    <3>4. Result(call) = [status |-> "unlocked", keys |-> call.base.keys]
      BY <2>1, ResultFacts
    <3>5. Locked(Result(call)) = [status |-> "locked", keys |-> call.base.keys]
      BY <3>4 DEF Locked
    <3>6. call.base = [status |-> "locked", keys |-> call.base.keys]
      BY <3>2 DEF VaultStates
    <3> QED BY <3>1, <3>3, <3>5, <3>6
  <2>2. CASE call.kind = "removeKey" /\ call.key \notin call.base.keys
    <3>1. UNCHANGED <<vault, blobs>>
      BY <2>2 DEF Commit, call
    <3>2. Result(call) = [status |-> call.base.status, keys |-> call.base.keys \ {call.key}]
      BY <2>2, ResultFacts
    <3>3. Result(call) = call.base
      BY <2>2, <3>2 DEF VaultStates
    <3> QED BY <3>1, <3>3
  <2>3. CASE ~(call.kind = "unlock" \/ (call.kind = "removeKey" /\ call.key \notin call.base.keys))
    <3>1. vault' = Locked(Result(call)) /\ blobs' = StoredBlobs(call)
      BY <2>3 DEF Commit, call
    <3>2. vault'.keys = Result(call).keys
      BY <3>1, LockedFacts, ResultFacts
    <3>3. Result(call).keys = StoredBlobs(call)
      <4>1. CASE call.kind = "createVault"
        <5>1. Result(call).keys = {}
          BY <4>1, ResultFacts
        <5>2. call.base.keys = {}
          BY <4>1 DEF Started, Requires, NoKeysWithoutVault
        <5> QED BY <4>1, <5>1, <5>2 DEF StoredBlobs
      <4>2. CASE call.kind = "addKey"
        <5>1. Result(call) = [status |-> "unlocked", keys |-> call.base.keys \cup {call.key}]
          BY <4>2, ResultFacts
        <5>2. StoredBlobs(call) = blobs \cup {call.key}
          BY <4>2 DEF StoredBlobs
        <5>3. Result(call).keys = call.base.keys \cup {call.key}
          BY ONLY <5>1
        <5>4. blobs = call.base.keys
          OBVIOUS
        <5> QED BY ONLY <5>2, <5>3, <5>4
      <4>3. CASE call.kind = "removeKey"
        <5>1. Result(call) = [status |-> call.base.status, keys |-> call.base.keys \ {call.key}]
          BY <4>3, ResultFacts
        <5>2. StoredBlobs(call) = blobs \ {call.key}
          BY <4>3 DEF StoredBlobs
        <5>3. Result(call).keys = call.base.keys \ {call.key}
          BY ONLY <5>1
        <5>4. blobs = call.base.keys
          OBVIOUS
        <5> QED BY ONLY <5>2, <5>3, <5>4
      <4>4. CASE call.kind = "destroy"
        <5>1. Result(call).keys = {}
          BY <4>4, ResultFacts
        <5> QED BY <4>4, <5>1 DEF StoredBlobs
      <4> QED BY <2>3, <4>1, <4>2, <4>3, <4>4 DEF Started, Kind
    <3> QED BY <3>1, <3>2, <3>3
  <2> QED BY <2>1, <2>2, <2>3
<1>7. call.kind = "unlock" =>
        state'.keys = vault'.keys /\ (endpoint' => identities' = vault'.keys)
  BY <1>2, <1>3 DEF Commit
<1>8. CommittedAgrees'
  BY <1>4, <1>5, <1>6, <1>7 DEF OneCall, CommittedAgrees, Locked
<1>9. WorkingAgrees' /\ ~Quiet'
  BY <1>4 DEF OneCall, WorkingAgrees, Quiet, Idle
<1> QED
  BY <1>6, <1>8, <1>9 DEF Agreement, MetadataMatchesBlobs, MemoryMatchesStore,
     IdentitiesMatchVault

(* A call fails before it has written.                                     *)
LEMMA RejectKeepsAgreement ==
  ASSUME OneCall, TypeOK, Agreement, NEW c \in Calls, Reject(c)
  PROVE  Agreement'
<1>1. calls'[c] = Idle /\ UNCHANGED <<state, vault, blobs, endpoint, identities>>
  BY DEF Reject, TypeOK
<1>2. vault = Locked(state) /\ (endpoint => identities = state.keys)
  BY DEF Reject, Agreement, WorkingAgrees
<1>3. WorkingAgrees' /\ CommittedAgrees'
  BY <1>1 DEF OneCall, WorkingAgrees, CommittedAgrees, Idle
<1> QED
  BY <1>1, <1>2, <1>3 DEF Agreement, MetadataMatchesBlobs, MemoryMatchesStore,
     IdentitiesMatchVault, Locked

(* A call puts its result in memory and announces it.                      *)
LEMMA ResumeKeepsAgreement ==
  ASSUME OneCall, TypeOK, Agreement, NEW c \in Calls, Resume(c)
  PROVE  Agreement'
<1>1. /\ Started(calls[c])
      /\ calls[c].base \in VaultStates
      /\ calls[c].stage = "committed"
  BY DEF Resume, TypeOK, Idle
<1>2. /\ calls'[c] = Idle
      /\ state' = Result(calls[c])
      /\ UNCHANGED <<vault, blobs, endpoint>>
  BY DEF Resume, TypeOK
<1>3. /\ vault = Locked(Result(calls[c]))
      /\ calls[c].kind = "unlock" /\ endpoint => identities = vault.keys
  BY <1>1 DEF Agreement, CommittedAgrees
<1>4. vault.keys = Result(calls[c]).keys
  BY <1>1, <1>3, ResultFacts, LockedFacts
<1>5. endpoint' => identities' = state'.keys
  BY <1>2, <1>3, <1>4 DEF Resume
<1>6. vault' = Locked(state')
  BY <1>2, <1>3
<1>7. WorkingAgrees' /\ CommittedAgrees'
  BY <1>2 DEF OneCall, WorkingAgrees, CommittedAgrees, Idle
<1> QED
  BY <1>2, <1>5, <1>6, <1>7 DEF Agreement, MetadataMatchesBlobs, MemoryMatchesStore,
     IdentitiesMatchVault, Locked

(* The worker is terminated in the middle of anything.                     *)
LEMMA TerminateKeepsAgreement ==
  ASSUME Agreement, Terminate
  PROVE  Agreement'
<1>1. \A c \in Calls : calls'[c] = Idle
  BY DEF Terminate
<1> QED
  BY <1>1 DEF Terminate, Agreement, MetadataMatchesBlobs, MemoryMatchesStore,
     IdentitiesMatchVault, WorkingAgrees, CommittedAgrees, Idle

(* One action after the other.                                             *)
LEMMA AgreementStep ==
  ASSUME OneCall, TypeOK, Agreement, [WorkerNext]_workerVars
  PROVE  Agreement'
<1>0. CASE Load
  BY <1>0, LoadKeepsAgreement
<1>1. CASE Connect
  BY <1>1, ConnectKeepsAgreement
<1>2. CASE Lock \/ Hide \/ LinkLost
  BY <1>2, LockingKeepsAgreement DEF Lock, Hide, LinkLost
<1>3. CASE Show \/ LinkUp \/ LinkCloses
  BY <1>3, OtherKeepsAgreement DEF Show, LinkUp, LinkCloses
<1>4. CASE \E c \in Calls : \E kind \in Kind, key \in Keys \cup {None} : Begin(c, kind, key)
  BY <1>4, BeginKeepsAgreement
<1>5. CASE \E c \in Calls : Commit(c)
  BY <1>5, CommitKeepsAgreement
<1>6. CASE \E c \in Calls : Reject(c)
  BY <1>6, RejectKeepsAgreement
<1>7. CASE \E c \in Calls : Resume(c)
  BY <1>7, ResumeKeepsAgreement
<1>8. CASE Terminate
  BY <1>8, TerminateKeepsAgreement
<1>9. CASE UNCHANGED workerVars
  BY <1>9, OtherKeepsAgreement DEF workerVars
<1> QED
  BY <1>0, <1>1, <1>2, <1>3, <1>4, <1>5, <1>6, <1>7, <1>8, <1>9 DEF WorkerNext

(* The invariant that the theorems below are read off.                     *)
LEMMA AgreementHolds == OneCall /\ WorkerSpec => []Agreement
<1>1. OneCall /\ TypeOK /\ Agreement /\ [WorkerNext]_workerVars => Agreement'
  BY AgreementStep
<1>2. OneCall => []OneCall
  OBVIOUS
<1> QED BY AgreementInit, <1>1, <1>2, Typing, PTL DEF WorkerSpec

(* The store transaction writes the key list and the blob together, so a   *)
(* key that is listed has its blob and no blob is orphaned, wherever a     *)
(* call fails or the worker is terminated.                                 *)
THEOREM ListedKeysHaveBlobs == OneCall /\ WorkerSpec => []MetadataMatchesBlobs
BY AgreementHolds, PTL DEF Agreement

(* Between calls, #state is the stored vault up to its lock: a transaction *)
(* and the replacement of #state that follows it never come apart, though  *)
(* the connection may be lost and the vault locked between the two.        *)
THEOREM MemoryIsStored == OneCall /\ WorkerSpec => []MemoryMatchesStore
BY AgreementHolds, PTL DEF Agreement

(* Between calls, a remote session that may connect was told the keys of   *)
(* the vault, also when telling it threw on a closing socket and when      *)
(* connect came in the middle of a call.                                   *)
THEOREM IdentitiesAreTheVaults == OneCall /\ WorkerSpec => []IdentitiesMatchVault
BY AgreementHolds, PTL DEF Agreement
-----------------------------------------------------------------------------
(* What is left of the lock. *)

(* While a vault is being created there is none to lock.                   *)
CreatingFromNone ==
  \A c \in Calls : calls[c].stage # "idle" /\ calls[c].kind = "createVault" => state.status = "no-vault"

(* A locked vault is unlocked by a call that unlocks it or by a change of  *)
(* the keys that had read it before it was locked, and by nothing else.    *)
LockYieldsToCalls ==
  [][state.status = "locked" /\ state'.status = "unlocked" =>
       \E c \in Calls :
         /\ calls[c].stage = "committed" /\ calls'[c] = Idle
         /\ \/ calls[c].kind = "unlock"
            \/ calls[c].kind \in {"addKey", "removeKey"} /\ calls[c].base.status = "unlocked"]_workerVars

(* No step gives or takes a vault while one is being created.              *)
LEMMA CreatingStep ==
  ASSUME OneCall, TypeOK, CreatingFromNone, [WorkerNext]_workerVars
  PROVE  CreatingFromNone'
<1>1. CASE Load
  <2>1. \A c \in Calls : calls'[c] = Idle
    BY <1>1 DEF Load, TypeOK
  <2> QED BY <2>1 DEF CreatingFromNone, Idle
<1>2. CASE Lock \/ Hide \/ LinkLost
  <2>1. state' = Locked(state) /\ calls' = calls
    BY <1>2 DEF Lock, Hide, LinkLost
  <2>2. state.status = "no-vault" => state'.status = "no-vault"
    BY <2>1 DEF Locked
  <2> QED BY <2>1, <2>2 DEF CreatingFromNone
<1>3. CASE Connect \/ Show \/ LinkUp \/ LinkCloses \/ UNCHANGED workerVars
  BY <1>3 DEF Connect, Show, LinkUp, LinkCloses, workerVars, CreatingFromNone
<1>4. ASSUME NEW c \in Calls, NEW kind \in Kind, NEW key \in Keys \cup {None}, Begin(c, kind, key)
      PROVE  CreatingFromNone'
  <2>1. state' = state /\ calls'[c].kind = kind /\ state.status \in Requires(kind)
    BY <1>4 DEF Begin, TypeOK
  <2>2. kind = "createVault" => state.status = "no-vault"
    BY <2>1 DEF Requires
  <2> QED BY <2>1, <2>2 DEF OneCall, CreatingFromNone
<1>5. ASSUME NEW c \in Calls, Commit(c) PROVE CreatingFromNone'
  <2>1. /\ state' = state /\ calls[c].stage # "idle"
        /\ calls'[c].kind = calls[c].kind
    BY <1>5 DEF Commit, TypeOK
  <2> QED BY <2>1 DEF OneCall, CreatingFromNone
<1>6. ASSUME NEW c \in Calls, Reject(c) \/ Resume(c) PROVE CreatingFromNone'
  <2>1. calls'[c] = Idle
    BY <1>6 DEF Reject, Resume, TypeOK
  <2> QED BY <2>1 DEF OneCall, CreatingFromNone, Idle
<1>7. CASE Terminate
  BY <1>7 DEF Terminate, CreatingFromNone, Idle
<1> QED
  BY <1>1, <1>2, <1>3, <1>4, <1>5, <1>6, <1>7 DEF WorkerNext

(* The lock gives way to the calls that were under way when it was set and *)
(* to an unlock: a vault that is locked between calls stays locked until   *)
(* it is unlocked.                                                         *)
THEOREM LockHoldsBetweenCalls == OneCall /\ WorkerSpec => LockYieldsToCalls
<1> DEFINE Step == state.status = "locked" /\ state'.status = "unlocked" =>
             \E c \in Calls :
               /\ calls[c].stage = "committed" /\ calls'[c] = Idle
               /\ \/ calls[c].kind = "unlock"
                  \/ calls[c].kind \in {"addKey", "removeKey"} /\ calls[c].base.status = "unlocked"
<1>1. OneCall => []OneCall
  OBVIOUS
<1>2. WorkerInit => CreatingFromNone
  BY DEF WorkerInit, CreatingFromNone, Idle
<1>3. OneCall /\ TypeOK /\ CreatingFromNone /\ [WorkerNext]_workerVars => CreatingFromNone'
  BY CreatingStep
<1>4. TypeOK /\ CreatingFromNone /\ [WorkerNext]_workerVars => [Step]_workerVars
  <2> SUFFICES ASSUME TypeOK, CreatingFromNone, [WorkerNext]_workerVars,
                      state.status = "locked", state'.status = "unlocked"
               PROVE  \E c \in Calls :
                        /\ calls[c].stage = "committed" /\ calls'[c] = Idle
                        /\ \/ calls[c].kind = "unlock"
                           \/ calls[c].kind \in {"addKey", "removeKey"} /\ calls[c].base.status = "unlocked"
    OBVIOUS
  <2>1. CASE Load \/ Terminate
    BY <2>1 DEF Load, Terminate, Unloaded
  <2>2. CASE Lock \/ Hide \/ LinkLost
    BY <2>2 DEF Lock, Hide, LinkLost, Locked
  <2>3. CASE Connect \/ Show \/ LinkUp \/ LinkCloses \/ UNCHANGED workerVars
    BY <2>3 DEF Connect, Show, LinkUp, LinkCloses, workerVars
  <2>4. CASE \E c \in Calls : \/ \E kind \in Kind, key \in Keys \cup {None} : Begin(c, kind, key)
                              \/ Commit(c) \/ Reject(c)
    BY <2>4 DEF Begin, Commit, Reject
  <2>5. ASSUME NEW c \in Calls, Resume(c)
        PROVE  /\ calls[c].stage = "committed" /\ calls'[c] = Idle
               /\ \/ calls[c].kind = "unlock"
                  \/ calls[c].kind \in {"addKey", "removeKey"} /\ calls[c].base.status = "unlocked"
    <3>1. /\ calls[c].stage = "committed" /\ calls'[c] = Idle /\ state' = Result(calls[c])
          /\ Started(calls[c])
      BY <2>5 DEF Resume, TypeOK, Idle
    <3>2. calls[c].kind # "createVault"
      BY <3>1 DEF CreatingFromNone
    <3>3. calls[c].kind # "destroy"
      BY <3>1 DEF Result, NoVault
    <3>4. calls[c].kind = "addKey" => calls[c].base.status = "unlocked"
      BY <3>1 DEF Started, Requires
    <3>5. calls[c].kind = "removeKey" => calls[c].base.status = "unlocked"
      <4>1. calls[c].base \in VaultStates
        BY DEF TypeOK
      <4> QED BY <3>1, <4>1 DEF Result, VaultStates
    <3> QED BY <3>1, <3>2, <3>3, <3>4, <3>5 DEF Started, Kind
  <2> QED BY <2>1, <2>2, <2>3, <2>4, <2>5 DEF WorkerNext
<1> QED
  BY <1>1, <1>2, <1>3, <1>4, Typing, PTL DEF WorkerSpec, LockYieldsToCalls
=============================================================================
