------------------------ MODULE RemoteSessionProofs ------------------------
(***************************************************************************)
(* The pairing slot is safe for every set of clients and values: revoked   *)
(* clients stay out, a granted pairing keeps the slot, and the identities  *)
(* advertised are the paired client's own.                                 *)
(*                                                                         *)
(* None of these is inductive alone.  What holds them together is which    *)
(* write may be in progress for which state in memory (WriteFits), that    *)
(* every id in memory, in the write and on disk was generated once         *)
(* (IdsUsed), and that an aborted clear has announced itself (OrphanFits). *)
(*                                                                         *)
(* A connection task never works for a client that is not paired, unless a *)
(* revocation is already waiting for it, and the broker's slot is never    *)
(* leaked: for any number of connections, clients and values.              *)
(*                                                                         *)
(* The argument: a task subscribed at a generation that is not in the      *)
(* future (SeenPast), the slot of the pairing changes hands only through   *)
(* the unpaired state, and only an acknowledged clear, which raises the    *)
(* generation, leads there.                                                *)
(***************************************************************************)
EXTENDS RemoteSession, TLAPS

(* Ids that are anywhere were generated by pair; requests are about those. *)
IdsUsed ==
  /\ client.id \in used \cup {None}
  /\ write.next.id \in used \cup {None}
  /\ \A d \in disk : d.id \in used \cup {None}
  /\ granted \subseteq used
  /\ contested \subseteq used
  /\ cleared \subseteq contested

(* The write in progress follows from the state in memory.                 *)
WriteFits ==
  /\ write # Idle => up
  /\ write.op = "pair" =>
       client = Unpaired /\ write.next.id \in Clients /\ write.next.identities = None
  /\ write.op \in {"authenticate", "set_push_subscription", "set_identities"} =>
       client # Unpaired /\ write.next.id = client.id
  /\ write.op \in {"authenticate", "set_push_subscription"} =>
       write.next.identities = client.identities
  /\ write.op = "clear" =>
       client # Unpaired /\ client.id \in contested /\ write.next = Unpaired /\ ~orphaned

(* An aborted clear is about the client that is still in memory.           *)
OrphanFits == orphaned => up /\ client # Unpaired /\ client.id \in contested

PairingInv ==
  /\ PairingTypeOK
  /\ IdsUsed
  /\ WriteFits
  /\ OrphanFits
  /\ RevokedStaysOut
  /\ AdvertisedIsStored
  /\ IdentitiesAreOwn
  /\ GrantedHoldsSlot

(* A state of the service is a paired client or the unpaired state.        *)
LEMMA StateCases ==
  ASSUME NEW p \in PairingState
  PROVE  /\ p # Unpaired => p \in PairedClient /\ p.id \in Clients
         /\ p = Unpaired => p.id = None /\ p.identities = None
         /\ p.id = None => p = Unpaired
         /\ p.identities \in Values \cup {None}
  BY NoneIsNoClient DEF PairingState, PairedClient, Unpaired

(* The daemon starts with nothing claimed, stored or advertised.           *)
LEMMA InitEstablishes == PairingInit => PairingInv
  <1> SUFFICES ASSUME PairingInit PROVE PairingInv
    OBVIOUS
  <1>1. client = Unpaired /\ write = Idle /\ disk = {NoFile}
    BY DEF PairingInit
  <1>2. Unpaired.id = None /\ Unpaired.identities = None /\ NoFile.id = None
        /\ Idle.next = Unpaired /\ Idle.op = "idle" /\ Unpaired \in PairingState
    BY DEF Unpaired, NoFile, Idle, PairingState
  <1>3. PairingTypeOK
    BY <1>2 DEF PairingInit, PairingTypeOK
  <1>4. IdsUsed
    BY <1>2 DEF PairingInit, IdsUsed
  <1>5. WriteFits /\ OrphanFits
    BY <1>1, <1>2 DEF PairingInit, WriteFits, OrphanFits
  <1>6. RevokedStaysOut /\ AdvertisedIsStored /\ IdentitiesAreOwn /\ GrantedHoldsSlot
    BY <1>1, <1>2
    DEF PairingInit, RevokedStaysOut, AdvertisedIsStored, IdentitiesAreOwn, GrantedHoldsSlot
  <1> QED BY <1>3, <1>4, <1>5, <1>6 DEF PairingInv

(* Claiming the slot.                                                      *)
LEMMA PairStep ==
  ASSUME PairingInv, NEW c \in Clients, Pair(c)
  PROVE  PairingInv'
  <1> DEFINE next == [id |-> c, push |-> None, identities |-> None]
  <1>1. next \in PairingState /\ next.id = c /\ next.identities = None
    BY DEF PairingState, PairedClient
  <1>2. write' = [op |-> "pair", next |-> next] /\ used' = used \cup {c}
        /\ up /\ client = Unpaired /\ c \notin used
        /\ UNCHANGED <<client, disk, orphaned, identities, generation, up, granted, cleared,
                       contested, registered>>
    BY DEF Pair, Begin
  <1>3. PairingTypeOK'
    BY <1>1, <1>2 DEF PairingInv, PairingTypeOK, Operation
  <1>4. IdsUsed'
    BY <1>1, <1>2 DEF PairingInv, IdsUsed
  <1>5. WriteFits' /\ OrphanFits'
    BY <1>1, <1>2 DEF PairingInv, WriteFits, OrphanFits
  <1>6. RevokedStaysOut'
    BY <1>1, <1>2 DEF PairingInv, RevokedStaysOut, IdsUsed
  <1>7. AdvertisedIsStored' /\ GrantedHoldsSlot'
    BY <1>2 DEF PairingInv, AdvertisedIsStored, GrantedHoldsSlot
  <1>8. IdentitiesAreOwn'
    BY <1>1, <1>2 DEF PairingInv, IdentitiesAreOwn
  <1> QED BY <1>3, <1>4, <1>5, <1>6, <1>7, <1>8 DEF PairingInv

(* Writing a change of the paired client.                                  *)
LEMMA UpdateStep ==
  ASSUME PairingInv, NEW op \in {"authenticate", "set_push_subscription", "set_identities"},
         NEW next \in PairingState,
         up, client # Unpaired, next.id = client.id,
         op # "set_identities" => next.identities = client.identities /\ registered' = registered,
         op = "set_identities" => registered' = registered \cup {<<client.id, next.identities>>},
         next.identities \in Values \/ op # "set_identities",
         Begin(op, next), UNCHANGED <<used, contested>>
  PROVE  PairingInv'
  <1>1. /\ write' = [op |-> op, next |-> next]
        /\ UNCHANGED <<client, disk, orphaned, identities, generation, up, granted, cleared>>
    BY DEF Begin
  <1>2. client.id \in Clients
    BY StateCases DEF PairingInv, PairingTypeOK
  <1>3. PairingTypeOK'
    BY <1>1, <1>2 DEF PairingInv, PairingTypeOK, Operation
  <1>4. IdsUsed' /\ WriteFits' /\ OrphanFits'
    BY <1>1 DEF PairingInv, IdsUsed, WriteFits, OrphanFits
  <1>5. RevokedStaysOut' /\ AdvertisedIsStored' /\ GrantedHoldsSlot'
    BY <1>1 DEF PairingInv, RevokedStaysOut, AdvertisedIsStored, GrantedHoldsSlot
  <1>6. IdentitiesAreOwn'
    BY <1>1 DEF PairingInv, IdentitiesAreOwn
  <1> QED BY <1>3, <1>4, <1>5, <1>6 DEF PairingInv

(* A control connection asks to clear the pairing.                         *)
LEMMA ClearStep ==
  ASSUME PairingInv, Clear
  PROVE  PairingInv'
  <1>1. /\ write' = [op |-> "clear", next |-> Unpaired]
        /\ up /\ client # Unpaired /\ ~orphaned /\ contested' = contested \cup {client.id}
        /\ UNCHANGED <<client, disk, orphaned, identities, generation, up, granted, cleared,
                       used, registered>>
    BY DEF Clear, Begin
  <1>2. client.id \in Clients /\ client.id \in used
    BY <1>1, StateCases, NoneIsNoClient DEF PairingInv, PairingTypeOK, IdsUsed
  <1>3. Unpaired \in PairingState /\ Unpaired.id = None /\ Unpaired.identities = None
    BY DEF PairingState, Unpaired
  <1>4. PairingTypeOK'
    BY <1>1, <1>2, <1>3 DEF PairingInv, PairingTypeOK, Operation
  <1>5. IdsUsed' /\ WriteFits' /\ OrphanFits'
    BY <1>1, <1>2, <1>3 DEF PairingInv, IdsUsed, WriteFits, OrphanFits
  <1>6. RevokedStaysOut'
    BY <1>1, <1>3, NoneIsNoClient DEF PairingInv, RevokedStaysOut, PairingTypeOK
  <1>7. AdvertisedIsStored' /\ GrantedHoldsSlot'
    BY <1>1 DEF PairingInv, AdvertisedIsStored, GrantedHoldsSlot
  <1>8. IdentitiesAreOwn'
    BY <1>1, <1>3 DEF PairingInv, IdentitiesAreOwn
  <1> QED BY <1>4, <1>5, <1>6, <1>7, <1>8 DEF PairingInv

(* What the idle writer is.                                                *)
LEMMA IdleFits ==
  /\ Idle.next = Unpaired /\ Idle.op = "idle"
  /\ Unpaired \in PairingState /\ Unpaired.id = None /\ Unpaired.identities = None
  BY DEF Idle, Unpaired, PairingState

(* Only one client can be granted and not contested, and the contents that *)
(* a write adds to the doubt agree with it.                                *)
LEMMA WriteAgrees ==
  ASSUME PairingInv, write # Idle
  PROVE  /\ write.op \in Operation /\ write.next \in PairingState
         /\ up
         /\ \A c \in granted \ contested : write.next.id = c /\ write.op \notin {"pair", "clear"}
  <1>1. write.op \in Operation /\ write.next \in PairingState /\ up
    BY DEF PairingInv, PairingTypeOK, WriteFits
  <1>2. ASSUME NEW c \in granted \ contested
        PROVE  write.next.id = c /\ write.op \notin {"pair", "clear"}
    <2>1. client.id = c /\ c \in Clients /\ c \notin contested
      BY <1>1 DEF PairingInv, GrantedHoldsSlot, PairingTypeOK
    <2>2. client # Unpaired
      BY <2>1, IdleFits, NoneIsNoClient
    <2> QED BY <1>1, <2>1, <2>2 DEF PairingInv, WriteFits, Operation
  <1> QED BY <1>1, <1>2

(* A write that fails, before or after the rename, or that a crash cuts:   *)
(* the invariant does not depend on whether its contents reached the disk. *)
LEMMA DoubtStep ==
  ASSUME PairingInv, write # Idle,
         disk' \in {disk, disk \cup {write.next}}, write' = Idle,
         \/ UNCHANGED <<up, orphaned>>
         \/ up' = FALSE /\ orphaned' = FALSE,
         UNCHANGED <<client, identities, generation, used, granted, contested, cleared, registered>>
  PROVE  PairingInv'
  <1>1. PairingTypeOK'
    BY WriteAgrees DEF PairingInv, PairingTypeOK
  <1>2. IdsUsed'
    BY IdleFits DEF PairingInv, IdsUsed
  <1>3. WriteFits' /\ OrphanFits'
    <2>1. WriteFits'
      BY IdleFits DEF WriteFits
    <2>2. CASE UNCHANGED <<up, orphaned>>
      BY <2>1, <2>2 DEF PairingInv, OrphanFits
    <2>3. CASE up' = FALSE /\ orphaned' = FALSE
      BY <2>1, <2>3 DEF OrphanFits
    <2> QED BY <2>2, <2>3
  <1>4. RevokedStaysOut'
    BY IdleFits, NoneIsNoClient DEF PairingInv, RevokedStaysOut, PairingTypeOK
  <1>5. AdvertisedIsStored' /\ IdentitiesAreOwn'
    BY IdleFits DEF PairingInv, AdvertisedIsStored, IdentitiesAreOwn
  <1>6. GrantedHoldsSlot'
    BY WriteAgrees DEF PairingInv, GrantedHoldsSlot
  <1> QED BY <1>1, <1>2, <1>3, <1>4, <1>5, <1>6 DEF PairingInv

(* A write that is acknowledged, of any operation but clear.               *)
LEMMA SavedStep ==
  ASSUME PairingInv, write # Idle, write.op # "clear", Finish("saved")
  PROVE  PairingInv'
  <1>1. /\ write' = Idle /\ client' = write.next
        /\ disk' = {write.next} \cup (IF orphaned THEN {Unpaired} ELSE {})
        /\ identities' = IF write.op = "set_identities" THEN write.next.identities ELSE identities
        /\ generation' = generation
        /\ granted' = IF write.op = "pair" THEN granted \cup {write.next.id} ELSE granted
        /\ UNCHANGED <<cleared, orphaned, up, used, contested, registered>>
    BY WriteAgrees DEF Finish, Stored, Published, Written, Operation
  <1>2. write.op \in Operation /\ write.next \in PairingState /\ up
    BY WriteAgrees
  <1>3. write.next # Unpaired /\ write.next.id \in Clients
    BY <1>2, StateCases, IdleFits, NoneIsNoClient
    DEF PairingInv, PairingTypeOK, WriteFits, Operation
  <1>4. PairingTypeOK'
    <2>1. write.next.identities \in Values \cup {None}
      BY <1>2, StateCases
    <2> QED BY <1>1, <1>2, <1>3, <2>1, IdleFits DEF PairingInv, PairingTypeOK
  <1>5. IdsUsed'
    BY <1>1, <1>2, <1>3, IdleFits, NoneIsNoClient DEF PairingInv, IdsUsed, PairingTypeOK
  <1>6. WriteFits'
    BY <1>1, IdleFits DEF WriteFits
  <1>7. OrphanFits'
    <2>1. orphaned => client # Unpaired /\ client.id \in contested /\ write.op # "pair"
      BY DEF PairingInv, OrphanFits, WriteFits
    <2> QED BY <1>1, <1>2, <1>3, <2>1 DEF PairingInv, OrphanFits, WriteFits, Operation
  <1>8. RevokedStaysOut'
    BY <1>1, <1>2, IdleFits, NoneIsNoClient DEF PairingInv, RevokedStaysOut, PairingTypeOK
  <1>9. AdvertisedIsStored'
    <2>1. write.op = "pair" => client.identities = None /\ write.next.identities = None
      BY IdleFits DEF PairingInv, WriteFits
    <2> QED BY <1>1, <1>2, <2>1 DEF PairingInv, AdvertisedIsStored, WriteFits, Operation
  <1>10. IdentitiesAreOwn'
    BY <1>1, IdleFits DEF PairingInv, IdentitiesAreOwn
  <1>11. GrantedHoldsSlot'
    <2> SUFFICES ASSUME NEW c \in granted' \ contested'
                 PROVE  client'.id = c /\ \A d \in disk' : d.id = c
      BY DEF GrantedHoldsSlot
    <2>1. write.next.id = c
      BY <1>1, WriteAgrees
    <2>2. ~orphaned
      <3>1. CASE write.op = "pair"
        BY <3>1 DEF PairingInv, OrphanFits, WriteFits
      <3>2. CASE write.op # "pair"
        BY <3>2, <1>1, <1>2, <2>1 DEF PairingInv, OrphanFits, WriteFits, Operation
      <3> QED BY <3>1, <3>2
    <2> QED BY <1>1, <2>1, <2>2
  <1> QED BY <1>4, <1>5, <1>6, <1>7, <1>8, <1>9, <1>10, <1>11 DEF PairingInv

(* A clear that is acknowledged.                                           *)
LEMMA ClearedStep ==
  ASSUME PairingInv, write.op = "clear", Finish("saved")
  PROVE  PairingInv'
  <1>1. /\ write' = Idle /\ client' = Unpaired /\ disk' = {Unpaired}
        /\ identities' = None /\ generation' = generation + 1
        /\ cleared' = cleared \cup {client.id}
        /\ UNCHANGED <<granted, orphaned, up, used, contested, registered>>
    BY DEF Finish, Stored, Published, Written, PairingInv, WriteFits
  <1>2. client.id \in Clients /\ client.id \in contested /\ write # Idle
    BY StateCases, IdleFits DEF PairingInv, PairingTypeOK, WriteFits
  <1>3. OrphanFits'
    BY <1>1 DEF PairingInv, OrphanFits, WriteFits
  <1>4. PairingTypeOK'
    BY <1>1, <1>2, IdleFits DEF PairingInv, PairingTypeOK
  <1>5. IdsUsed' /\ WriteFits'
    BY <1>1, <1>2, IdleFits DEF PairingInv, IdsUsed, WriteFits
  <1>6. RevokedStaysOut'
    BY <1>1, <1>2, IdleFits, NoneIsNoClient DEF PairingInv, RevokedStaysOut, PairingTypeOK
  <1>7. AdvertisedIsStored' /\ IdentitiesAreOwn'
    BY <1>1, IdleFits DEF AdvertisedIsStored, IdentitiesAreOwn
  <1>8. GrantedHoldsSlot'
    BY <1>1, <1>2, WriteAgrees DEF GrantedHoldsSlot
  <1> QED BY <1>3, <1>4, <1>5, <1>6, <1>7, <1>8 DEF PairingInv

(* The write returns.                                                      *)
LEMMA FinishStep ==
  ASSUME PairingInv, NEW outcome \in Outcome, Finish(outcome)
  PROVE  PairingInv'
  <1>1. write # Idle
    BY DEF Finish
  <1>2. CASE outcome = "saved"
    BY <1>1, <1>2, SavedStep, ClearedStep
  <1>3. CASE outcome # "saved"
    <2>1. /\ disk' \in {disk, disk \cup {write.next}} /\ write' = Idle
          /\ UNCHANGED <<client, identities, generation, up, orphaned, used, granted, contested,
                         cleared, registered>>
      BY <1>3 DEF Finish, Written, Outcome
    <2> QED BY <1>1, <2>1, DoubtStep
  <1> QED BY <1>2, <1>3

(* Shutdown aborts a clear.                                                *)
LEMMA AbortStep ==
  ASSUME PairingInv, AbortClear
  PROVE  PairingInv'
  <1>1. /\ up /\ write.op = "clear" /\ write' = Idle /\ orphaned' = TRUE
        /\ disk' = disk \cup {Unpaired}
        /\ UNCHANGED <<client, identities, generation, up, used, granted, contested, cleared,
                       registered>>
    BY DEF AbortClear
  <1>2. client # Unpaired /\ client.id \in contested /\ write # Idle
    BY <1>1, IdleFits DEF PairingInv, WriteFits
  <1>3. PairingTypeOK' /\ IdsUsed'
    BY <1>1, IdleFits DEF PairingInv, PairingTypeOK, IdsUsed
  <1>4. WriteFits'
    BY <1>1, IdleFits DEF WriteFits
  <1>5. OrphanFits'
    BY <1>1, <1>2 DEF OrphanFits
  <1>6. RevokedStaysOut'
    BY <1>1, IdleFits, NoneIsNoClient DEF PairingInv, RevokedStaysOut, PairingTypeOK
  <1>7. AdvertisedIsStored' /\ IdentitiesAreOwn'
    BY <1>1, IdleFits DEF PairingInv, AdvertisedIsStored, IdentitiesAreOwn
  <1>8. GrantedHoldsSlot'
    BY <1>1, <1>2, WriteAgrees DEF GrantedHoldsSlot
  <1> QED BY <1>3, <1>4, <1>5, <1>6, <1>7, <1>8 DEF PairingInv

(* The daemon crashes.                                                     *)
LEMMA CrashStep ==
  ASSUME PairingInv, Crash
  PROVE  PairingInv'
  <1>1. CASE write # Idle
    BY <1>1, DoubtStep DEF Crash
  <1>2. CASE write = Idle
    <2>1. /\ up' = FALSE /\ write' = write /\ orphaned' = FALSE
          /\ UNCHANGED <<disk, client, identities, generation, used, granted, contested, cleared,
                         registered>>
      BY <1>2 DEF Crash
    <2>2. PairingTypeOK' /\ IdsUsed'
      BY <2>1 DEF PairingInv, PairingTypeOK, IdsUsed
    <2>3. WriteFits' /\ OrphanFits'
      BY <1>2, <2>1, IdleFits DEF WriteFits, OrphanFits
    <2>4. RevokedStaysOut' /\ AdvertisedIsStored' /\ IdentitiesAreOwn' /\ GrantedHoldsSlot'
      BY <2>1
      DEF PairingInv, RevokedStaysOut, AdvertisedIsStored, IdentitiesAreOwn, GrantedHoldsSlot
    <2> QED BY <2>2, <2>3, <2>4 DEF PairingInv
  <1> QED BY <1>1, <1>2

(* The daemon starts with whatever contents it finds.                      *)
LEMMA OpenStep ==
  ASSUME PairingInv, Open
  PROVE  PairingInv'
  <1>1. /\ ~up /\ generation' = 0
        /\ UNCHANGED <<write, orphaned, used, granted, contested, cleared, registered>>
    BY DEF Open
  <1>2. write = Idle /\ ~orphaned
    BY <1>1 DEF PairingInv, WriteFits, OrphanFits
  <1>3. WriteFits' /\ OrphanFits'
    BY <1>1, <1>2, IdleFits DEF WriteFits, OrphanFits
  <1>4. NoFile.id = None
    BY DEF NoFile
  <1>5. PICK found \in disk :
          \/ /\ found = NoFile
             /\ \/ client' = Unpaired /\ identities' = None /\ disk' = {Unpaired} /\ up' = TRUE
                \/ disk' \in {disk, disk \cup {Unpaired}} /\ UNCHANGED <<client, identities, up>>
          \/ /\ found # NoFile /\ client' = found /\ identities' = found.identities
             /\ up' = TRUE /\ disk' = disk
    BY DEF Open
  <1>6. CASE found = NoFile
    <2>1. granted \ contested = {}
      BY <1>4, <1>6, NoneIsNoClient DEF PairingInv, GrantedHoldsSlot, PairingTypeOK
    <2>2. \/ client' = Unpaired /\ identities' = None /\ disk' = {Unpaired} /\ up' = TRUE
          \/ disk' \in {disk, disk \cup {Unpaired}} /\ UNCHANGED <<client, identities, up>>
      BY <1>5, <1>6
    <2>3. PairingTypeOK'
      BY <1>1, <2>2, IdleFits DEF PairingInv, PairingTypeOK
    <2>4. IdsUsed'
      BY <1>1, <2>2, IdleFits DEF PairingInv, IdsUsed
    <2>5. RevokedStaysOut'
      BY <1>1, <2>2, IdleFits, NoneIsNoClient DEF PairingInv, RevokedStaysOut, PairingTypeOK
    <2>6. AdvertisedIsStored' /\ IdentitiesAreOwn'
      BY <1>1, <2>2, IdleFits DEF PairingInv, AdvertisedIsStored, IdentitiesAreOwn
    <2>7. GrantedHoldsSlot'
      BY <1>1, <2>1 DEF GrantedHoldsSlot
    <2> QED BY <1>3, <2>3, <2>4, <2>5, <2>6, <2>7 DEF PairingInv
  <1>7. CASE found # NoFile
    <2>1. client' = found /\ identities' = found.identities /\ up' = TRUE /\ disk' = disk
      BY <1>5, <1>7
    <2>2. found \in PairingState /\ found.identities \in Values \cup {None}
      BY <1>7, StateCases DEF PairingInv, PairingTypeOK
    <2>3. PairingTypeOK'
      BY <1>1, <2>1, <2>2 DEF PairingInv, PairingTypeOK
    <2>4. IdsUsed' /\ RevokedStaysOut' /\ AdvertisedIsStored' /\ GrantedHoldsSlot'
      BY <1>1, <2>1 DEF PairingInv, IdsUsed, RevokedStaysOut, AdvertisedIsStored, GrantedHoldsSlot
    <2>5. IdentitiesAreOwn'
      BY <1>1, <1>7, <2>1 DEF PairingInv, IdentitiesAreOwn
    <2> QED BY <1>3, <2>3, <2>4, <2>5 DEF PairingInv
  <1> QED BY <1>6, <1>7

(* A change of the paired client keeps its id; a registration is recorded. *)
LEMMA ClientStep ==
  ASSUME PairingInv, NEW c \in Clients,
         \/ Authenticate(c)
         \/ \E v \in Values : SetPushSubscription(c, v) \/ SetIdentities(c, v)
  PROVE  PairingInv'
  <1>1. client # Unpaired /\ client \in PairedClient /\ client \in PairingState /\ client.id = c /\ up
    BY StateCases
    DEF PairingInv, PairingTypeOK, Paired, Authenticate, SetPushSubscription, SetIdentities
  <1>2. CASE Authenticate(c)
    BY <1>1, <1>2, UpdateStep DEF Authenticate
  <1>3. ASSUME NEW v \in Values, SetPushSubscription(c, v) PROVE PairingInv'
    <2> DEFINE next == [client EXCEPT !.push = v]
    <2>1. next \in PairingState /\ next.id = client.id /\ next.identities = client.identities
      BY <1>1 DEF PairingState, PairedClient
    <2> QED BY <1>1, <1>3, <2>1, UpdateStep DEF SetPushSubscription
  <1>4. ASSUME NEW v \in Values, SetIdentities(c, v) PROVE PairingInv'
    <2> DEFINE next == [client EXCEPT !.identities = v]
    <2>1. next \in PairingState /\ next.id = client.id /\ next.identities = v
      BY <1>1 DEF PairingState, PairedClient
    <2> QED BY <1>1, <1>4, <2>1, UpdateStep DEF SetIdentities
  <1> QED BY <1>2, <1>3, <1>4

(* Every step of the service, the store and the daemon.                    *)
LEMMA PairingStep == PairingInv /\ [PairingNext]_pairingVars => PairingInv'
  <1> SUFFICES ASSUME PairingInv, [PairingNext]_pairingVars PROVE PairingInv'
    OBVIOUS
  <1>1. CASE PairingNext
    BY <1>1, PairStep, ClientStep, ClearStep, FinishStep, AbortStep, CrashStep, OpenStep
    DEF PairingNext
  <1>2. CASE UNCHANGED pairingVars
    BY <1>2
    DEF pairingVars, PairingInv, PairingTypeOK, IdsUsed, WriteFits, OrphanFits, RevokedStaysOut,
        AdvertisedIsStored, IdentitiesAreOwn, GrantedHoldsSlot
  <1> QED BY <1>1, <1>2

(* The inductive invariant holds throughout.                               *)
LEMMA PairingInvariant == PairingSpec => []PairingInv
  BY InitEstablishes, PairingStep, PTL DEF PairingSpec

(* Every variable of the service and the store keeps its type.             *)
THEOREM PairingTypeCorrect == PairingSpec => []PairingTypeOK
  BY PairingInvariant, PTL DEF PairingInv

(* A client whose removal clear has reported is never paired again, in     *)
(* memory or after a restart, whatever writes failed or were cut.          *)
THEOREM RevocationSafe == PairingSpec => []RevokedStaysOut
  BY PairingInvariant, PTL DEF PairingInv

(* The identities advertised locally are the stored ones.                  *)
THEOREM AdvertisementSafe == PairingSpec => []AdvertisedIsStored
  BY PairingInvariant, PTL DEF PairingInv

(* Stored identities were registered by the client they are stored for.    *)
THEOREM OwnershipSafe == PairingSpec => []IdentitiesAreOwn
  BY PairingInvariant, PTL DEF PairingInv

(* A granted pairing holds the slot until somebody asks to clear it.       *)
THEOREM SlotSafe == PairingSpec => []GrantedHoldsSlot
  BY PairingInvariant, PTL DEF PairingInv
-----------------------------------------------------------------------------
(* The sessions. *)

(* Subscriptions are not ahead of the counter, and no task outlives the    *)
(* daemon.                                                                 *)
SeenPast ==
  /\ \A s \in Sessions : seen[s] <= generation
  /\ \A s \in Sessions : phase[s] = "closed" => seen[s] = 0
  /\ ~up => \A s \in Sessions : phase[s] = "closed"

(* The task that waits for the store is the one whose operation is being   *)
(* written, and an authorized task knows its client.                       *)
HolderFits ==
  \A s \in Sessions :
    /\ phase[s] = "authorizing" =>
         /\ holder = s
         /\ write.op \in {"pair", "authenticate"}
         /\ write.next.id \in Clients
    /\ phase[s] = "updating" =>
         holder = s /\ write.op \in {"set_push_subscription", "set_identities"}
    /\ phase[s] \in Authorized => as[s] \in Clients

SessionInv ==
  /\ PairingInv
  /\ SessionTypeOK
  /\ SeenPast
  /\ HolderFits
  /\ ServedIsPaired
  /\ SlotIsHeld

(* A step of a task that leaves the pairing alone.                         *)
LEMMA QuietPairing ==
  ASSUME PairingInv, UNCHANGED pairingVars
  PROVE  PairingInv'
  BY PairingStep

(* Every step of the composition is a step of the pairing service, or      *)
(* leaves it alone.                                                        *)
LEMMA SessionStepsPair == SessionNext => [PairingNext]_pairingVars
  <1> SUFFICES ASSUME SessionNext PROVE [PairingNext]_pairingVars
    OBVIOUS
  <1>1. ASSUME NEW s \in Sessions, NEW c \in Clients,
               \/ RequestPair(s, c)
               \/ RequestAuthenticate(s, c)
               \/ \E v \in Values : BeginUpdate(s, c, v)
        PROVE  PairingNext
    BY <1>1 DEF PairingNext, RequestPair, RequestAuthenticate, BeginUpdate
  <1>2. ASSUME NEW s \in Sessions, SessionStep(s)
        PROVE  [PairingNext]_pairingVars
    BY <1>2
    DEF SessionStep, PairingNext, FinishAuthorization, FinishUpdate, BindRemote, RefuseRemote,
        SendHandshake, HandshakeFails, Leave
  <1>3. ASSUME NEW s \in Sessions,
               \/ Accept(s) \/ RefuseHandshake(s) \/ BreakLoop(s) \/ SendCommand(s)
               \/ FinishSend(s) \/ Pong(s) \/ Heartbeat(s) \/ Revoked(s) \/ BrowserGone(s)
        PROVE  UNCHANGED pairingVars
    BY <1>3
    DEF Accept, RefuseHandshake, BreakLoop, SendCommand, FinishSend, Pong, Heartbeat, Revoked,
        BrowserGone
  <1>4. ASSUME \/ ControlClear \/ ControlAbort \/ DaemonCrash \/ DaemonOpen
               \/ \E outcome \in Outcome : ControlFinish(outcome)
        PROVE  PairingNext
    BY <1>4
    DEF PairingNext, ControlClear, ControlAbort, DaemonCrash, DaemonOpen, ControlFinish
  <1> QED BY <1>1, <1>2, <1>3, <1>4 DEF SessionNext

(* No task exists when the daemon first starts.                            *)
LEMMA SessionInitEstablishes == SessionInit => SessionInv
  <1> SUFFICES ASSUME SessionInit PROVE SessionInv
    OBVIOUS
  <1>1. PairingInv
    BY InitEstablishes DEF SessionInit
  <1>2. SessionTypeOK
    BY <1>1 DEF SessionInit, PairingInv, SessionTypeOK, Phase
  <1>3. SeenPast
    BY DEF SessionInit, PairingInit, SeenPast
  <1>4. HolderFits /\ ServedIsPaired
    BY DEF SessionInit, HolderFits, ServedIsPaired, Authorized
  <1>5. SlotIsHeld
    BY NoneIsNoSession DEF SessionInit, SlotIsHeld, Bound
  <1> QED BY <1>1, <1>2, <1>3, <1>4, <1>5 DEF SessionInv

(* The slot stays with its task when the task moves within, or outside,    *)
(* the phases that hold it.                                                *)
LEMMA SlotKept ==
  ASSUME SessionTypeOK, SlotIsHeld, NEW s \in Sessions, NEW p \in Phase,
         phase' = [phase EXCEPT ![s] = p], slot' = slot,
         p \in Bound <=> phase[s] \in Bound
  PROVE  SlotIsHeld'
  <1> SUFFICES ASSUME NEW t \in Sessions PROVE slot' = t <=> phase'[t] \in Bound
    BY DEF SlotIsHeld
  <1>1. slot = t <=> phase[t] \in Bound
    BY DEF SlotIsHeld
  <1>2. phase'[t] = IF t = s THEN p ELSE phase[t]
    BY DEF SessionTypeOK
  <1> QED BY <1>1, <1>2

(* A task subscribes and waits for its first message.                      *)
LEMMA AcceptStep ==
  ASSUME SessionInv, NEW s \in Sessions, Accept(s)
  PROVE  SessionInv'
  <1>1. PairingInv' /\ PairingTypeOK'
    BY QuietPairing DEF SessionInv, PairingInv, Accept
  <1>2. SessionTypeOK'
    BY <1>1 DEF SessionInv, SessionTypeOK, Phase, PairingInv, PairingTypeOK, Accept, Moves
  <1>3. SeenPast'
    BY DEF SessionInv, SessionTypeOK, PairingInv, PairingTypeOK, SeenPast, pairingVars,
       Accept, Moves
  <1>4. HolderFits'
    BY DEF SessionInv, SessionTypeOK, HolderFits, Authorized, pairingVars, Accept, Moves
  <1>5. ServedIsPaired'
    BY DEF SessionInv, SessionTypeOK, ServedIsPaired, Authorized, pairingVars, Accept, Moves
  <1>6. SlotIsHeld'
    <2>1. "hello" \in Phase /\ phase' = [phase EXCEPT ![s] = "hello"] /\ slot' = slot
          /\ ("hello" \in Bound <=> phase[s] \in Bound)
      BY DEF Phase, Bound, SessionInv, HolderFits, SlotIsHeld, Accept, Moves
    <2> QED BY <2>1, SlotKept DEF SessionInv
  <1> QED BY <1>1, <1>2, <1>3, <1>4, <1>5, <1>6 DEF SessionInv

(* A task returns without asking the pairing service, or refused by it.    *)
LEMMA RefuseHandshakeStep ==
  ASSUME SessionInv, NEW s \in Sessions, RefuseHandshake(s)
  PROVE  SessionInv'
  <1>1. PairingInv' /\ PairingTypeOK'
    BY QuietPairing DEF SessionInv, PairingInv, RefuseHandshake
  <1>2. SessionTypeOK'
    BY <1>1 DEF SessionInv, SessionTypeOK, Phase, RefuseHandshake, Returns
  <1>3. SeenPast'
    BY DEF SessionInv, SessionTypeOK, PairingInv, PairingTypeOK, SeenPast, pairingVars,
       RefuseHandshake, Returns
  <1>4. HolderFits'
    BY DEF SessionInv, SessionTypeOK, HolderFits, Authorized, pairingVars, RefuseHandshake, Returns
  <1>5. ServedIsPaired'
    BY DEF SessionInv, SessionTypeOK, ServedIsPaired, Authorized, pairingVars,
       RefuseHandshake, Returns
  <1>6. SlotIsHeld'
    <2>1. "closed" \in Phase /\ phase' = [phase EXCEPT ![s] = "closed"] /\ slot' = slot
          /\ ("closed" \in Bound <=> phase[s] \in Bound)
      BY DEF Phase, Bound, SessionInv, HolderFits, SlotIsHeld, RefuseHandshake, Returns
    <2> QED BY <2>1, SlotKept DEF SessionInv
  <1> QED BY <1>1, <1>2, <1>3, <1>4, <1>5, <1>6 DEF SessionInv

(* The broker binds the task.                                              *)
LEMMA BindRemoteStep ==
  ASSUME SessionInv, NEW s \in Sessions, BindRemote(s)
  PROVE  SessionInv'
  <1>1. PairingInv' /\ PairingTypeOK'
    BY QuietPairing DEF SessionInv, PairingInv, BindRemote
  <1>2. SessionTypeOK'
    BY <1>1 DEF SessionInv, SessionTypeOK, Phase, BindRemote, Moves
  <1>3. SeenPast'
    BY DEF SessionInv, SessionTypeOK, PairingInv, PairingTypeOK, SeenPast, pairingVars,
       BindRemote, Moves
  <1>4. HolderFits'
    BY DEF SessionInv, SessionTypeOK, HolderFits, Authorized, pairingVars, BindRemote, Moves
  <1>5. ServedIsPaired'
    BY DEF SessionInv, SessionTypeOK, ServedIsPaired, Authorized, pairingVars, BindRemote, Moves
  <1>6. SlotIsHeld'
    <2> SUFFICES ASSUME NEW t \in Sessions PROVE slot' = t <=> phase'[t] \in Bound
      BY DEF SlotIsHeld
    <2>1. phase'[t] = (IF t = s THEN "bound" ELSE phase[t]) /\ slot' = s
      BY DEF SessionInv, SessionTypeOK, BindRemote, Moves
    <2>2. phase[t] \notin Bound
      BY NoneIsNoSession DEF SessionInv, SlotIsHeld, BindRemote
    <2> QED BY <2>1, <2>2 DEF Bound
  <1> QED BY <1>1, <1>2, <1>3, <1>4, <1>5, <1>6 DEF SessionInv

(* The broker refuses the task.                                            *)
LEMMA RefuseRemoteStep ==
  ASSUME SessionInv, NEW s \in Sessions, RefuseRemote(s)
  PROVE  SessionInv'
  <1>1. PairingInv' /\ PairingTypeOK'
    BY QuietPairing DEF SessionInv, PairingInv, RefuseRemote
  <1>2. SessionTypeOK'
    BY <1>1 DEF SessionInv, SessionTypeOK, Phase, HolderFits, Authorized, RefuseRemote, Returns
  <1>3. SeenPast'
    BY DEF SessionInv, SessionTypeOK, PairingInv, PairingTypeOK, SeenPast, pairingVars,
       RefuseRemote, Returns
  <1>4. HolderFits'
    BY DEF SessionInv, SessionTypeOK, HolderFits, Authorized, pairingVars, RefuseRemote, Returns
  <1>5. ServedIsPaired'
    BY DEF SessionInv, SessionTypeOK, ServedIsPaired, Authorized, pairingVars, RefuseRemote, Returns
  <1>6. SlotIsHeld'
    <2>1. "closed" \in Phase /\ phase' = [phase EXCEPT ![s] = "closed"] /\ slot' = slot
          /\ ("closed" \in Bound <=> phase[s] \in Bound)
      BY DEF Phase, Bound, SessionInv, HolderFits, SlotIsHeld, RefuseRemote, Returns
    <2> QED BY <2>1, SlotKept DEF SessionInv
  <1> QED BY <1>1, <1>2, <1>3, <1>4, <1>5, <1>6 DEF SessionInv

(* The handshake is answered.                                              *)
LEMMA SendHandshakeStep ==
  ASSUME SessionInv, NEW s \in Sessions, SendHandshake(s)
  PROVE  SessionInv'
  <1>1. PairingInv' /\ PairingTypeOK'
    BY QuietPairing DEF SessionInv, PairingInv, SendHandshake
  <1>2. SessionTypeOK'
    BY <1>1 DEF SessionInv, SessionTypeOK, Phase, HolderFits, Authorized, SendHandshake, Moves
  <1>3. SeenPast'
    BY DEF SessionInv, SessionTypeOK, PairingInv, PairingTypeOK, SeenPast, pairingVars,
       SendHandshake, Moves
  <1>4. HolderFits'
    BY DEF SessionInv, SessionTypeOK, HolderFits, Authorized, pairingVars, SendHandshake, Moves
  <1>5. ServedIsPaired'
    BY DEF SessionInv, SessionTypeOK, ServedIsPaired, Authorized, pairingVars, SendHandshake, Moves
  <1>6. SlotIsHeld'
    <2>1. "serving" \in Phase /\ phase' = [phase EXCEPT ![s] = "serving"] /\ slot' = slot
          /\ ("serving" \in Bound <=> phase[s] \in Bound)
      BY DEF Phase, Bound, SessionInv, HolderFits, SlotIsHeld, SendHandshake, Moves
    <2> QED BY <2>1, SlotKept DEF SessionInv
  <1> QED BY <1>1, <1>2, <1>3, <1>4, <1>5, <1>6 DEF SessionInv

(* The answer cannot be sent.                                              *)
LEMMA HandshakeFailsStep ==
  ASSUME SessionInv, NEW s \in Sessions, HandshakeFails(s)
  PROVE  SessionInv'
  <1>1. PairingInv' /\ PairingTypeOK'
    BY QuietPairing DEF SessionInv, PairingInv, HandshakeFails
  <1>2. SessionTypeOK'
    BY <1>1 DEF SessionInv, SessionTypeOK, Phase, HandshakeFails, Moves
  <1>3. SeenPast'
    BY DEF SessionInv, SessionTypeOK, PairingInv, PairingTypeOK, SeenPast, pairingVars,
       HandshakeFails, Moves
  <1>4. HolderFits'
    BY DEF SessionInv, SessionTypeOK, HolderFits, Authorized, pairingVars, HandshakeFails, Moves
  <1>5. ServedIsPaired'
    BY DEF SessionInv, SessionTypeOK, ServedIsPaired, Authorized, pairingVars, HandshakeFails, Moves
  <1>6. SlotIsHeld'
    <2>1. "leaving" \in Phase /\ phase' = [phase EXCEPT ![s] = "leaving"] /\ slot' = slot
          /\ ("leaving" \in Bound <=> phase[s] \in Bound)
      BY DEF Phase, Bound, SessionInv, HolderFits, SlotIsHeld, HandshakeFails, Moves
    <2> QED BY <2>1, SlotKept DEF SessionInv
  <1> QED BY <1>1, <1>2, <1>3, <1>4, <1>5, <1>6 DEF SessionInv

(* A step within the loop, or out of it.                                   *)
LEMMA LoopStep ==
  ASSUME SessionInv, NEW s \in Sessions, NEW p \in {"serving", "sending", "leaving"},
         phase[s] \in {"serving", "sending"}, phase' = [phase EXCEPT ![s] = p],
         awaiting' \in [Sessions -> BOOLEAN],
         UNCHANGED <<pairingVars, as, seen, dead, holder, slot, known, rejected>>
  PROVE  SessionInv'
  <1>1. PairingInv' /\ PairingTypeOK'
    BY QuietPairing DEF SessionInv, PairingInv
  <1>2. SessionTypeOK'
    BY <1>1 DEF SessionInv, SessionTypeOK, Phase
  <1>3. SeenPast'
    BY DEF SessionInv, SessionTypeOK, PairingInv, PairingTypeOK, SeenPast, pairingVars
  <1>4. HolderFits'
    BY DEF SessionInv, SessionTypeOK, HolderFits, Authorized, pairingVars
  <1>5. ServedIsPaired'
    BY DEF SessionInv, SessionTypeOK, ServedIsPaired, Authorized, pairingVars
  <1>6. SlotIsHeld'
    <2>1. p \in Phase /\ (p \in Bound <=> phase[s] \in Bound)
      BY DEF Phase, Bound
    <2> QED BY <2>1, SlotKept DEF SessionInv
  <1> QED BY <1>1, <1>2, <1>3, <1>4, <1>5, <1>6 DEF SessionInv

(* The loop sends, has sent, notices a revocation or ends.                 *)
LEMMA LoopSteps ==
  ASSUME SessionInv, NEW s \in Sessions,
         BreakLoop(s) \/ SendCommand(s) \/ FinishSend(s) \/ Revoked(s)
  PROVE  SessionInv'
  <1>1. awaiting' \in [Sessions -> BOOLEAN]
    BY DEF BreakLoop, SendCommand, FinishSend, Revoked, SessionInv, SessionTypeOK
  <1>2. /\ phase[s] \in {"serving", "sending"}
        /\ \E p \in {"serving", "sending", "leaving"} : phase' = [phase EXCEPT ![s] = p]
        /\ UNCHANGED <<pairingVars, as, seen, dead, holder, slot, known, rejected>>
    BY DEF BreakLoop, SendCommand, FinishSend, Revoked, Moves
  <1> QED BY <1>1, <1>2, LoopStep

(* The browser answers a ping.                                             *)
LEMMA PongStep ==
  ASSUME SessionInv, NEW s \in Sessions, Pong(s)
  PROVE  SessionInv'
  <1>1. PairingInv' /\ PairingTypeOK'
    BY QuietPairing DEF SessionInv, PairingInv, Pong
  <1>2. SessionTypeOK'
    BY <1>1 DEF SessionInv, SessionTypeOK, Phase, Pong
  <1>3. SeenPast'
    BY DEF SessionInv, SessionTypeOK, PairingInv, PairingTypeOK, SeenPast, pairingVars, Pong
  <1>4. HolderFits'
    BY DEF SessionInv, SessionTypeOK, HolderFits, Authorized, pairingVars, Pong
  <1>5. ServedIsPaired'
    BY DEF SessionInv, SessionTypeOK, ServedIsPaired, Authorized, pairingVars, Pong
  <1>6. SlotIsHeld'
    BY DEF SessionInv, SlotIsHeld, Pong
  <1> QED BY <1>1, <1>2, <1>3, <1>4, <1>5, <1>6 DEF SessionInv

(* The browser disappears.                                                 *)
LEMMA BrowserGoneStep ==
  ASSUME SessionInv, NEW s \in Sessions, BrowserGone(s)
  PROVE  SessionInv'
  <1>1. PairingInv' /\ PairingTypeOK'
    BY QuietPairing DEF SessionInv, PairingInv, BrowserGone
  <1>2. SessionTypeOK'
    BY <1>1 DEF SessionInv, SessionTypeOK, Phase, BrowserGone
  <1>3. SeenPast'
    BY DEF SessionInv, SessionTypeOK, PairingInv, PairingTypeOK, SeenPast, pairingVars, BrowserGone
  <1>4. HolderFits'
    BY DEF SessionInv, SessionTypeOK, HolderFits, Authorized, pairingVars, BrowserGone
  <1>5. ServedIsPaired'
    BY DEF SessionInv, SessionTypeOK, ServedIsPaired, Authorized, pairingVars, BrowserGone
  <1>6. SlotIsHeld'
    BY DEF SessionInv, SlotIsHeld, BrowserGone
  <1> QED BY <1>1, <1>2, <1>3, <1>4, <1>5, <1>6 DEF SessionInv

(* The heart beat pings, or gives up.                                      *)
LEMMA HeartbeatStep ==
  ASSUME SessionInv, NEW s \in Sessions, Heartbeat(s)
  PROVE  SessionInv'
  <1>1. awaiting' \in [Sessions -> BOOLEAN]
    BY DEF Heartbeat, SessionInv, SessionTypeOK
  <1>2. /\ phase[s] = "serving"
        /\ \E p \in {"sending", "leaving"} : phase' = [phase EXCEPT ![s] = p]
        /\ UNCHANGED <<pairingVars, as, seen, dead, holder, slot, known, rejected>>
    BY DEF Heartbeat, Moves
  <1> QED BY <1>1, <1>2, LoopStep

(* The broker forgets the task.                                            *)
LEMMA LeaveStep ==
  ASSUME SessionInv, NEW s \in Sessions, Leave(s)
  PROVE  SessionInv'
  <1>1. PairingInv' /\ PairingTypeOK'
    BY QuietPairing DEF SessionInv, PairingInv, Leave
  <1>2. SessionTypeOK'
    BY <1>1 DEF SessionInv, SessionTypeOK, Phase, Leave, Returns
  <1>3. SeenPast'
    BY DEF SessionInv, SessionTypeOK, PairingInv, PairingTypeOK, SeenPast, pairingVars,
       Leave, Returns
  <1>4. HolderFits'
    BY DEF SessionInv, SessionTypeOK, HolderFits, Authorized, pairingVars, Leave, Returns
  <1>5. ServedIsPaired'
    BY DEF SessionInv, SessionTypeOK, ServedIsPaired, Authorized, pairingVars, Leave, Returns
  <1>6. SlotIsHeld'
    <2> SUFFICES ASSUME NEW t \in Sessions PROVE slot' = t <=> phase'[t] \in Bound
      BY DEF SlotIsHeld
    <2>1. phase'[t] = (IF t = s THEN "closed" ELSE phase[t]) /\ slot = s /\ slot' = None
      BY DEF SessionInv, SessionTypeOK, SlotIsHeld, Bound, Leave, Returns
    <2>2. t # s => phase[t] \notin Bound
      BY <2>1 DEF SessionInv, SlotIsHeld
    <2> QED BY <2>1, <2>2, NoneIsNoSession DEF Bound
  <1> QED BY <1>1, <1>2, <1>3, <1>4, <1>5, <1>6 DEF SessionInv

(* What an acknowledged or failed write does to the counter, and to the    *)
(* tasks that are authorized already: the pairing changes hands only       *)
(* through an acknowledged clear.                                          *)
LEMMA FinishFits ==
  ASSUME SessionInv, NEW outcome \in Outcome, Finish(outcome)
  PROVE  /\ generation' \in Nat /\ generation' >= generation
         /\ up' = up /\ up /\ write # Idle /\ write' = Idle
         /\ \A t \in Sessions :
              phase[t] \in Authorized => as[t] = client'.id \/ seen[t] # generation'
  <1>1. up /\ up' = up /\ write # Idle /\ write' = Idle
    BY DEF Finish
  <1>2. write.op \in Operation /\ write.next \in PairingState
    BY <1>1, WriteAgrees DEF SessionInv
  <1>3. generation \in Nat
    BY DEF SessionInv, PairingInv, PairingTypeOK
  <1> DEFINE Fits ==
        /\ generation' \in Nat
        /\ generation' >= generation
        /\ \A t \in Sessions :
             phase[t] \in Authorized => as[t] = client'.id \/ seen[t] # generation'
  <1>4. ASSUME outcome = "saved" /\ write.op = "clear" PROVE Fits
    <2>1. generation' = generation + 1
      BY <1>4 DEF Finish
    <2>2. \A t \in Sessions : seen[t] # generation'
      BY <1>3, <2>1 DEF SessionInv, SessionTypeOK, SeenPast
    <2>3. generation' \in Nat /\ generation' >= generation
      BY <1>3, <2>1
    <2> QED BY <2>2, <2>3
  <1>5. ASSUME outcome = "saved" /\ write.op = "pair" PROVE Fits
    <2>1. generation' = generation
      BY <1>5 DEF Finish
    <2>2. client.id = None
      BY <1>5, IdleFits DEF SessionInv, PairingInv, WriteFits
    <2>3. \A t \in Sessions : phase[t] \in Authorized => as[t] # None
      BY NoneIsNoClient DEF SessionInv, HolderFits
    <2>4. \A t \in Sessions : phase[t] \in Authorized => seen[t] # generation'
      BY <2>1, <2>2, <2>3 DEF SessionInv, ServedIsPaired
    <2>5. generation' \in Nat /\ generation' >= generation
      BY <1>3, <2>1
    <2> QED BY <2>4, <2>5
  <1>6. ASSUME outcome = "saved" /\ write.op \notin {"pair", "clear"} PROVE Fits
    <2>1. generation' = generation /\ client' = write.next
      BY <1>6 DEF Finish, Stored
    <2>2. write.next.id = client.id
      BY <1>2, <1>6 DEF SessionInv, PairingInv, WriteFits, Operation
    <2>3. \A t \in Sessions :
            phase[t] \in Authorized => as[t] = client'.id \/ seen[t] # generation'
      BY <2>1, <2>2 DEF SessionInv, ServedIsPaired
    <2>4. generation' \in Nat /\ generation' >= generation
      BY <1>3, <2>1
    <2> QED BY <2>3, <2>4
  <1>7. ASSUME outcome # "saved" PROVE Fits
    <2>1. generation' = generation /\ client' = client
      BY <1>7 DEF Finish
    <2>2. \A t \in Sessions :
            phase[t] \in Authorized => as[t] = client'.id \/ seen[t] # generation'
      BY <2>1 DEF SessionInv, ServedIsPaired
    <2>3. generation' \in Nat /\ generation' >= generation
      BY <1>3, <2>1
    <2> QED BY <2>2, <2>3
  <1>8. Fits
    BY <1>4, <1>5, <1>6, <1>7
  <1> QED BY <1>1, <1>8

(* A task hands an operation to the pairing service.                       *)
LEMMA RequestStep ==
  ASSUME SessionInv, NEW s \in Sessions, NEW c \in Clients,
         \/ RequestPair(s, c)
         \/ RequestAuthenticate(s, c)
         \/ \E v \in Values : BeginUpdate(s, c, v),
         PairingInv'
  PROVE  SessionInv'
  <1> DEFINE p == IF phase[s] = "hello" THEN "authorizing" ELSE "updating"
  <1>1. /\ write = Idle /\ holder' = s
        /\ phase[s] \in {"hello", "serving"} /\ phase' = [phase EXCEPT ![s] = p]
        /\ UNCHANGED <<client, generation, up, as, seen, awaiting, dead, slot, known, rejected>>
    BY DEF RequestPair, RequestAuthenticate, BeginUpdate, Pair, Authenticate,
           SetPushSubscription, SetIdentities, Begin, Moves
  <1>2. /\ phase[s] = "hello" => write'.op \in {"pair", "authenticate"} /\ write'.next.id = c
        /\ phase[s] = "serving" => write'.op \in {"set_push_subscription", "set_identities"}
    <2>1. CASE RequestPair(s, c)
      BY <2>1 DEF RequestPair, Pair, Begin
    <2>2. CASE RequestAuthenticate(s, c)
      BY <2>2 DEF RequestAuthenticate, Authenticate, Paired, Begin
    <2>3. CASE \E v \in Values : BeginUpdate(s, c, v)
      <3>1. PICK v \in Values : BeginUpdate(s, c, v)
        BY <2>3
      <3>2. phase[s] = "serving"
        BY <3>1 DEF BeginUpdate
      <3>3. write'.op \in {"set_push_subscription", "set_identities"}
        BY <3>1 DEF BeginUpdate, SetPushSubscription, SetIdentities, Begin
      <3> QED BY <3>2, <3>3
    <2> QED BY <2>1, <2>2, <2>3
  <1>3. \A t \in Sessions : phase[t] \notin {"authorizing", "updating"}
    BY <1>1, IdleFits DEF SessionInv, HolderFits
  <1>4. p \in Phase /\ (p \in Bound <=> phase[s] \in Bound)
    BY <1>1 DEF Phase, Bound
  <1>5. SessionTypeOK'
    BY <1>1, <1>4 DEF SessionInv, SessionTypeOK, PairingInv
  <1>6. SeenPast'
    BY <1>1 DEF SessionInv, SessionTypeOK, SeenPast
  <1>7. HolderFits'
    BY <1>1, <1>2, <1>3 DEF SessionInv, SessionTypeOK, HolderFits, Authorized
  <1>8. ServedIsPaired'
    BY <1>1 DEF SessionInv, SessionTypeOK, ServedIsPaired, Authorized
  <1>9. SlotIsHeld'
    BY <1>1, <1>4, SlotKept DEF SessionInv
  <1> QED BY <1>5, <1>6, <1>7, <1>8, <1>9 DEF SessionInv

(* The store answers a task that pairs or authenticates.                   *)
LEMMA FinishAuthorizationStep ==
  ASSUME SessionInv, NEW s \in Sessions, NEW outcome \in Outcome,
         FinishAuthorization(s, outcome), PairingInv'
  PROVE  SessionInv'
  <1> DEFINE p == IF outcome = "saved" THEN "authorized" ELSE "closed"
  <1>1. /\ phase[s] = "authorizing" /\ holder = s /\ holder' = None /\ Finish(outcome)
        /\ phase' = [phase EXCEPT ![s] = p]
        /\ UNCHANGED <<awaiting, slot, known, rejected>>
    BY DEF FinishAuthorization, Moves, Returns
  <1>2. /\ outcome = "saved" => /\ as' = [as EXCEPT ![s] = write.next.id]
                                /\ client' = write.next /\ UNCHANGED <<seen, dead>>
        /\ outcome # "saved" => /\ as' = [as EXCEPT ![s] = None]
                                /\ seen' = [seen EXCEPT ![s] = 0] /\ dead' = dead \ {s}
    BY DEF FinishAuthorization, Finish, Stored, Returns
  <1>3. /\ write.next.id \in Clients
        /\ \A t \in Sessions \ {s} : phase[t] \notin {"authorizing", "updating"}
    BY <1>1 DEF SessionInv, HolderFits
  <1>4. p \in Phase /\ (p \in Bound <=> phase[s] \in Bound)
    BY <1>1 DEF Phase, Bound
  <1>5. SessionTypeOK'
    <2>1. CASE outcome = "saved"
      BY <1>1, <1>2, <1>3, <1>4, <2>1 DEF SessionInv, SessionTypeOK, PairingInv
    <2>2. CASE outcome # "saved"
      <3>1. as' \in [Sessions -> Clients \cup {None}]
        BY <1>2, <2>2 DEF SessionInv, SessionTypeOK
      <3>2. seen' \in [Sessions -> Nat]
        BY <1>2, <2>2 DEF SessionInv, SessionTypeOK
      <3>3. dead' \subseteq Sessions /\ phase' \in [Sessions -> Phase]
        BY <1>1, <1>2, <1>4, <2>2 DEF SessionInv, SessionTypeOK
      <3> QED BY <1>1, <3>1, <3>2, <3>3 DEF SessionInv, SessionTypeOK, PairingInv
    <2> QED BY <2>1, <2>2
  <1>6. SeenPast'
    <2>1. generation \in Nat /\ generation' \in Nat /\ generation' >= generation /\ up'
      BY <1>1, FinishFits DEF SessionInv, PairingInv, PairingTypeOK
    <2>2. CASE outcome = "saved"
      BY <1>1, <1>2, <2>1, <2>2 DEF SessionInv, SessionTypeOK, SeenPast
    <2>3. CASE outcome # "saved"
      BY <1>1, <1>2, <2>1, <2>3 DEF SessionInv, SessionTypeOK, SeenPast
    <2> QED BY <2>2, <2>3
  <1>7. HolderFits'
    BY <1>1, <1>2, <1>3 DEF SessionInv, SessionTypeOK, HolderFits, Authorized
  <1>8. ServedIsPaired'
    <2> SUFFICES ASSUME NEW t \in Sessions, phase'[t] \in Authorized
                 PROVE  as'[t] = client'.id \/ seen'[t] # generation'
      BY DEF ServedIsPaired
    <2>1. CASE t = s
      BY <1>1, <1>2, <2>1 DEF SessionInv, SessionTypeOK, Authorized
    <2>2. CASE t # s
      BY <1>1, <1>2, <2>2, FinishFits DEF SessionInv, SessionTypeOK
    <2> QED BY <2>1, <2>2
  <1>9. SlotIsHeld'
    BY <1>1, <1>4, SlotKept DEF SessionInv
  <1> QED BY <1>5, <1>6, <1>7, <1>8, <1>9 DEF SessionInv

(* The store answers a task that updates its client.                       *)
LEMMA FinishUpdateStep ==
  ASSUME SessionInv, NEW s \in Sessions, NEW outcome \in Outcome,
         FinishUpdate(s, outcome), PairingInv'
  PROVE  SessionInv'
  <1> DEFINE p == IF outcome = "saved" THEN "serving" ELSE "leaving"
  <1>1. /\ phase[s] = "updating" /\ holder = s /\ holder' = None /\ Finish(outcome)
        /\ phase' = [phase EXCEPT ![s] = p]
        /\ UNCHANGED <<as, seen, awaiting, dead, slot, known, rejected>>
    BY DEF FinishUpdate, Moves
  <1>2. \A t \in Sessions \ {s} : phase[t] \notin {"authorizing", "updating"}
    BY <1>1 DEF SessionInv, HolderFits
  <1>3. p \in Phase /\ (p \in Bound <=> phase[s] \in Bound)
    BY <1>1 DEF Phase, Bound
  <1>4. SessionTypeOK'
    BY <1>1, <1>3 DEF SessionInv, SessionTypeOK, PairingInv
  <1>5. SeenPast'
    <2>1. generation \in Nat /\ generation' \in Nat /\ generation' >= generation /\ up'
      BY <1>1, FinishFits DEF SessionInv, PairingInv, PairingTypeOK
    <2> QED BY <1>1, <2>1 DEF SessionInv, SessionTypeOK, SeenPast
  <1>6. HolderFits'
    BY <1>1, <1>2 DEF SessionInv, SessionTypeOK, HolderFits, Authorized
  <1>7. ServedIsPaired'
    BY <1>1, FinishFits DEF SessionInv, SessionTypeOK, ServedIsPaired, Authorized
  <1>8. SlotIsHeld'
    BY <1>1, <1>3, SlotKept DEF SessionInv
  <1> QED BY <1>4, <1>5, <1>6, <1>7, <1>8 DEF SessionInv

(* The control socket asks for a clear, is answered, or is aborted.        *)
LEMMA ControlStep ==
  ASSUME SessionInv, PairingInv',
         \/ ControlClear
         \/ \E outcome \in Outcome : ControlFinish(outcome)
         \/ ControlAbort
  PROVE  SessionInv'
  <1>1. UNCHANGED taskVars /\ up' = up
    BY DEF ControlClear, ControlFinish, ControlAbort, Clear, Begin, Finish, AbortClear
  <1>2. /\ generation' \in Nat /\ generation' >= generation
        /\ \A t \in Sessions :
             phase[t] \in Authorized => as[t] = client'.id \/ seen[t] # generation'
    <2>1. ASSUME NEW outcome \in Outcome, ControlFinish(outcome)
          PROVE  /\ generation' \in Nat /\ generation' >= generation
                 /\ \A t \in Sessions :
                      phase[t] \in Authorized => as[t] = client'.id \/ seen[t] # generation'
      BY <2>1, FinishFits DEF ControlFinish
    <2>2. CASE ControlClear \/ ControlAbort
      <3>1. generation' = generation /\ client' = client
        BY <2>2 DEF ControlClear, ControlAbort, Clear, Begin, AbortClear
      <3>2. \A t \in Sessions :
              phase[t] \in Authorized => as[t] = client'.id \/ seen[t] # generation'
        BY <3>1 DEF SessionInv, ServedIsPaired
      <3>3. generation' \in Nat /\ generation' >= generation
        BY <3>1 DEF SessionInv, PairingInv, PairingTypeOK
      <3> QED BY <3>2, <3>3
    <2> QED BY <2>1, <2>2
  <1>3. \A t \in Sessions : phase[t] \notin {"authorizing", "updating"}
    <2>1. CASE ControlClear
      BY <2>1, IdleFits DEF ControlClear, Clear, Begin, SessionInv, HolderFits
    <2>2. CASE \E outcome \in Outcome : ControlFinish(outcome)
      BY <2>2, NoneIsNoSession DEF ControlFinish, SessionInv, HolderFits
    <2>3. CASE ControlAbort
      BY <2>3 DEF ControlAbort, AbortClear, SessionInv, HolderFits
    <2> QED BY <2>1, <2>2, <2>3
  <1>4. SessionTypeOK' /\ SlotIsHeld'
    BY <1>1 DEF SessionInv, SessionTypeOK, PairingInv, SlotIsHeld, taskVars
  <1>5. SeenPast'
    BY <1>1, <1>2
    DEF SessionInv, SessionTypeOK, PairingInv, PairingTypeOK, SeenPast, taskVars
  <1>6. HolderFits'
    BY <1>1, <1>3 DEF SessionInv, HolderFits, taskVars
  <1>7. ServedIsPaired'
    BY <1>1, <1>2 DEF ServedIsPaired, taskVars
  <1> QED BY <1>4, <1>5, <1>6, <1>7 DEF SessionInv

(* The daemon stops with all its tasks, and starts with none.              *)
LEMMA DaemonStep ==
  ASSUME SessionInv, PairingInv', DaemonCrash \/ DaemonOpen
  PROVE  SessionInv'
  <1>1. CASE DaemonCrash
    <2>1. SessionTypeOK'
      BY <1>1 DEF SessionInv, SessionTypeOK, PairingInv, DaemonCrash, Phase
    <2>2. SeenPast'
      BY <1>1 DEF SessionInv, PairingInv, PairingTypeOK, SeenPast, DaemonCrash, Crash
    <2>3. HolderFits' /\ ServedIsPaired'
      BY <1>1 DEF HolderFits, ServedIsPaired, Authorized, DaemonCrash
    <2>4. SlotIsHeld'
      BY <1>1, NoneIsNoSession DEF SlotIsHeld, Bound, DaemonCrash
    <2> QED BY <2>1, <2>2, <2>3, <2>4 DEF SessionInv
  <1>2. CASE DaemonOpen
    <2>1. ~up /\ generation' = 0 /\ UNCHANGED taskVars
      BY <1>2 DEF DaemonOpen, Open
    <2>2. \A s \in Sessions : phase[s] = "closed" /\ seen[s] = 0
      BY <2>1 DEF SessionInv, SeenPast
    <2>3. SessionTypeOK' /\ SlotIsHeld'
      BY <2>1 DEF SessionInv, SessionTypeOK, PairingInv, SlotIsHeld, taskVars
    <2>4. SeenPast'
      BY <2>1, <2>2 DEF SeenPast, taskVars
    <2>5. HolderFits' /\ ServedIsPaired'
      BY <2>1, <2>2 DEF HolderFits, ServedIsPaired, Authorized, taskVars
    <2> QED BY <2>3, <2>4, <2>5 DEF SessionInv
  <1> QED BY <1>1, <1>2

(* Every step of the composition keeps the invariant.                      *)
LEMMA SessionInvStep == SessionInv /\ [SessionNext]_sessionVars => SessionInv'
  <1> SUFFICES ASSUME SessionInv, [SessionNext]_sessionVars PROVE SessionInv'
    OBVIOUS
  <1>1. CASE UNCHANGED sessionVars
    <2>1. PairingInv'
      BY <1>1, QuietPairing DEF sessionVars, SessionInv
    <2> QED BY <1>1, <2>1
            DEF sessionVars, taskVars, pairingVars, SessionInv, SessionTypeOK, PairingInv,
                SeenPast, HolderFits, ServedIsPaired, SlotIsHeld
  <1>2. CASE SessionNext
    <2>1. PairingInv'
      BY <1>2, SessionStepsPair, PairingStep DEF SessionInv
    <2>2. ASSUME NEW s \in Sessions, SessionStep(s) PROVE SessionInv'
      BY <2>1, <2>2, FinishAuthorizationStep, FinishUpdateStep, BindRemoteStep, RefuseRemoteStep,
         SendHandshakeStep, HandshakeFailsStep, LeaveStep
      DEF SessionStep
    <2>3. ASSUME NEW s \in Sessions,
                 \/ Accept(s) \/ RefuseHandshake(s) \/ BreakLoop(s) \/ SendCommand(s)
                 \/ FinishSend(s) \/ Pong(s) \/ Heartbeat(s) \/ Revoked(s) \/ BrowserGone(s)
          PROVE  SessionInv'
      BY <2>3, AcceptStep, RefuseHandshakeStep, LoopSteps, PongStep, HeartbeatStep,
         BrowserGoneStep
    <2> QED BY <1>2, <2>1, <2>2, <2>3, RequestStep, ControlStep, DaemonStep DEF SessionNext
  <1> QED BY <1>1, <1>2

(* The inductive invariant holds throughout.                               *)
LEMMA SessionInvariant == SessionSpec => []SessionInv
  BY SessionInitEstablishes, SessionInvStep, PTL DEF SessionSpec

(* The connection tasks use the pairing service as PairingSpec allows, so  *)
(* that what is proved of it holds with any number of tasks.               *)
THEOREM SessionsUsePairing == SessionSpec => PairingSpec
  <1>1. SessionInit => PairingInit
    BY DEF SessionInit
  <1>2. [SessionNext]_sessionVars => [PairingNext]_pairingVars
    BY SessionStepsPair DEF sessionVars
  <1> QED BY <1>1, <1>2, PTL DEF SessionSpec, PairingSpec

(* A task works for the paired client, or its revocation is pending.       *)
THEOREM ServiceSafe == SessionSpec => []ServedIsPaired
  BY SessionInvariant, PTL DEF SessionInv

(* The broker's slot is held by the task that will give it back.           *)
THEOREM SlotNotLeaked == SessionSpec => []SlotIsHeld
  BY SessionInvariant, PTL DEF SessionInv
=============================================================================
