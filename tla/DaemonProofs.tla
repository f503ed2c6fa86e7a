---------------------------- MODULE DaemonProofs ----------------------------
(***************************************************************************)
(* Daemon: a daemon that listens undisputed keeps its socket files, and    *)
(* the key a daemon signs with is the one on disk, for any number of       *)
(* processes, inodes and starts.                                           *)
(***************************************************************************)
EXTENDS Daemon, TLAPS

-----------------------------------------------------------------------------
(* The socket files. *)

Inode == Inodes \cup {Nothing}

Stage == {"none", "seen", "refused", "stale", "free", "unclean", "closed", "own"} \cup Open

Socket == [st : Stage, seen : Inode, ino : Inode, guard : Inode, claim : Inode]

SocketType ==
  /\ sock \in [Daemons -> [Paths -> Socket]]
  /\ dir \in [Paths -> Inode]

(* An open socket has an inode; only one that listens claims it.           *)
Fits(record) ==
  /\ record.st \in Open \cup {"unclean"} => record.ino \in Inodes
  /\ record.claim # Nothing =>
       record.claim = record.ino /\ record.st \in {"listening", "restricted", "ready"}

(* SocketRetained is not inductive: another process may have looked at the *)
(* path already and be about to remove it.  None has where a claim stands. *)
Undisputed(p) ==
  \A d \in Daemons : sock[d][p].claim # Nothing =>
    /\ dir[p] = sock[d][p].claim
    /\ \A e \in Daemons \ {d} : ~Threatens(e, p, sock[d][p].claim)

SocketInv ==
  /\ SocketType
  /\ \A d \in Daemons, p \in Paths : Fits(sock[d][p])
  /\ \A p \in Paths : Undisputed(p)

(* Of the sockets at path p, only that of process x may change.            *)
OthersKept(x, p) == \A e \in Daemons \ {x} : sock'[e][p] = sock[e][p]

(* The record that stands for no socket claims and threatens nothing.      *)
LEMMA NoSocketFits ==
  /\ NoSocket \in Socket /\ Fits(NoSocket)
  /\ NoSocket.st = "none" /\ NoSocket.guard = Nothing /\ NoSocket.claim = Nothing
<1>1. /\ NoSocket.st = "none" /\ NoSocket.ino = Nothing
      /\ NoSocket.guard = Nothing /\ NoSocket.claim = Nothing
  BY DEF NoSocket
<1>2. NoSocket \in Socket
  BY DEF NoSocket, Socket, Stage, Inode
<1>3. Fits(NoSocket)
  BY <1>1 DEF Fits, Open
<1> QED BY <1>1, <1>2, <1>3

(* Threatens looks at one record and at nothing else.                      *)
LEMMA ThreatKept ==
  ASSUME NEW e, NEW p, NEW i, sock'[e][p] = sock[e][p]
  PROVE  Threatens(e, p, i)' <=> Threatens(e, p, i)
BY DEF Threatens

(* A step of x that leaves the file alone preserves all claims, if it      *)
(* makes none without cause and threatens no claim of another process.     *)
LEMMA KeptFile ==
  ASSUME SocketInv, NEW x \in Daemons, NEW p \in Paths, dir'[p] = dir[p], OthersKept(x, p),
         sock'[x][p].claim # Nothing =>
           /\ dir[p] = sock'[x][p].claim
           /\ \A e \in Daemons \ {x} : ~Threatens(e, p, sock'[x][p].claim),
         \A d \in Daemons \ {x} : sock[d][p].claim # Nothing => ~Threatens(x, p, sock[d][p].claim)'
  PROVE  Undisputed(p)'
<1> SUFFICES ASSUME NEW d \in Daemons, sock'[d][p].claim # Nothing
             PROVE  /\ dir'[p] = sock'[d][p].claim
                    /\ \A e \in Daemons \ {d} : ~Threatens(e, p, sock[d][p].claim)'
  BY DEF Undisputed, Threatens
<1>1. CASE d = x
  BY <1>1, ThreatKept DEF OthersKept
<1>2. CASE d # x
  <2>1. sock'[d][p] = sock[d][p] /\ sock[d][p].claim # Nothing
    BY <1>2 DEF OthersKept
  <2>2. dir[p] = sock[d][p].claim /\ \A e \in Daemons \ {d} : ~Threatens(e, p, sock[d][p].claim)
    BY <2>1 DEF SocketInv, Undisputed
  <2>3. \A e \in Daemons \ {d, x} : ~Threatens(e, p, sock[d][p].claim)'
    BY <2>2, ThreatKept DEF OthersKept, Threatens
  <2> QED BY <1>2, <2>1, <2>2, <2>3
<1> QED BY <1>1, <1>2

(* A step after which nobody but x may have a claim, and x has none.       *)
LEMMA NoClaim ==
  ASSUME NEW x \in Daemons, NEW p \in Paths, OthersKept(x, p), sock'[x][p].claim = Nothing,
         \A d \in Daemons \ {x} : sock[d][p].claim = Nothing
  PROVE  Undisputed(p)'
BY DEF OthersKept, Undisputed

(* A process that threatens every inode of a path leaves no other a claim. *)
LEMMA ThreatExcludes ==
  ASSUME SocketInv, NEW x \in Daemons, NEW p \in Paths,
         sock[x][p].st \in {"refused", "stale", "bound", "listening", "restricted", "unclean", "own"}
  PROVE  \A d \in Daemons \ {x} : sock[d][p].claim = Nothing
BY DEF SocketInv, Undisputed, Threatens

(* A process that at most closes its sockets disturbs nothing.             *)
LEMMA CalmStep ==
  ASSUME SocketInv, NEW x \in Daemons, NEW p \in Paths, dir'[p] = dir[p], OthersKept(x, p),
         sock'[x][p] \in {sock[x][p], NoSocket}
  PROVE  Undisputed(p)'
<1>1. CASE sock'[x][p] = sock[x][p]
  <2>1. \A d \in Daemons \ {x} : sock[d][p].claim # Nothing => ~Threatens(x, p, sock[d][p].claim)'
    <3> SUFFICES ASSUME NEW d \in Daemons \ {x}, sock[d][p].claim # Nothing
                 PROVE  ~Threatens(x, p, sock[d][p].claim)'
      OBVIOUS
    <3>1. sock'[d][p] = sock[d][p] /\ ~Threatens(x, p, sock[d][p].claim)
      BY DEF SocketInv, Undisputed, OthersKept
    <3> QED BY <1>1, <3>1 DEF Threatens
  <2> QED BY <1>1, <2>1, KeptFile DEF SocketInv, Undisputed
<1>2. CASE sock'[x][p] = NoSocket
  <2>1. \A d \in Daemons \ {x} : sock[d][p].claim # Nothing => ~Threatens(x, p, sock[d][p].claim)'
    <3> SUFFICES ASSUME NEW d \in Daemons \ {x}, sock[d][p].claim # Nothing
                 PROVE  ~Threatens(x, p, sock[d][p].claim)'
      OBVIOUS
    <3>1. sock'[d][p] = sock[d][p]
      BY DEF OthersKept
    <3> QED BY <1>2, <3>1, NoSocketFits DEF Threatens
  <2> QED BY <1>2, <2>1, NoSocketFits, KeptFile
<1> QED BY <1>1, <1>2

(* What Sets and Stops do to the records.                                  *)
LEMMA SetsShape ==
  ASSUME SocketInv, NEW x \in Daemons, NEW p \in Paths, NEW record \in Socket, Fits(record),
         Sets(x, p, record)
  PROVE  /\ sock' \in [Daemons -> [Paths -> Socket]]
         /\ \A d \in Daemons, q \in Paths : Fits(sock'[d][q])
         /\ \A q \in Paths : OthersKept(x, q)
         /\ sock'[x][p] = record
         /\ \A q \in Paths \ {p} : sock'[x][q] = sock[x][q]
BY DEF SocketInv, SocketType, Sets, OthersKept

(* A start that ends keeps the sockets that are ready and no others.       *)
LEMMA StopsShape ==
  ASSUME SocketInv, NEW x \in Daemons, Stops(x)
  PROVE  /\ sock' \in [Daemons -> [Paths -> Socket]]
         /\ \A d \in Daemons, q \in Paths : Fits(sock'[d][q])
         /\ \A q \in Paths : OthersKept(x, q) /\ sock'[x][q] \in {sock[x][q], NoSocket}
<1>1. \A q \in Paths : sock'[x][q] = IF sock[x][q].st = "ready" THEN sock[x][q] ELSE NoSocket
  BY DEF Stops, SocketInv, SocketType
<1>2. \A d \in Daemons \ {x} : sock'[d] = sock[d]
  BY DEF Stops, SocketInv, SocketType
<1>3. sock' \in [Daemons -> [Paths -> Socket]]
  BY NoSocketFits DEF Stops, SocketInv, SocketType
<1> QED BY <1>1, <1>2, <1>3, NoSocketFits DEF SocketInv, OthersKept

(* Steps that touch no file but end the start, or do nothing to sockets.   *)
LEMMA StopsStep ==
  ASSUME SocketInv, NEW x \in Daemons, Stops(x), UNCHANGED dir
  PROVE  SocketInv'
BY StopsShape, CalmStep DEF SocketInv, SocketType

(* Steps that concern neither sockets nor their files.                     *)
LEMMA IdleStep ==
  ASSUME SocketInv, UNCHANGED <<sock, dir>>
  PROVE  SocketInv'
BY DEF SocketInv, SocketType, Undisputed, Threatens, Fits

(* A step of x at path p: the other path is not concerned.                 *)
LEMMA PathStep ==
  ASSUME SocketInv, NEW x \in Daemons, NEW p \in Paths, NEW record \in Socket, Fits(record),
         Sets(x, p, record), dir' \in [Paths -> Inode], \A q \in Paths \ {p} : dir'[q] = dir[q],
         Undisputed(p)'
  PROVE  SocketInv'
<1>1. \A q \in Paths \ {p} : Undisputed(q)'
  BY SetsShape, CalmStep
<1> QED BY <1>1, SetsShape DEF SocketInv, SocketType

(* A step of x at path p that threatens nothing and claims nothing.        *)
LEMMA HarmlessStep ==
  ASSUME SocketInv, NEW x \in Daemons, NEW p \in Paths, NEW record \in Socket,
         Sets(x, p, record), UNCHANGED dir, record.st \in {"none", "seen", "free", "closed"},
         record.claim = Nothing, record.guard \in {sock[x][p].guard, Nothing}
  PROVE  SocketInv'
<1>1. Fits(record)
  BY DEF Fits, Open
<1>2. \A d \in Daemons \ {x} : sock[d][p].claim # Nothing => ~Threatens(x, p, sock[d][p].claim)'
  <2> SUFFICES ASSUME NEW d \in Daemons \ {x}, sock[d][p].claim # Nothing
               PROVE  ~Threatens(x, p, sock[d][p].claim)'
    OBVIOUS
  <2>1. sock'[d][p] = sock[d][p] /\ sock'[x][p] = record
    BY <1>1, SetsShape DEF OthersKept
  <2>2. ~Threatens(x, p, sock[d][p].claim)
    BY DEF SocketInv, Undisputed
  <2> QED BY <2>1, <2>2 DEF Threatens
<1>3. Undisputed(p)'
  BY <1>1, <1>2, SetsShape, KeptFile
<1> QED BY <1>1, <1>3, PathStep DEF SocketInv, SocketType

(* A step of x at path p where no other process has a claim.               *)
LEMMA SoleStep ==
  ASSUME SocketInv, NEW x \in Daemons, NEW p \in Paths, NEW record \in Socket, Fits(record),
         Sets(x, p, record), UNCHANGED dir, \A d \in Daemons \ {x} : sock[d][p].claim = Nothing,
         record.claim # Nothing =>
           dir[p] = record.claim /\ \A e \in Daemons \ {x} : ~Threatens(e, p, record.claim)
  PROVE  SocketInv'
<1>1. Undisputed(p)'
  BY SetsShape, KeptFile
<1> QED BY <1>1, PathStep DEF SocketInv, SocketType

(* A step of x at path p that changes the file, where nobody has a claim.  *)
LEMMA FileStep ==
  ASSUME SocketInv, NEW x \in Daemons, NEW p \in Paths, NEW i \in Inode,
         dir' = [dir EXCEPT ![p] = i], \A d \in Daemons \ {x} : sock[d][p].claim = Nothing,
         \/ Stops(x) /\ sock[x][p].st # "ready"
         \/ \E record \in Socket : Sets(x, p, record) /\ Fits(record) /\ record.claim = Nothing
  PROVE  SocketInv'
<1>1. dir' \in [Paths -> Inode] /\ \A q \in Paths \ {p} : dir'[q] = dir[q]
  BY DEF SocketInv, SocketType
<1>2. ASSUME Stops(x) /\ sock[x][p].st # "ready" PROVE SocketInv'
  <2>1. sock'[x][p] = NoSocket
    BY <1>2 DEF Stops, SocketInv, SocketType
  <2>2. Undisputed(p)'
    BY <1>2, <2>1, StopsShape, NoClaim, NoSocketFits
  <2>3. \A q \in Paths \ {p} : Undisputed(q)'
    BY <1>1, <1>2, StopsShape, CalmStep
  <2> QED BY <1>1, <1>2, <2>2, <2>3, StopsShape DEF SocketInv, SocketType
<1>3. ASSUME NEW record \in Socket, Sets(x, p, record), Fits(record), record.claim = Nothing
      PROVE  SocketInv'
  BY <1>1, <1>3, SetsShape, NoClaim, PathStep
<1> QED BY <1>2, <1>3

(* A record with another stage is a record.                                *)
LEMMA RecordOf ==
  ASSUME SocketInv, NEW x \in Daemons, NEW p \in Paths, NEW st \in Stage
  PROVE  LET record == [sock[x][p] EXCEPT !.st = st]
         IN  /\ sock[x][p] \in Socket /\ record \in Socket /\ record.st = st
             /\ record.ino = sock[x][p].ino /\ record.guard = sock[x][p].guard
             /\ record.claim = sock[x][p].claim
BY DEF SocketInv, SocketType, Socket

(* The path is probed, and a dead socket removed.                          *)
LEMMA PreparePathStep ==
  ASSUME SocketInv, NEW x \in Daemons, NEW p \in Paths, PreparePath(x, p)
  PROVE  SocketInv'
<1> USE DEF At
<1>0. sock[x][p] \in Socket /\ Fits(sock[x][p]) /\ dir[p] \in Inode
  BY DEF SocketInv, SocketType
<1>1. CASE Stat(x, p)
  <2>1. CASE dir[p] = Nothing
    <3>1. sock[x][p].claim = Nothing
      BY <1>0, <1>1 DEF Stat, Fits
    <3> DEFINE record == [sock[x][p] EXCEPT !.st = "free"]
    <3>2. record \in Socket /\ record.st = "free" /\ record.guard = sock[x][p].guard /\ record.claim = Nothing
      BY <3>1, RecordOf DEF Stage
    <3>3. Sets(x, p, record) /\ UNCHANGED dir
      BY <1>1, <2>1 DEF Stat, Becomes, fileVars
    <3> HIDE DEF record
    <3> QED BY <3>2, <3>3, HarmlessStep
  <2>2. CASE dir[p] # Nothing
    <3> DEFINE record == [NoSocket EXCEPT !.st = "seen", !.seen = dir[p]]
    <3>1. record \in Socket /\ record.st = "seen" /\ record.guard = Nothing /\ record.claim = Nothing
      BY <1>0 DEF NoSocket, Socket, Stage, Inode
    <3>2. Sets(x, p, record) /\ UNCHANGED dir
      BY <1>1, <2>2 DEF Stat, fileVars
    <3> HIDE DEF record
    <3> QED BY <3>1, <3>2, HarmlessStep
  <2> QED BY <2>1, <2>2
<1>2. CASE Probe(x, p)
  <2>1. CASE dir[p] = Nothing \/ Accepts(p, dir[p])
    BY <1>2, <2>1, StopsStep DEF Probe, fileVars
  <2>2. CASE ~(dir[p] = Nothing \/ Accepts(p, dir[p]))
    <3>1. \A d \in Daemons : sock[d][p].claim = Nothing
      BY <2>2 DEF SocketInv, Undisputed, Fits, Accepts, Open
    <3> DEFINE record == [sock[x][p] EXCEPT !.st = "refused"]
    <3>2. record \in Socket /\ record.st = "refused" /\ record.claim = Nothing
      BY <3>1, RecordOf DEF Stage
    <3>3. Sets(x, p, record) /\ UNCHANGED dir
      BY <1>2, <2>2 DEF Probe, Becomes, fileVars
    <3> HIDE DEF record
    <3>4. Fits(record)
      BY <3>2 DEF Fits, Open
    <3> QED BY <3>1, <3>2, <3>3, <3>4, SoleStep
  <2> QED BY <2>1, <2>2
<1>3. CASE Recheck(x, p)
  <2>1. CASE dir[p] = sock[x][p].seen
    <3>1. \A d \in Daemons \ {x} : sock[d][p].claim = Nothing
      BY <1>3, ThreatExcludes DEF Recheck
    <3>2. sock[x][p].claim = Nothing
      BY <1>0, <1>3 DEF Recheck, Fits
    <3> DEFINE record == [sock[x][p] EXCEPT !.st = "stale"]
    <3>3. record \in Socket /\ record.st = "stale" /\ record.claim = Nothing
      BY <3>2, RecordOf DEF Stage
    <3>4. Sets(x, p, record) /\ UNCHANGED dir
      BY <1>3, <2>1 DEF Recheck, Becomes, fileVars
    <3> HIDE DEF record
    <3>5. Fits(record)
      BY <3>3 DEF Fits, Open
    <3> QED BY <3>1, <3>3, <3>4, <3>5, SoleStep
  <2>2. CASE dir[p] # sock[x][p].seen
    BY <1>3, <2>2, StopsStep DEF Recheck, fileVars
  <2> QED BY <2>1, <2>2
<1>4. CASE RemoveStale(x, p)
  <2>1. \A d \in Daemons \ {x} : sock[d][p].claim = Nothing
    BY <1>4, ThreatExcludes DEF RemoveStale
  <2>2. sock[x][p].claim = Nothing /\ sock[x][p].st # "ready" /\ dir' = [dir EXCEPT ![p] = Nothing]
    BY <1>0, <1>4 DEF RemoveStale, Fits
  <2>3. Nothing \in Inode
    BY DEF Inode
  <2>4. CASE Stops(x)
    BY <2>1, <2>2, <2>3, <2>4, FileStep
  <2>5. CASE Becomes(x, p, "free")
    <3> DEFINE record == [sock[x][p] EXCEPT !.st = "free"]
    <3>1. record \in Socket /\ record.st = "free" /\ record.claim = Nothing
      BY <2>2, RecordOf DEF Stage
    <3>2. Sets(x, p, record)
      BY <2>5 DEF Becomes
    <3> HIDE DEF record
    <3>3. Fits(record)
      BY <3>1 DEF Fits, Open
    <3> QED BY <2>1, <2>2, <2>3, <3>1, <3>2, <3>3, FileStep
  <2> QED BY <1>4, <2>4, <2>5 DEF RemoveStale
<1> QED BY <1>1, <1>2, <1>3, <1>4 DEF PreparePath

(* A guard removes the file, if it is still the one it bound.              *)
LEMMA DropPathStep ==
  ASSUME SocketInv, NEW x \in Daemons, NEW p \in Paths, DropPath(x, p)
  PROVE  SocketInv'
<1>0. sock[x][p] \in Socket /\ Fits(sock[x][p]) /\ dir[p] \in Inode
  BY DEF SocketInv, SocketType
<1>1. CASE Close(x, p)
  <2> DEFINE record == [NoSocket EXCEPT !.st = "closed", !.guard = sock[x][p].guard]
  <2>1. record \in Socket /\ record.st = "closed" /\ record.guard = sock[x][p].guard /\ record.claim = Nothing
    BY <1>0 DEF NoSocket, Socket, Stage, Inode
  <2>2. Sets(x, p, record) /\ UNCHANGED dir
    BY <1>1 DEF Close, fileVars
  <2> HIDE DEF record
  <2> QED BY <2>1, <2>2, HarmlessStep
<1>2. CASE CheckOwn(x, p)
  <2>1. CASE dir[p] = sock[x][p].guard
    <3>1. \A d \in Daemons \ {x} : sock[d][p].claim = Nothing
      BY <2>1 DEF SocketInv, Undisputed, Threatens
    <3>2. sock[x][p].claim = Nothing
      BY <1>0, <1>2 DEF CheckOwn, Fits
    <3> DEFINE record == [sock[x][p] EXCEPT !.st = "own"]
    <3>3. record \in Socket /\ record.st = "own" /\ record.claim = Nothing
      BY <3>2, RecordOf DEF Stage
    <3>4. Sets(x, p, record) /\ UNCHANGED dir
      BY <1>2, <2>1 DEF CheckOwn, Becomes, fileVars
    <3> HIDE DEF record
    <3>5. Fits(record)
      BY <3>3 DEF Fits, Open
    <3> QED BY <3>1, <3>3, <3>4, <3>5, SoleStep
  <2>2. CASE dir[p] # sock[x][p].guard
    BY <1>2, <2>2, NoSocketFits, HarmlessStep DEF CheckOwn, fileVars
  <2> QED BY <2>1, <2>2
<1>3. CASE RemoveOwn(x, p)
  <2>1. \A d \in Daemons \ {x} : sock[d][p].claim = Nothing
    BY <1>3, ThreatExcludes DEF RemoveOwn
  <2>2. dir' = [dir EXCEPT ![p] = Nothing] /\ Sets(x, p, NoSocket) /\ Nothing \in Inode
    BY <1>3 DEF RemoveOwn, Inode
  <2> QED BY <2>1, <2>2, NoSocketFits, FileStep
<1> QED BY <1>1, <1>2, <1>3 DEF DropPath

(* The guard remembers the inode.                                          *)
LEMMA GuardStep ==
  ASSUME SocketInv, NEW x \in Daemons, NEW p \in Paths, Guard(x, p)
  PROVE  SocketInv'
<1>0. sock[x][p] \in Socket /\ Fits(sock[x][p]) /\ dir[p] \in Inode /\ UNCHANGED dir
      /\ sock[x][p].st = "restricted"
  BY DEF SocketInv, SocketType, Guard, At, fileVars
<1>1. CASE Stops(x)
  BY <1>0, <1>1, StopsStep
<1>2. CASE sock' = [sock EXCEPT ![x][p].st = "ready", ![x][p].guard = dir[p]]
  <2> DEFINE record == [sock[x][p] EXCEPT !.st = "ready", !.guard = dir[p]]
  <2>1. sock' = [sock EXCEPT ![x] = [sock[x] EXCEPT ![p] = record]]
    BY <1>2 DEF SocketInv, SocketType
  <2>2. record \in Socket /\ record.st = "ready" /\ record.ino = sock[x][p].ino
        /\ record.claim = sock[x][p].claim
    BY <1>0 DEF Socket, Stage, Open
  <2> HIDE DEF record
  <2>3. Fits(record)
    BY <1>0, <2>2 DEF Fits, Open
  <2>4. /\ sock' \in [Daemons -> [Paths -> Socket]]
        /\ \A q \in Paths : OthersKept(x, q)
        /\ sock'[x][p] = record
        /\ \A q \in Paths \ {p} : sock'[x][q] = sock[x][q]
    BY <2>1, <2>2 DEF SocketInv, SocketType, OthersKept
  <2>5. \A d \in Daemons, q \in Paths : Fits(sock'[d][q])
    BY <2>3, <2>4 DEF SocketInv, OthersKept
  <2>6. \A d \in Daemons \ {x} : sock[d][p].claim = Nothing
    BY <1>0, ThreatExcludes
  <2>7. Undisputed(p)'
    BY <1>0, <2>2, <2>4, <2>6, KeptFile DEF SocketInv, Undisputed
  <2>8. \A q \in Paths \ {p} : Undisputed(q)'
    BY <1>0, <2>4, CalmStep
  <2> QED BY <1>0, <2>4, <2>5, <2>7, <2>8 DEF SocketInv, SocketType
<1> QED BY <1>1, <1>2 DEF Guard

(* bind creates the file, unless there is one.                             *)
LEMMA BindPathStep ==
  ASSUME SocketInv, NEW x \in Daemons, NEW p \in Paths, BindPath(x, p)
  PROVE  SocketInv'
<1> USE DEF At
<1>0. sock[x][p] \in Socket /\ Fits(sock[x][p]) /\ dir[p] \in Inode
  BY DEF SocketInv, SocketType
<1>1. CASE Bind(x, p)
  <2>1. CASE Stops(x) /\ UNCHANGED dir
    BY <2>1, StopsStep
  <2>2. ASSUME NEW i \in Free(p), dir[p] = Nothing, dir' = [dir EXCEPT ![p] = i],
               Sets(x, p, [NoSocket EXCEPT !.st = "bound", !.ino = i])
        PROVE  SocketInv'
    <3>1. \A d \in Daemons \ {x} : sock[d][p].claim = Nothing
      BY <2>2 DEF SocketInv, Undisputed
    <3>2. i \in Inodes /\ i \in Inode
      BY DEF Free, Inode
    <3> DEFINE record == [NoSocket EXCEPT !.st = "bound", !.ino = i]
    <3>3. record \in Socket /\ record.st = "bound" /\ record.ino = i /\ record.claim = Nothing
      BY <3>2 DEF NoSocket, Socket, Stage, Inode, Open
    <3>4. Sets(x, p, record)
      BY <2>2
    <3> HIDE DEF record
    <3>5. Fits(record)
      BY <3>2, <3>3 DEF Fits, Open
    <3> QED BY <2>2, <3>1, <3>2, <3>3, <3>4, <3>5, FileStep
  <2> QED BY <1>1, <2>1, <2>2 DEF Bind
<1>2. CASE Listen(x, p)
  <2> DEFINE i == sock[x][p].ino
             undisputed == dir[p] = i /\ \A e \in Daemons \ {x} : ~Threatens(e, p, i)
             claim == IF undisputed THEN i ELSE Nothing
             record == [sock[x][p] EXCEPT !.st = "listening", !.claim = claim]
  <2>1. \A d \in Daemons \ {x} : sock[d][p].claim = Nothing
    BY <1>2, ThreatExcludes DEF Listen
  <2>2. i \in Inodes
    BY <1>0, <1>2 DEF Listen, Fits, Open
  <2>3. claim \in Inode /\ claim \in {i, Nothing}
    BY <2>2 DEF Inode
  <2>4. claim # Nothing => undisputed
    OBVIOUS
  <2>5. Sets(x, p, record) /\ UNCHANGED dir
    BY <1>2 DEF Listen, fileVars
  <2> HIDE DEF claim
  <2>6. record \in Socket /\ record.st = "listening" /\ record.ino = i /\ record.claim = claim
    BY <1>0, <2>3 DEF Socket, Stage, Open
  <2> HIDE DEF record
  <2>7. Fits(record)
    BY <2>2, <2>3, <2>6 DEF Fits, Open
  <2>8. record.claim # Nothing =>
          dir[p] = record.claim /\ \A e \in Daemons \ {x} : ~Threatens(e, p, record.claim)
    BY <2>3, <2>4, <2>6
  <2> QED BY <2>1, <2>5, <2>6, <2>7, <2>8, SoleStep
<1>3. CASE SetPermissions(x, p)
  <2>1. \A d \in Daemons \ {x} : sock[d][p].claim = Nothing
    BY <1>3, ThreatExcludes DEF SetPermissions
  <2>2. sock[x][p].ino \in Inodes /\ UNCHANGED dir
    BY <1>0, <1>3 DEF SetPermissions, Fits, Open, fileVars
  <2>3. CASE Becomes(x, p, "restricted")
    <3> DEFINE record == [sock[x][p] EXCEPT !.st = "restricted"]
    <3>1. record \in Socket /\ record.st = "restricted" /\ record.ino = sock[x][p].ino
          /\ record.claim = sock[x][p].claim
      BY <1>0 DEF Socket, Stage, Open
    <3>2. Sets(x, p, record)
      BY <2>3 DEF Becomes
    <3> HIDE DEF record
    <3>3. Fits(record)
      BY <1>0, <2>2, <3>1 DEF Fits
    <3>4. record.claim # Nothing =>
            dir[p] = record.claim /\ \A e \in Daemons \ {x} : ~Threatens(e, p, record.claim)
      BY <3>1 DEF SocketInv, Undisputed
    <3> QED BY <2>1, <2>2, <3>1, <3>2, <3>3, <3>4, SoleStep
  <2>4. CASE Sets(x, p, [sock[x][p] EXCEPT !.st = "unclean", !.claim = Nothing])
    <3> DEFINE record == [sock[x][p] EXCEPT !.st = "unclean", !.claim = Nothing]
    <3>1. record \in Socket /\ record.st = "unclean" /\ record.ino = sock[x][p].ino
          /\ record.claim = Nothing
      BY <1>0 DEF Socket, Stage, Inode
    <3>2. Sets(x, p, record)
      BY <2>4
    <3> HIDE DEF record
    <3>3. Fits(record)
      BY <2>2, <3>1 DEF Fits
    <3> QED BY <2>1, <2>2, <3>1, <3>2, <3>3, SoleStep
  <2> QED BY <1>3, <2>3, <2>4 DEF SetPermissions
<1>4. CASE CleanUp(x, p)
  <2>1. \A d \in Daemons \ {x} : sock[d][p].claim = Nothing
    BY <1>4, ThreatExcludes DEF CleanUp
  <2> QED BY <1>4, <2>1, FileStep DEF CleanUp, Inode
<1>5. CASE Guard(x, p)
  BY <1>5, GuardStep
<1> QED BY <1>1, <1>2, <1>3, <1>4, <1>5 DEF BindPath

(* A killed process leaves its files behind.                               *)
LEMMA KillStep ==
  ASSUME SocketInv, NEW x \in Daemons, Kill(x)
  PROVE  SocketInv'
<1>1. /\ sock' \in [Daemons -> [Paths -> Socket]]
      /\ \A q \in Paths : sock'[x][q] = NoSocket /\ OthersKept(x, q)
  BY NoSocketFits DEF Kill, SocketInv, SocketType, OthersKept
<1>2. \A q \in Paths : Undisputed(q)'
  BY <1>1, CalmStep DEF Kill
<1> QED BY <1>1, <1>2, NoSocketFits DEF Kill, SocketInv, SocketType, OthersKept

(* One action after the other.                                             *)
LEMMA SocketInductive ==
  ASSUME SocketInv, [DaemonNext]_daemonVars
  PROVE  SocketInv'
<1>1. CASE UNCHANGED daemonVars
  BY <1>1, IdleStep DEF daemonVars, fileVars
<1>2. ASSUME NEW d \in Daemons,
             \/ Start(d) \/ LoadKey(d) \/ CreateKey(d) \/ WriteKey(d) \/ SyncKey(d) \/ WithdrawKey(d)
             \/ OpenPairing(d) \/ BindHttp(d) \/ Abort(d) \/ ShutDown(d) \/ ReleasePort(d) \/ Exit(d)
      PROVE  SocketInv'
  <2>1. UNCHANGED dir /\ (UNCHANGED sock \/ Stops(d))
    BY <1>2 DEF Start, LoadKey, CreateKey, WriteKey, SyncKey, WithdrawKey, OpenPairing, BindHttp,
                Abort, ShutDown, ReleasePort, Exit, Moves, fileVars
  <2> QED BY <2>1, IdleStep, StopsStep
<1>3. ASSUME NEW d \in Daemons,
             AgentSocketStep(d) \/ ControlSocketPrepare(d) \/ ControlSocketBind(d) \/ ControlSocketDrop(d)
      PROVE  SocketInv'
  <2>1. "agent" \in Paths /\ "control" \in Paths
    BY DEF Paths
  <2> QED BY <1>3, <2>1, PreparePathStep, BindPathStep, DropPathStep
          DEF AgentSocketStep, ControlSocketPrepare, ControlSocketBind, ControlSocketDrop
<1>4. ASSUME NEW d \in Daemons, Kill(d) PROVE SocketInv'
  BY <1>4, KillStep
<1> QED BY <1>1, <1>2, <1>3, <1>4 DEF DaemonNext

(* For any number of processes, starts and inodes: a daemon that began to  *)
(* listen undisputed at its socket path (Listen, the end of                *)
(* UnixListener::bind) has its file there for as long as it listens.       *)
THEOREM SocketSafe == DaemonSpec => []SocketRetained
<1>1. DaemonInit => SocketInv
  <2> SUFFICES ASSUME DaemonInit PROVE SocketInv
    OBVIOUS
  <2>1. SocketType
    BY NoSocketFits DEF DaemonInit, SocketType, Inode
  <2>2. \A d \in Daemons, p \in Paths : sock[d][p] = NoSocket
    BY DEF DaemonInit
  <2> QED BY <2>1, <2>2, NoSocketFits DEF SocketInv, Undisputed
<1>2. SocketInv => SocketRetained
  BY DEF SocketInv, Undisputed, SocketRetained
<1> QED BY <1>1, <1>2, SocketInductive, PTL DEF DaemonSpec

-----------------------------------------------------------------------------
(* The key file. *)

Keyed == {"pairing", "http", "serving"} \cup Paths

(* KeyPersists needs the state of the one process that creates the file:   *)
(* what the file holds meanwhile, and that any key known by then is early. *)
KeyInv ==
  /\ main \in [Daemons -> {"off", "load", "reload", "create", "stopping"} \cup Creating \cup Keyed]
  /\ key \in [Daemons -> Keys \cup {Nothing}]
  /\ \A d \in Daemons : main[d] \in Creating =>
       /\ keyFile = IF main[d] = "write" THEN "partial"
                    ELSE IF main[d] = "sync" THEN key[d] ELSE keyFile
       /\ keyFile # Nothing /\ key[d] \in Keys
       /\ \A e \in Daemons : main[e] \in Creating => e = d
       /\ \A e \in Daemons : main[e] \in Keyed => e \in early
  /\ \A d \in Daemons \ early : main[d] \in Keyed => keyFile = key[d] /\ key[d] \in Keys

(* A process that leaves, or stays on its side of the key file, or does    *)
(* nothing at all, keeps the invariant.                                    *)
LEMMA KeyStops ==
  ASSUME KeyInv, NEW d \in Daemons, UNCHANGED keyFile, NEW stage \in {"off", "stopping"},
         main' = [main EXCEPT ![d] = stage], key' = [key EXCEPT ![d] = Nothing], early' = early \ {d}
  PROVE  KeyInv'
BY DEF KeyInv, Creating, Keyed, Paths

(* A process gets on, or gives up, without touching the key file.          *)
LEMMA KeyMoves ==
  ASSUME KeyInv, NEW d \in Daemons, UNCHANGED <<keyFile, key, early>>,
         NEW stage, main' = [main EXCEPT ![d] = stage],
         \/ stage \in {"off", "load", "reload", "create", "stopping"}
         \/ stage \in Keyed /\ main[d] \in Keyed
  PROVE  KeyInv'
BY DEF KeyInv, Creating, Keyed, Paths

(* Steps that do not concern the key.                                      *)
LEMMA KeyIdle ==
  ASSUME KeyInv, UNCHANGED <<keyFile, key, early, main>>
  PROVE  KeyInv'
BY DEF KeyInv

(* The steps that load or create the key.                                  *)
LEMMA KeySteps ==
  ASSUME KeyInv, NEW d \in Daemons,
         LoadKey(d) \/ CreateKey(d) \/ WriteKey(d) \/ SyncKey(d) \/ WithdrawKey(d)
  PROVE  KeyInv'
<1>1. CASE LoadKey(d)
  <2>1. CASE Moves(d, "create")
    BY <1>1, <2>1, KeyMoves DEF LoadKey, Moves, fileVars
  <2>2. CASE Stops(d)
    BY <1>1, <2>2, KeyStops DEF LoadKey, Stops, fileVars
  <2>3. ASSUME keyFile \in Keys, main' = [main EXCEPT ![d] = "pairing"], key' = [key EXCEPT ![d] = keyFile],
               early' = IF \E e \in Daemons : main[e] \in Creating THEN early \cup {d} ELSE early
        PROVE  KeyInv'
    <3>1. UNCHANGED keyFile /\ main[d] \in {"load", "reload"}
      BY <1>1 DEF LoadKey, fileVars
    <3>2. CASE \E e \in Daemons : main[e] \in Creating
      BY <2>3, <3>1, <3>2 DEF KeyInv, Creating, Keyed, Paths
    <3>3. CASE ~\E e \in Daemons : main[e] \in Creating
      BY <2>3, <3>1, <3>3 DEF KeyInv, Creating, Keyed, Paths
    <3> QED BY <3>2, <3>3
  <2> QED BY <1>1, <2>1, <2>2, <2>3 DEF LoadKey
<1>2. CASE CreateKey(d)
  <2>1. CASE Moves(d, "reload") /\ UNCHANGED keyFile
    BY <2>1, KeyMoves DEF Moves
  <2>2. ASSUME NEW k \in Keys, keyFile = Nothing, keyFile' = "partial",
               main' = [main EXCEPT ![d] = "write"], key' = [key EXCEPT ![d] = k], UNCHANGED early
        PROVE  KeyInv'
    <3>1. \A e \in Daemons : main[e] \notin Creating
      BY <2>2 DEF KeyInv
    <3>2. \A e \in Daemons : main[e] \in Keyed => e \in early
      BY <2>2, DaemonAssumption DEF KeyInv
    <3> QED BY <2>2, <3>1, <3>2, DaemonAssumption DEF KeyInv, Creating, Keyed, Paths
  <2> QED BY <1>2, <2>1, <2>2 DEF CreateKey
<1>3. CASE WriteKey(d)
  BY <1>3, DaemonAssumption DEF WriteKey, Moves, KeyInv, Creating, Keyed, Paths
<1>4. CASE SyncKey(d)
  <2>1. CASE Stops(d)
    BY <1>4, <2>1, KeyStops DEF SyncKey, Stops, fileVars
  <2>2. CASE Moves(d, "pairing") \/ Moves(d, "withdraw")
    BY <1>4, <2>2 DEF SyncKey, Moves, fileVars, KeyInv, Creating, Keyed, Paths
  <2> QED BY <1>4, <2>1, <2>2 DEF SyncKey
<1>5. CASE WithdrawKey(d)
  BY <1>5 DEF WithdrawKey, Stops, KeyInv, Creating, Keyed, Paths
<1> QED BY <1>1, <1>2, <1>3, <1>4, <1>5

(* The steps of the two sockets.                                           *)
LEMMA KeyPathSteps ==
  ASSUME KeyInv, NEW d \in Daemons, NEW p \in Paths, PreparePath(d, p) \/ BindPath(d, p) \/ DropPath(d, p)
  PROVE  KeyInv'
<1>1. UNCHANGED keyFile
  BY DEF PreparePath, BindPath, DropPath, Stat, Probe, Recheck, RemoveStale, Bind, Listen,
         SetPermissions, CleanUp, Guard, Close, CheckOwn, RemoveOwn, fileVars
<1>2. CASE Guard(d, p)
  <2>1. CASE Stops(d)
    BY <1>1, <2>1, KeyStops DEF Stops
  <2>2. CASE ~Stops(d)
    BY <1>1, <1>2, <2>2, KeyMoves DEF Guard, At, Keyed, Paths
  <2> QED BY <2>1, <2>2
<1>3. CASE ~Guard(d, p)
  <2>1. Stops(d) \/ UNCHANGED <<main, key, early>>
    BY <1>3 DEF PreparePath, BindPath, DropPath, Stat, Probe, Recheck, RemoveStale, Bind, Listen,
                SetPermissions, CleanUp, Close, CheckOwn, RemoveOwn, Sets, Becomes
  <2> QED BY <1>1, <2>1, KeyStops, KeyIdle DEF Stops
<1> QED BY <1>2, <1>3

(* One action after the other.                                             *)
LEMMA KeyInductive ==
  ASSUME KeyInv, [DaemonNext]_daemonVars
  PROVE  KeyInv'
<1>1. CASE UNCHANGED daemonVars
  BY <1>1, KeyIdle DEF daemonVars, fileVars
<1>2. ASSUME NEW d \in Daemons,
             LoadKey(d) \/ CreateKey(d) \/ WriteKey(d) \/ SyncKey(d) \/ WithdrawKey(d)
      PROVE  KeyInv'
  BY <1>2, KeySteps
<1>3. ASSUME NEW d \in Daemons,
             AgentSocketStep(d) \/ ControlSocketPrepare(d) \/ ControlSocketBind(d) \/ ControlSocketDrop(d)
      PROVE  KeyInv'
  <2>1. "agent" \in Paths /\ "control" \in Paths
    BY DEF Paths
  <2> QED BY <1>3, <2>1, KeyPathSteps
          DEF AgentSocketStep, ControlSocketPrepare, ControlSocketBind, ControlSocketDrop
<1>4. ASSUME NEW d \in Daemons, Start(d) \/ OpenPairing(d) \/ Exit(d) PROVE KeyInv'
  BY <1>4, KeyMoves DEF Start, OpenPairing, Exit, Moves, fileVars, Keyed, Paths
<1>5. ASSUME NEW d \in Daemons, BindHttp(d) PROVE KeyInv'
  <2>1. CASE Stops(d)
    BY <1>5, <2>1, KeyStops DEF BindHttp, Stops
  <2>2. CASE Moves(d, "serving")
    BY <1>5, <2>2, KeyMoves DEF BindHttp, Moves, Keyed
  <2> QED BY <1>5, <2>1, <2>2 DEF BindHttp
<1>6. ASSUME NEW d \in Daemons, Abort(d) \/ ShutDown(d) PROVE KeyInv'
  BY <1>6, KeyStops DEF Abort, ShutDown, Stops, fileVars
<1>7. ASSUME NEW d \in Daemons, ReleasePort(d) PROVE KeyInv'
  BY <1>7, KeyIdle DEF ReleasePort
<1>8. ASSUME NEW d \in Daemons, Kill(d) PROVE KeyInv'
  BY <1>8, KeyStops DEF Kill
<1> QED BY <1>1, <1>2, <1>3, <1>4, <1>5, <1>6, <1>7, <1>8 DEF DaemonNext

(* For any number of processes and starts: the key a daemon signs with     *)
(* (VapidKey::open) is the one the file holds, unless it was read before   *)
(* its creator had synced it.                                              *)
THEOREM KeySafe == DaemonSpec => []KeyPersists
<1>1. DaemonInit => KeyInv
  BY DEF DaemonInit, KeyInv, Creating, Keyed, Paths
<1>2. KeyInv => KeyPersists
  BY DEF KeyInv, KeyPersists, Keyed
<1> QED BY <1>1, <1>2, KeyInductive, PTL DEF DaemonSpec
=============================================================================
