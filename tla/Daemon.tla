------------------------------- MODULE Daemon -------------------------------
(***************************************************************************)
(* Daemon processes on one configuration, from start to exit (daemon.rs):  *)
(* the VAPID key file (push.rs), the two socket files (agent_socket/file.rs *)
(* and its twin in control/server.rs) and the HTTP port.  Processes start  *)
(* while others run, start or stop, fail at any step and are killed.       *)
(*                                                                         *)
(* A step is one system call on something processes share.  Inode numbers  *)
(* are reused once nothing refers to them: no directory entry and no open  *)
(* socket bound to it.  The paths are compared within a path only, so each *)
(* has its own inode numbers.                                              *)
(***************************************************************************)
EXTENDS Naturals

CONSTANTS
  Daemons,    \* processes, each of which may be started again
  Inodes,     \* inode numbers
  Keys,       \* VAPID keys
  Nothing,    \* no file, no key, no process
  MaxStarts   \* bound on the starts of all processes

ASSUME DaemonAssumption ==
  /\ MaxStarts \in Nat
  /\ Nothing \notin Daemons \cup Inodes \cup Keys \cup {"partial"}
  /\ "partial" \notin Keys

VARIABLES
  keyFile,  \* contents of vapid_private_key_file: Nothing, "partial" or a key
  dir,      \* the inode at each socket path, or Nothing
  port,     \* the process that listens at http_listen
  main,     \* where each process stands
  key,      \* the VapidKey of each process
  early,    \* processes that read a key before its creator had synced it
  sock,     \* the work of each process on each socket path
  starts    \* number of starts so far

fileVars   == <<keyFile, dir, port>>
daemonVars == <<fileVars, main, key, early, sock, starts>>

Paths == {"agent", "control"}

(* seen: the inode prepare_path found; ino: the inode of the own socket;   *)
(* guard: the inode SocketFile remembers; claim: see Listen.               *)
NoSocket == [st |-> "none", seen |-> Nothing, ino |-> Nothing, guard |-> Nothing, claim |-> Nothing]

(* A crash of an earlier daemon may have left socket files and a key.      *)
DaemonInit ==
  /\ keyFile \in {Nothing} \cup Keys
  /\ dir \in [Paths -> Inodes \cup {Nothing}]
  /\ port = Nothing
  /\ main = [d \in Daemons |-> "off"]
  /\ key = [d \in Daemons |-> Nothing]
  /\ early = {}
  /\ sock = [d \in Daemons |-> [p \in Paths |-> NoSocket]]
  /\ starts = 0

-----------------------------------------------------------------------------
(* The start fails, or a signal or a failed accept ends it: finished       *)
(* sockets are dropped step by step, an unfinished one is just closed.     *)
Stops(d) ==
  /\ main' = [main EXCEPT ![d] = "stopping"]
  /\ key' = [key EXCEPT ![d] = Nothing]
  /\ early' = early \ {d}
  /\ sock' = [sock EXCEPT ![d] = [p \in Paths |-> IF @[p].st = "ready" THEN @[p] ELSE NoSocket]]

Moves(d, stage) ==
  /\ main' = [main EXCEPT ![d] = stage]
  /\ UNCHANGED <<key, early, sock>>

Start(d) ==
  /\ main[d] = "off"
  /\ starts < MaxStarts
  /\ starts' = starts + 1
  /\ Moves(d, "load")
  /\ UNCHANGED fileVars

-----------------------------------------------------------------------------
(* VapidKey::open *)

Creating == {"write", "sync", "withdraw"}

(* load, before create and again after create found the file to exist.     *)
LoadKey(d) ==
  /\ main[d] \in {"load", "reload"}
  /\ \/ keyFile = Nothing /\ main[d] = "load" /\ Moves(d, "create")
     \/ keyFile = Nothing /\ main[d] = "reload" /\ Stops(d)
     \/ keyFile = "partial" /\ Stops(d)
     \/ /\ keyFile \in Keys
        /\ main' = [main EXCEPT ![d] = "pairing"]
        /\ key' = [key EXCEPT ![d] = keyFile]
        /\ early' = IF \E e \in Daemons : main[e] \in Creating THEN early \cup {d} ELSE early
        /\ UNCHANGED sock
  /\ UNCHANGED <<fileVars, starts>>

(* Mutant: the file is opened for writing whether it exists or not. *)
CreateKey_Truncates(d) ==
  /\ main[d] = "create"
  /\ \E k \in Keys :
       /\ k # keyFile /\ \A e \in Daemons : k # key[e]
       /\ keyFile' = "partial"
       /\ main' = [main EXCEPT ![d] = "write"]
       /\ key' = [key EXCEPT ![d] = k]
       /\ UNCHANGED <<early, sock>>
  /\ UNCHANGED <<dir, port, starts>>

(* create_new: only one process creates the file; its key is a new one.    *)
CreateKey(d) ==
  /\ main[d] = "create"
  /\ \/ keyFile # Nothing /\ Moves(d, "reload") /\ UNCHANGED keyFile
     \/ \E k \in Keys :
          /\ keyFile = Nothing
          /\ \A e \in Daemons : k # key[e]
          /\ keyFile' = "partial"
          /\ main' = [main EXCEPT ![d] = "write"]
          /\ key' = [key EXCEPT ![d] = k]
          /\ UNCHANGED <<early, sock>>
  /\ UNCHANGED <<dir, port, starts>>

WriteKey(d) ==
  /\ main[d] = "write"
  /\ \/ keyFile' = key[d] /\ Moves(d, "sync")
     \/ UNCHANGED keyFile /\ Moves(d, "withdraw")
  /\ UNCHANGED <<dir, port, starts>>

(* The file and its directory are synced; a file that cannot be synced is  *)
(* withdrawn, one whose directory cannot be synced stays.                  *)
SyncKey(d) ==
  /\ main[d] = "sync"
  /\ Moves(d, "pairing") \/ Moves(d, "withdraw") \/ Stops(d)
  /\ UNCHANGED <<fileVars, starts>>

WithdrawKey(d) ==
  /\ main[d] = "withdraw"
  /\ keyFile' = Nothing
  /\ Stops(d)
  /\ UNCHANGED <<dir, port, starts>>

(* PairingService::open succeeds (module Pairing) and push is spawned.     *)
OpenPairing(d) ==
  /\ main[d] = "pairing"
  /\ Moves(d, "agent")
  /\ UNCHANGED <<fileVars, starts>>

-----------------------------------------------------------------------------
(* Socket files: prepare_path and bind.  A process works on path p while   *)
(* its main stage is p.                                                    *)

At(d, p, st) == main[d] = p /\ sock[d][p].st = st

Sets(d, p, record) ==
  /\ sock' = [sock EXCEPT ![d][p] = record]
  /\ UNCHANGED <<main, key, early>>

Becomes(d, p, st) == Sets(d, p, [sock[d][p] EXCEPT !.st = st])

Open == {"bound", "listening", "restricted", "ready"}
Accepts(p, i) == \E e \in Daemons : sock[e][p].ino = i /\ sock[e][p].st \in Open \ {"bound"}

(* symlink_metadata                                                        *)
Stat(d, p) ==
  /\ At(d, p, "none")
  /\ IF dir[p] = Nothing THEN Becomes(d, p, "free")
     ELSE Sets(d, p, [NoSocket EXCEPT !.st = "seen", !.seen = dir[p]])
  /\ UNCHANGED <<fileVars, starts>>

(* Connecting finds a listener, no file, or is refused: a socket that is   *)
(* bound but does not listen yet refuses too.                              *)
Probe(d, p) ==
  /\ At(d, p, "seen")
  /\ IF dir[p] = Nothing \/ Accepts(p, dir[p]) THEN Stops(d) ELSE Becomes(d, p, "refused")
  /\ UNCHANGED <<fileVars, starts>>

(* The identity of the file is compared with the one probed.               *)
Recheck(d, p) ==
  /\ At(d, p, "refused")
  /\ IF dir[p] = sock[d][p].seen THEN Becomes(d, p, "stale") ELSE Stops(d)
  /\ UNCHANGED <<fileVars, starts>>

(* remove_file removes whatever is at the path by now.                     *)
RemoveStale(d, p) ==
  /\ At(d, p, "stale")
  /\ IF dir[p] = Nothing THEN Stops(d) ELSE Becomes(d, p, "free")
  /\ dir' = [dir EXCEPT ![p] = Nothing]
  /\ UNCHANGED <<keyFile, port, starts>>

Free(p) == {i \in Inodes : dir[p] # i /\ \A e \in Daemons : sock[e][p].ino # i}

(* UnixListener::bind is bind(2) and listen(2).                            *)
Bind(d, p) ==
  /\ At(d, p, "free")
  /\ \/ dir[p] # Nothing /\ Stops(d) /\ UNCHANGED dir
     \/ \E i \in Free(p) :
          /\ dir[p] = Nothing
          /\ dir' = [dir EXCEPT ![p] = i]
          /\ Sets(d, p, [NoSocket EXCEPT !.st = "bound", !.ino = i])
  /\ UNCHANGED <<keyFile, port, starts>>

(* A process that may still touch path p without looking at it again, or   *)
(* that takes inode i at p for its own.                                    *)
Threatens(e, p, i) ==
  \/ sock[e][p].st \in {"refused", "stale", "bound", "listening", "restricted", "unclean", "own"}
  \/ sock[e][p].guard = i

(* claim records that the process begins to listen undisputed: its file is *)
(* in place and no other process threatens it.                             *)
Listen(d, p) ==
  /\ At(d, p, "bound")
  /\ LET i == sock[d][p].ino
         undisputed == dir[p] = i /\ \A e \in Daemons \ {d} : ~Threatens(e, p, i)
     IN  Sets(d, p, [sock[d][p] EXCEPT !.st = "listening", !.claim = IF undisputed THEN i ELSE Nothing])
  /\ UNCHANGED <<fileVars, starts>>

(* set_permissions fails at least when the file is gone.                   *)
SetPermissions(d, p) ==
  /\ At(d, p, "listening")
  /\ \/ dir[p] # Nothing /\ Becomes(d, p, "restricted")
     \/ Sets(d, p, [sock[d][p] EXCEPT !.st = "unclean", !.claim = Nothing])
  /\ UNCHANGED <<fileVars, starts>>

(* After that failure, whatever is at the path is removed.                 *)
CleanUp(d, p) ==
  /\ At(d, p, "unclean")
  /\ dir' = [dir EXCEPT ![p] = Nothing]
  /\ Stops(d)
  /\ UNCHANGED <<keyFile, port, starts>>

(* The guard remembers the file that is at the path now.                   *)
Guard(d, p) ==
  /\ At(d, p, "restricted")
  /\ \/ dir[p] = Nothing /\ Stops(d)
     \/ /\ dir[p] # Nothing
        /\ sock' = [sock EXCEPT ![d][p].st = "ready", ![d][p].guard = dir[p]]
        /\ main' = [main EXCEPT ![d] = IF p = "agent" THEN "control" ELSE "http"]
        /\ UNCHANGED <<key, early>>
  /\ UNCHANGED <<fileVars, starts>>

PreparePath(d, p) == Stat(d, p) \/ Probe(d, p) \/ Recheck(d, p) \/ RemoveStale(d, p)
BindPath(d, p) == Bind(d, p) \/ Listen(d, p) \/ SetPermissions(d, p) \/ CleanUp(d, p) \/ Guard(d, p)

-----------------------------------------------------------------------------
(* Drop of the listener, then of the SocketFile. *)

Close(d, p) ==
  /\ main[d] = "stopping"
  /\ sock[d][p].st = "ready"
  /\ Sets(d, p, [NoSocket EXCEPT !.st = "closed", !.guard = sock[d][p].guard])
  /\ UNCHANGED <<fileVars, starts>>

(* Mutant: the file is removed without a look at its identity. *)
CheckOwn_Skipped(d, p) ==
  /\ sock[d][p].st = "closed"
  /\ Becomes(d, p, "own")
  /\ UNCHANGED <<fileVars, starts>>

CheckOwn(d, p) ==
  /\ sock[d][p].st = "closed"
  /\ IF dir[p] = sock[d][p].guard THEN Becomes(d, p, "own") ELSE Sets(d, p, NoSocket)
  /\ UNCHANGED <<fileVars, starts>>

RemoveOwn(d, p) ==
  /\ sock[d][p].st = "own"
  /\ dir' = [dir EXCEPT ![p] = Nothing]
  /\ Sets(d, p, NoSocket)
  /\ UNCHANGED <<keyFile, port, starts>>

DropPath(d, p) == Close(d, p) \/ CheckOwn(d, p) \/ RemoveOwn(d, p)

-----------------------------------------------------------------------------
(* The rest of run. *)

(* ControlSocket::bind and its drop do what the agent socket's do.         *)
AgentSocketStep(d) == PreparePath(d, "agent") \/ BindPath(d, "agent") \/ DropPath(d, "agent")
ControlSocketPrepare(d) == PreparePath(d, "control")
ControlSocketBind(d) == BindPath(d, "control")
ControlSocketDrop(d) == DropPath(d, "control")

BindHttp(d) ==
  /\ main[d] = "http"
  /\ IF port = Nothing
     THEN port' = d /\ Moves(d, "serving")
     ELSE Stops(d) /\ UNCHANGED port
  /\ UNCHANGED <<keyFile, dir, starts>>

(* Any other failure of the start: a missing directory, a file that is not *)
(* a socket or not readable, a pairing file that cannot be loaded.         *)
Abort(d) ==
  /\ main[d] \in {"load", "reload", "create", "pairing", "http"} \cup Paths
  /\ \A p \in Paths : sock[d][p].st \notin {"listening", "unclean"}
  /\ Stops(d)
  /\ UNCHANGED <<fileVars, starts>>

(* A signal cancels the token; an accept error returns at once.  Either    *)
(* way all tasks end and with them the sockets they own.                   *)
ShutDown(d) ==
  /\ main[d] = "serving"
  /\ Stops(d)
  /\ UNCHANGED <<fileVars, starts>>

(* The web task ends, the port is free.                                    *)
ReleasePort(d) ==
  /\ main[d] = "stopping"
  /\ port = d
  /\ port' = Nothing
  /\ UNCHANGED <<keyFile, dir, main, key, early, sock, starts>>

Exit(d) ==
  /\ main[d] = "stopping"
  /\ port # d
  /\ \A p \in Paths : sock[d][p] = NoSocket
  /\ Moves(d, "off")
  /\ UNCHANGED <<fileVars, starts>>

(* Killed: open sockets and the port are closed, files stay.               *)
Kill(d) ==
  /\ main[d] # "off"
  /\ main' = [main EXCEPT ![d] = "off"]
  /\ key' = [key EXCEPT ![d] = Nothing]
  /\ early' = early \ {d}
  /\ sock' = [sock EXCEPT ![d] = [p \in Paths |-> NoSocket]]
  /\ port' = IF port = d THEN Nothing ELSE port
  /\ UNCHANGED <<keyFile, dir, starts>>

DaemonNext ==
  \E d \in Daemons :
    \/ Start(d)
    \/ LoadKey(d) \/ CreateKey(d) \/ WriteKey(d) \/ SyncKey(d) \/ WithdrawKey(d)
    \/ OpenPairing(d)
    \/ AgentSocketStep(d)
    \/ ControlSocketPrepare(d) \/ ControlSocketBind(d) \/ ControlSocketDrop(d)
    \/ BindHttp(d)
    \/ Abort(d)
    \/ ShutDown(d)
    \/ ReleasePort(d)
    \/ Exit(d)
    \/ Kill(d)

DaemonSpec == DaemonInit /\ [][DaemonNext]_daemonVars

-----------------------------------------------------------------------------
(* Properties. *)

(* A daemon that began to listen undisputed keeps its path for as long as  *)
(* it listens: no daemon started later, stopping, failing or displaced     *)
(* earlier removes its socket file, whatever inode numbers are reused.     *)
SocketRetained ==
  \A d \in Daemons, p \in Paths :
    sock[d][p].claim # Nothing => dir[p] = sock[d][p].claim

(* The key a daemon signs with, and hands to browsers, is the one the next *)
(* start will load: nobody replaces it.  The one exception is a key read   *)
(* before its creator had synced it, which the creator may still withdraw. *)
KeyPersists ==
  \A d \in Daemons \ early :
    main[d] \in {"pairing", "http", "serving"} \cup Paths => keyFile = key[d]
=============================================================================
