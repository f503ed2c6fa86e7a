------------------------------ MODULE MCLocal ------------------------------
(***************************************************************************)
(* The daemon's local side for TLC: AgentConnection, the codec behind its  *)
(* classes of frames, and the daemon processes that claim its sockets.     *)
(*                                                                         *)
(* The three share no state.  A packet is decoded without regard to any    *)
(* connection, and every connection is to one serving process, so nothing  *)
(* is lost by exploring them one at a time.                                *)
(***************************************************************************)
EXTENDS AgentConnection, ContextCodec, Daemon

LocalSymmetry ==
  UNION {Permutations(S) : S \in {Connections, Daemons, Inodes, Keys}}

(* Each part moves while the others are in one of their initial states.    *)
NoConnection == ConnectionInit /\ identities = None
NoDaemon == DaemonInit /\ keyFile = Nothing /\ Range(dir) = {Nothing}

LocalInit ==
  /\ ConnectionInit /\ CodecInit /\ DaemonInit
  /\ NoConnection \/ NoDaemon

(* The bound on starts is reached: what the daemons do next is not explored. *)
Exhausted == starts = MaxStarts /\ \A d \in Daemons : main[d] = "off"

LocalNext ==
  \/ CodecInit /\ NoDaemon /\ ConnectionNext /\ UNCHANGED <<codecVars, daemonVars>>
  \/ NoConnection /\ NoDaemon /\ CodecNext /\ UNCHANGED <<connectionVars, daemonVars>>
  \/ NoConnection /\ CodecInit /\ DaemonNext /\ UNCHANGED <<connectionVars, codecVars>>
  \/ Exhausted /\ UNCHANGED <<connectionVars, codecVars, daemonVars>>

LocalSpec == LocalInit /\ [][LocalNext]_<<connectionVars, codecVars, daemonVars>>
=============================================================================
