-------------------------- MODULE MCRemoteSession --------------------------
(***************************************************************************)
(* RemoteSession for TLC.                                                  *)
(***************************************************************************)
EXTENDS RemoteSession, TLC

SessionSymmetry == Permutations(Clients) \cup Permutations(Sessions)
=============================================================================
