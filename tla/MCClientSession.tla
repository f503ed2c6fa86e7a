-------------------------- MODULE MCClientSession --------------------------
(***************************************************************************)
(* ClientSession for TLC.                                                  *)
(***************************************************************************)
EXTENDS ClientSession, TLC

ClientSymmetry ==
  Permutations(Sockets) \cup Permutations(Credentials) \cup Permutations(Lists)
=============================================================================
