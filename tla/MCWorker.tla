------------------------------ MODULE MCWorker ------------------------------
(***************************************************************************)
(* Worker for TLC.                                                         *)
(***************************************************************************)
EXTENDS Worker, TLC

WorkerSymmetry == Permutations(Keys) \cup Permutations(Calls)
=============================================================================
