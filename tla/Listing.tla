------------------------------ MODULE Listing ------------------------------
(***************************************************************************)
(* Sorting and filtering of finite collections, the two operations the     *)
(* broker applies to its queue: `sort_by_key` on a set of requests and     *)
(* `retain` on a VecDeque.                                                 *)
(*                                                                         *)
(* Both are defined by rank rather than by recursion (SetToSortSeq and     *)
(* SelectSeq compute the same values), so that BrokerModelProofs can prove *)
(* what they return for every input.  MCBroker checks them against the     *)
(* library's recursive definitions.                                        *)
(***************************************************************************)
EXTENDS Integers, FiniteSets, Sequences, Functions

(* The position of x in S when S is sorted by key. *)
Rank(S, key, x) == Cardinality({y \in S : key[y] <= key[x]})

(* The elements of S, sorted by increasing key (the keys are distinct). *)
InOrder(S, key) ==
  [j \in 1..Cardinality(S) |-> CHOOSE x \in S : Rank(S, key, x) = j]

(* The elements of the sequence q that belong to T, in their order in q. *)
Retain(q, T) ==
  LET kept  == {i \in DOMAIN q : q[i] \in T}
      index == InOrder(kept, [i \in kept |-> i])
  IN  [j \in 1..Cardinality(kept) |-> q[index[j]]]
=============================================================================
