------------------------------ MODULE MCBroker ------------------------------
(***************************************************************************)
(* Instances of Broker for TLC, and a check of the operators of Listing    *)
(* against the library's recursive definitions.                            *)
(***************************************************************************)
EXTENDS Broker, TLC

L == INSTANCE SequencesExt

Symmetry == Permutations(Requests) \cup Permutations(Sessions)

(* retain keeps what SelectSeq selects, for every queue of up to 3 entries *)
(* (repetitions included) and every set to keep.                           *)
ASSUME RetainIsSelectSeq ==
  \A q \in UNION {[1..n -> 1..3] : n \in 0..3}, T \in SUBSET (1..3) :
    Retain(q, T) = SelectSeq(q, LAMBDA x : x \in T)

(* InOrder sorts: it lists each set by increasing key.                     *)
ASSUME InOrderIsSort ==
  \A S \in SUBSET (1..3) : \A key \in [S -> 0..4] :
    (\A x, y \in S : key[x] = key[y] => x = y) =>
      InOrder(S, key) = L!SetToSortSeq(S, LAMBDA x, y : key[x] < key[y])
=============================================================================
