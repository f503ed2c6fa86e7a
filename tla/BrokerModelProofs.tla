------------------------- MODULE BrokerModelProofs -------------------------
(***************************************************************************)
(* What sorting and filtering return, for every finite set and sequence,   *)
(* and that every operator of the request model preserves Consistent, for  *)
(* any set of requests and sessions and any limits.                        *)
(***************************************************************************)
EXTENDS BrokerModel, FiniteSetTheorems, FunctionTheorems, SequenceTheorems, TLAPS

(* A rank is a position of the sorted list.                                *)
LEMMA RankType ==
  ASSUME NEW S, IsFiniteSet(S), NEW key \in [S -> Int], NEW x \in S
  PROVE  Rank(S, key, x) \in 1..Cardinality(S)
<1> DEFINE below == {y \in S : key[y] <= key[x]}
<1>1. below \in SUBSET S /\ x \in below
  OBVIOUS
<1>2. IsFiniteSet(below) /\ Cardinality(below) <= Cardinality(S)
  BY <1>1, FS_Subset
<1>3. Cardinality(below) \in Nat /\ Cardinality(S) \in Nat
  BY <1>2, FS_CardinalityType
<1>4. Cardinality(below) # 0
  BY <1>1, <1>2, FS_EmptySet
<1> QED
  BY <1>2, <1>3, <1>4 DEF Rank

(* A larger key has a larger rank.                                         *)
LEMMA RankMonotone ==
  ASSUME NEW S, IsFiniteSet(S), NEW key \in [S -> Int],
         NEW x \in S, NEW y \in S, key[x] < key[y]
  PROVE  Rank(S, key, x) < Rank(S, key, y)
<1> DEFINE A == {z \in S : key[z] <= key[x]}
           B == {z \in S : key[z] <= key[y]}
<1>1. A \in SUBSET B /\ B \in SUBSET S
  OBVIOUS
<1>2. y \in B /\ y \notin A
  OBVIOUS
<1>3. IsFiniteSet(B)
  BY <1>1, FS_Subset
<1>4. IsFiniteSet(A) /\ Cardinality(A) <= Cardinality(B) /\ Cardinality(A) # Cardinality(B)
  BY <1>1, <1>2, <1>3, FS_Subset
<1>5. Cardinality(A) \in Nat /\ Cardinality(B) \in Nat
  BY <1>3, <1>4, FS_CardinalityType
<1>6. Cardinality(A) < Cardinality(B)
  BY <1>4, <1>5
<1> QED
  BY <1>6 DEF Rank

(* Every position of the list is the rank of exactly one element.          *)
LEMMA RankSurjective ==
  ASSUME NEW S, IsFiniteSet(S), NEW key \in [S -> Int],
         \A x, y \in S : key[x] = key[y] => x = y
  PROVE  /\ \A j \in 1..Cardinality(S) : \E x \in S : Rank(S, key, x) = j
         /\ \A x, y \in S : Rank(S, key, x) = Rank(S, key, y) => x = y
<1> DEFINE n == Cardinality(S)
           f == [x \in S |-> Rank(S, key, x)]
<1>1. n \in Nat
  BY FS_CardinalityType
<1>2. f \in [S -> 1..n]
  BY RankType
<1>3. ASSUME NEW x \in S, NEW y \in S, Rank(S, key, x) = Rank(S, key, y)
      PROVE  x = y
  <2>1. Rank(S, key, x) \in Int /\ Rank(S, key, y) \in Int
    BY RankType, <1>1
  <2>2. ~(key[x] < key[y]) /\ ~(key[y] < key[x])
    BY <1>3, <2>1, RankMonotone
  <2> QED
    BY <2>2
<1>4. f \in Injection(S, 1..n)
  BY <1>2, <1>3, Fun_IsInj
<1>5. IsFiniteSet(1..n) /\ Cardinality(1..n) = n
  BY <1>1, FS_Interval
<1>6. f \in Surjection(S, 1..n)
  BY <1>4, <1>5, FS_Injection
<1>7. \A j \in 1..n : \E x \in S : f[x] = j
  <2> HIDE DEF f
  <2> QED
    BY <1>6, Fun_SurjectionProperties
<1> QED
  BY <1>3, <1>7

(* InOrder lists the elements of S, each once, by increasing key.          *)
LEMMA InOrderSorts ==
  ASSUME NEW S, IsFiniteSet(S), NEW key \in [S -> Int],
         \A x, y \in S : key[x] = key[y] => x = y
  PROVE  /\ Cardinality(S) \in Nat
         /\ InOrder(S, key) \in [1..Cardinality(S) -> S]
         /\ \A x \in S : \E j \in 1..Cardinality(S) : InOrder(S, key)[j] = x
         /\ \A i, j \in 1..Cardinality(S) :
              i < j => key[InOrder(S, key)[i]] < key[InOrder(S, key)[j]]
<1> DEFINE n == Cardinality(S)
           o == InOrder(S, key)
<1>1. n \in Nat
  BY FS_CardinalityType
<1>2. ASSUME NEW j \in 1..n
      PROVE  o[j] \in S /\ Rank(S, key, o[j]) = j
  <2>1. \E x \in S : Rank(S, key, x) = j
    BY RankSurjective
  <2>2. o[j] = CHOOSE x \in S : Rank(S, key, x) = j
    BY DEF InOrder
  <2> QED
    BY <2>1, <2>2
<1>3. o \in [1..n -> S]
  BY <1>2 DEF InOrder
<1>4. ASSUME NEW x \in S
      PROVE  \E j \in 1..n : o[j] = x
  <2>1. Rank(S, key, x) \in 1..n
    BY RankType
  <2>2. o[Rank(S, key, x)] \in S /\ Rank(S, key, o[Rank(S, key, x)]) = Rank(S, key, x)
    BY <2>1, <1>2
  <2>3. o[Rank(S, key, x)] = x
    BY <2>2, RankSurjective
  <2> QED
    BY <2>1, <2>3
<1>5. ASSUME NEW i \in 1..n, NEW j \in 1..n, i < j
      PROVE  key[o[i]] < key[o[j]]
  <2>1. o[i] \in S /\ o[j] \in S /\ Rank(S, key, o[i]) = i /\ Rank(S, key, o[j]) = j
    BY <1>2
  <2>2. key[o[i]] \in Int /\ key[o[j]] \in Int
    BY <2>1
  <2>3. ~(key[o[j]] < key[o[i]])
    BY <2>1, <1>5, <1>1, RankMonotone
  <2>4. key[o[i]] # key[o[j]]
    BY <2>1, <1>5
  <2> QED
    BY <2>2, <2>3, <2>4
<1> QED
  BY <1>1, <1>3, <1>4, <1>5

(* Entries of p come from entries of q in the same order.                  *)
KeepsOrder(p, q) ==
  \A j, k \in DOMAIN p : j < k =>
    \E i, l \in DOMAIN q : i < l /\ q[i] = p[j] /\ q[l] = p[k]

(* Retain keeps the members of T and their order in q.                     *)
LEMMA RetainFilters ==
  ASSUME NEW U, NEW q \in Seq(U), NEW T
  PROVE  /\ Retain(q, T) \in Seq(U)
         /\ Range(Retain(q, T)) = Range(q) \cap T
         /\ KeepsOrder(Retain(q, T), q)
<1> DEFINE kept == {i \in DOMAIN q : q[i] \in T}
           id == [i \in kept |-> i]
           index == InOrder(kept, id)
           n == Cardinality(kept)
           res == Retain(q, T)
<1>1. DOMAIN q = 1..Len(q) /\ Len(q) \in Nat /\ \A i \in DOMAIN q : q[i] \in U
  OBVIOUS
<1>2. IsFiniteSet(kept)
  <2>1. IsFiniteSet(1..Len(q))
    BY <1>1, FS_Interval
  <2>2. kept \in SUBSET (1..Len(q))
    BY <1>1
  <2> QED
    BY <2>1, <2>2, FS_Subset
<1>3. id \in [kept -> Int] /\ \A x, y \in kept : id[x] = id[y] => x = y
  BY <1>1
<1>4. /\ n \in Nat
      /\ index \in [1..n -> kept]
      /\ \A x \in kept : \E j \in 1..n : index[j] = x
      /\ \A i, j \in 1..n : i < j => id[index[i]] < id[index[j]]
  <2> HIDE DEF kept, id
  <2> QED
    BY <1>2, <1>3, InOrderSorts
<1>5. res = [j \in 1..n |-> q[index[j]]]
  BY DEF Retain
<1>6. \A j \in 1..n : index[j] \in kept /\ q[index[j]] \in U /\ q[index[j]] \in T
  BY <1>1, <1>4
<1>7. res \in Seq(U)
  <2>1. res \in [1..n -> U]
    BY <1>5, <1>6
  <2> QED
    BY <2>1, <1>4
<1>8. Range(res) = Range(q) \cap T
  <2>1. ASSUME NEW x \in Range(res)
        PROVE  x \in Range(q) \cap T
    <3>1. PICK j \in 1..n : x = q[index[j]]
      BY <1>5 DEF Range
    <3> QED
      BY <3>1, <1>6 DEF Range
  <2>2. ASSUME NEW x \in Range(q) \cap T
        PROVE  x \in Range(res)
    <3>1. PICK i \in DOMAIN q : q[i] = x
      BY DEF Range
    <3>2. i \in kept
      BY <3>1
    <3>3. PICK j \in 1..n : index[j] = i
      BY <3>2, <1>4
    <3> QED
      BY <3>1, <3>3, <1>5 DEF Range
  <2> QED
    BY <2>1, <2>2
<1>9. ASSUME NEW j \in DOMAIN res, NEW k \in DOMAIN res, j < k
      PROVE  \E i, l \in DOMAIN q : i < l /\ q[i] = res[j] /\ q[l] = res[k]
  <2>1. j \in 1..n /\ k \in 1..n
    BY <1>5
  <2>2. index[j] \in kept /\ index[k] \in kept /\ index[j] < index[k]
    BY <2>1, <1>9, <1>4
  <2>3. index[j] \in DOMAIN q /\ index[k] \in DOMAIN q
    BY <2>2
  <2>4. res[j] = q[index[j]] /\ res[k] = q[index[k]]
    BY <2>1, <1>5
  <2> QED
    BY <2>2, <2>3, <2>4
<1>10. KeepsOrder(res, q)
  BY <1>9 DEF KeepsOrder
<1> QED
  BY <1>7, <1>8, <1>10
-----------------------------------------------------------------------------
(* The request model. *)

(* Every set of pending requests is finite.                                *)
LEMMA PendingFinite ==
  ASSUME NEW st, IsBrokerState(st), NEW S \in SUBSET Pending(st)
  PROVE  IsFiniteSet(S) /\ Cardinality(S) \in Nat
<1>1. S \in SUBSET Requests
  BY DEF IsBrokerState, Pending
<1>2. IsFiniteSet(S)
  BY <1>1, RequestsFinite, FS_Subset
<1> QED
  BY <1>2, FS_CardinalityType

(* Removing requests keeps the rest in order and within the limits.        *)
LEMMA RemoveConsistent ==
  ASSUME NEW st, Consistent(st), NEW S \in SUBSET Requests
  PROVE  Consistent(Remove(st, S)) /\ Pending(Remove(st, S)) = Pending(st) \ S
<1> DEFINE new == Remove(st, S)
<1>0. IsBrokerState(st)
  BY DEF Consistent
<1>1. /\ DOMAIN new = {"agent", "pending", "queue", "next_sequence", "wake_announced"}
      /\ new.agent = st.agent
      /\ new.pending = [r \in Pending(st) \ S |-> st.pending[r]]
      /\ new.queue = Retain(st.queue, Requests \ S)
      /\ new.next_sequence = st.next_sequence
      /\ new.wake_announced = st.wake_announced
  BY DEF Remove
<1>2. Pending(new) = Pending(st) \ S
  BY <1>1 DEF Pending
<1>3. /\ new.queue \in Seq(Requests)
      /\ Range(new.queue) = Range(st.queue) \cap (Requests \ S)
      /\ KeepsOrder(new.queue, st.queue)
  <2>1. st.queue \in Seq(Requests)
    BY <1>0 DEF IsBrokerState
  <2>2. /\ Retain(st.queue, Requests \ S) \in Seq(Requests)
        /\ Range(Retain(st.queue, Requests \ S)) = Range(st.queue) \cap (Requests \ S)
        /\ KeepsOrder(Retain(st.queue, Requests \ S), st.queue)
    BY <2>1, RetainFilters
  <2> QED
    BY <1>1, <2>2
<1>4. IsBrokerState(new)
  BY <1>0, <1>1, <1>2, <1>3 DEF IsBrokerState, Pending
<1>5. SequencesDistinct(new)
  BY <1>1, <1>2 DEF Consistent, SequencesDistinct
<1>6. QueuedIn(new) = QueuedIn(st) \ S /\ InFlightIn(new) = InFlightIn(st) \ S
  BY <1>1, <1>2 DEF QueuedIn, InFlightIn
<1>7. Ordered(new)
  <2>1. Range(new.queue) = QueuedIn(new)
    BY <1>0, <1>3, <1>6 DEF Consistent, Ordered, IsBrokerState, QueuedIn, Pending
  <2>2. ASSUME NEW j \in DOMAIN new.queue, NEW k \in DOMAIN new.queue, j < k
        PROVE  new.pending[new.queue[j]].sequence < new.pending[new.queue[k]].sequence
    <3>1. PICK i \in DOMAIN st.queue, l \in DOMAIN st.queue :
            i < l /\ st.queue[i] = new.queue[j] /\ st.queue[l] = new.queue[k]
      BY <1>3, <2>2 DEF KeepsOrder
    <3>2. st.pending[new.queue[j]].sequence < st.pending[new.queue[k]].sequence
      BY <3>1 DEF Consistent, Ordered
    <3>3. new.queue[j] \in Pending(new) /\ new.queue[k] \in Pending(new)
      BY <2>1 DEF Range, QueuedIn
    <3> QED
      BY <3>2, <3>3, <1>1, <1>2
  <2>3. ASSUME NEW r \in InFlightIn(new), NEW q \in QueuedIn(new)
        PROVE  new.pending[r].sequence < new.pending[q].sequence
    BY <1>1, <1>6 DEF Consistent, Ordered, InFlightIn, QueuedIn
  <2> QED
    BY <2>1, <2>2, <2>3 DEF Ordered
<1>8. OnActiveSession(new)
  BY <1>1, <1>6 DEF Consistent, OnActiveSession, InFlightIn
<1>9. Limited(new)
  <2>1. InFlightIn(new) \in SUBSET InFlightIn(st) /\ Pending(new) \in SUBSET Pending(st)
    BY <1>2, <1>6
  <2>2. InFlightIn(st) \in SUBSET Pending(st)
    BY DEF InFlightIn
  <2>3. /\ IsFiniteSet(InFlightIn(st)) /\ IsFiniteSet(Pending(st))
        /\ Cardinality(InFlightIn(st)) \in Nat /\ Cardinality(Pending(st)) \in Nat
    BY <2>2, <1>0, PendingFinite
  <2>4. /\ Cardinality(InFlightIn(new)) <= Cardinality(InFlightIn(st))
        /\ Cardinality(Pending(new)) <= Cardinality(Pending(st))
    BY <2>1, <2>3, FS_Subset
  <2>5. Cardinality(InFlightIn(new)) \in Nat /\ Cardinality(Pending(new)) \in Nat
    BY <2>1, <2>2, <1>0, PendingFinite
  <2> QED
    BY <2>3, <2>4, <2>5, CapacityPositive, MaxPendingPositive DEF Consistent, Limited
<1> QED
  BY <1>2, <1>4, <1>5, <1>7, <1>8, <1>9 DEF Consistent
(* Admission appends the newest request.                                   *)
LEMMA SubmitConsistent ==
  ASSUME NEW st, Consistent(st), NEW r \in Requests, r \notin Pending(st), ~IsFull(st)
  PROVE  Consistent(Submit(st, r)) /\ Pending(Submit(st, r)) = Pending(st) \cup {r}
<1> DEFINE new == Submit(st, r)
           admitted == [sequence |-> st.next_sequence, attempt |-> 0, state |-> Queued]
<1>0. IsBrokerState(st)
  BY DEF Consistent
<1>1. /\ DOMAIN new = {"agent", "pending", "queue", "next_sequence", "wake_announced"}
      /\ new.agent = st.agent
      /\ new.pending = [x \in Pending(st) \cup {r} |-> IF x = r THEN admitted ELSE st.pending[x]]
      /\ new.queue = Append(st.queue, r)
      /\ new.next_sequence = st.next_sequence + 1
      /\ new.wake_announced = FALSE
  BY DEF Submit
<1>2. Pending(new) = Pending(st) \cup {r}
  BY <1>1 DEF Pending
<1>3. /\ new.pending[r] = admitted
      /\ \A x \in Pending(st) : new.pending[x] = st.pending[x]
  BY <1>1
<1>4. /\ st.queue \in Seq(Requests) /\ Len(st.queue) \in Nat
      /\ DOMAIN st.queue = 1..Len(st.queue)
      /\ st.next_sequence \in Nat
  BY <1>0 DEF IsBrokerState
<1>5. /\ new.queue \in Seq(Requests)
      /\ DOMAIN new.queue = 1..(Len(st.queue) + 1)
      /\ new.queue[Len(st.queue) + 1] = r
      /\ \A i \in DOMAIN st.queue : new.queue[i] = st.queue[i]
  BY <1>1, <1>4
<1>6. admitted \in PendingRequest
  BY <1>4 DEF PendingRequest, PendingState
<1>7. IsBrokerState(new)
  <2>1. \A x \in Pending(new) : new.pending[x] \in PendingRequest
    BY <1>0, <1>2, <1>3, <1>6 DEF IsBrokerState, Pending
  <2>2. new.pending = [x \in Pending(new) |-> new.pending[x]]
    BY <1>1 DEF Pending
  <2>3. Pending(new) \subseteq Requests
    BY <1>0, <1>2 DEF IsBrokerState, Pending
  <2> HIDE DEF new, admitted
  <2>4. new.pending \in [Pending(new) -> PendingRequest]
    BY <2>1, <2>2
  <2>5. st.next_sequence + 1 \in Nat /\ st.agent \in RemoteAgentState
    BY <1>0, <1>4 DEF IsBrokerState
  <2> QED
    BY <1>1, <1>5, <2>3, <2>4, <2>5 DEF IsBrokerState, Pending
<1>8. \A x \in Pending(st) : st.pending[x].sequence \in Nat /\ st.pending[x].sequence < st.next_sequence
  BY <1>0 DEF Consistent, SequencesDistinct, IsBrokerState, PendingRequest, Pending
<1>9. SequencesDistinct(new)
  <2>1. admitted.sequence = st.next_sequence
    OBVIOUS
  <2> HIDE DEF admitted, new
  <2> QED
    BY <1>1, <1>2, <1>3, <1>4, <1>8, <2>1 DEF Consistent, SequencesDistinct
<1>10. QueuedIn(new) = QueuedIn(st) \cup {r} /\ InFlightIn(new) = InFlightIn(st)
  <2>1. admitted.state = Queued
    OBVIOUS
  <2> HIDE DEF admitted, new
  <2> QED
    BY <1>2, <1>3, <2>1 DEF QueuedIn, InFlightIn
<1>11. Ordered(new)
  <2>1. Range(new.queue) = Range(st.queue) \cup {r}
    <3>1. ASSUME NEW x \in Range(new.queue) PROVE x \in Range(st.queue) \cup {r}
      BY <1>4, <1>5 DEF Range
    <3>2. ASSUME NEW x \in Range(st.queue) \cup {r} PROVE x \in Range(new.queue)
      BY <1>4, <1>5 DEF Range
    <3> QED
      BY <3>1, <3>2
  <2>2. Range(new.queue) = QueuedIn(new)
    BY <2>1, <1>10 DEF Consistent, Ordered
  <2>3. \A i \in DOMAIN st.queue : st.queue[i] \in Pending(st)
    BY DEF Consistent, Ordered, Range, QueuedIn
  <2>4. new.pending[r].sequence = st.next_sequence
    BY <1>3
  <2>5. ASSUME NEW i \in DOMAIN new.queue, NEW j \in DOMAIN new.queue, i < j
        PROVE  new.pending[new.queue[i]].sequence < new.pending[new.queue[j]].sequence
    <3>1. i \in DOMAIN st.queue /\ new.queue[i] = st.queue[i]
      BY <1>4, <1>5, <2>5
    <3>2. CASE j = Len(st.queue) + 1
      BY <3>1, <3>2, <1>5, <1>3, <1>8, <2>3, <2>4
    <3>3. CASE j # Len(st.queue) + 1
      <4>1. j \in DOMAIN st.queue /\ new.queue[j] = st.queue[j]
        BY <3>3, <1>4, <1>5
      <4> QED
        BY <3>1, <4>1, <1>3, <2>3, <2>5 DEF Consistent, Ordered
    <3> QED
      BY <3>2, <3>3
  <2>6. ASSUME NEW x \in InFlightIn(new), NEW q \in QueuedIn(new)
        PROVE  new.pending[x].sequence < new.pending[q].sequence
    BY <1>3, <1>8, <1>10, <2>4 DEF Consistent, Ordered, InFlightIn, QueuedIn
  <2> QED
    BY <2>2, <2>5, <2>6 DEF Ordered
<1>12. OnActiveSession(new)
  BY <1>1, <1>3, <1>10 DEF Consistent, OnActiveSession, InFlightIn
<1>13. Limited(new)
  <2>1. IsFiniteSet(Pending(st)) /\ Cardinality(Pending(st)) \in Nat
    BY <1>0, PendingFinite
  <2>2. Cardinality(Pending(new)) = Cardinality(Pending(st)) + 1
    BY <1>2, <2>1, FS_AddElement
  <2>3. Cardinality(Pending(st)) < MaxPending
    BY <2>1, MaxPendingPositive DEF IsFull
  <2> QED
    BY <1>10, <2>1, <2>2, <2>3, MaxPendingPositive DEF Consistent, Limited
<1> QED
  BY <1>2, <1>7, <1>9, <1>11, <1>12, <1>13 DEF Consistent

(* Changing the availability facts alone keeps the requests as they are.   *)
LEMMA WithAgentConsistent ==
  ASSUME NEW st, Consistent(st), NEW agent \in RemoteAgentState, NEW wake \in BOOLEAN,
         InFlightIn(st) = {} \/ agent.session = st.agent.session
  PROVE  /\ Consistent(WithAgent(st, agent, wake))
         /\ Pending(WithAgent(st, agent, wake)) = Pending(st)
<1> DEFINE new == WithAgent(st, agent, wake)
<1>1. /\ DOMAIN new = {"agent", "pending", "queue", "next_sequence", "wake_announced"}
      /\ new.agent = agent
      /\ new.pending = st.pending
      /\ new.queue = st.queue
      /\ new.next_sequence = st.next_sequence
      /\ new.wake_announced = wake
  BY DEF WithAgent
<1> HIDE DEF new
<1>2. Pending(new) = Pending(st) /\ QueuedIn(new) = QueuedIn(st) /\ InFlightIn(new) = InFlightIn(st)
  BY <1>1 DEF Pending, QueuedIn, InFlightIn
<1>3. IsBrokerState(new)
  BY <1>1 DEF Consistent, IsBrokerState
<1>4. SequencesDistinct(new) /\ Ordered(new) /\ Limited(new)
  BY <1>1, <1>2 DEF Consistent, SequencesDistinct, Ordered, Limited
<1>5. OnActiveSession(new)
  BY <1>1, <1>2 DEF Consistent, OnActiveSession
<1>6. Consistent(new)
  BY <1>3, <1>4, <1>5 DEF Consistent
<1> QED
  BY <1>2, <1>6 DEF new

(* Expiry removes the overdue requests and nothing else.                   *)
LEMMA ExpireConsistent ==
  ASSUME NEW st, Consistent(st), NEW overdue
  PROVE  /\ Consistent(Expire(st, overdue))
         /\ Pending(Expire(st, overdue)) = Pending(st) \ overdue
         /\ Expire(st, overdue).agent = st.agent
<1>1. Expired(st, overdue) \in SUBSET Requests
  BY DEF Expired, Consistent, IsBrokerState, Pending
<1>2. Pending(st) \ Expired(st, overdue) = Pending(st) \ overdue
  BY DEF Expired
<1>3. Remove(st, Expired(st, overdue)).agent = st.agent
  BY DEF Remove
<1> QED
  BY <1>1, <1>2, <1>3, RemoveConsistent DEF Expire

(* A response takes a request in flight out; the queue does not hold it.   *)
LEMMA RespondConsistent ==
  ASSUME NEW st, Consistent(st), NEW r \in InFlightIn(st)
  PROVE  /\ Consistent(Respond(st, r))
         /\ Pending(Respond(st, r)) = Pending(st) \ {r}
         /\ Respond(st, r).agent = st.agent
<1> DEFINE new == Respond(st, r)
<1>0. IsBrokerState(st)
  BY DEF Consistent
<1>1. /\ DOMAIN new = {"agent", "pending", "queue", "next_sequence", "wake_announced"}
      /\ new.agent = st.agent
      /\ new.pending = [x \in Pending(st) \ {r} |-> st.pending[x]]
      /\ new.queue = st.queue
      /\ new.next_sequence = st.next_sequence
      /\ new.wake_announced = st.wake_announced
  BY DEF Respond
<1> HIDE DEF new
<1>2. Pending(new) = Pending(st) \ {r}
  BY <1>1 DEF Pending
<1>3. IsBrokerState(new)
  BY <1>0, <1>1, <1>2 DEF IsBrokerState, Pending
<1>4. SequencesDistinct(new)
  BY <1>1, <1>2 DEF Consistent, SequencesDistinct
<1>5. QueuedIn(new) = QueuedIn(st) /\ InFlightIn(new) = InFlightIn(st) \ {r}
  BY <1>1, <1>2 DEF QueuedIn, InFlightIn
<1>6. Ordered(new)
  <2>1. \A i \in DOMAIN st.queue : st.queue[i] \in Pending(new)
    BY <1>2, <1>5 DEF Consistent, Ordered, Range, QueuedIn
  <2> QED
    BY <1>1, <1>2, <1>5, <2>1 DEF Consistent, Ordered, QueuedIn, InFlightIn
<1>7. OnActiveSession(new)
  BY <1>1, <1>5 DEF Consistent, OnActiveSession, InFlightIn
<1>8. Limited(new)
  <2>1. /\ InFlightIn(new) \in SUBSET InFlightIn(st) /\ Pending(new) \in SUBSET Pending(st)
        /\ InFlightIn(st) \in SUBSET Pending(st)
    BY <1>2, <1>5 DEF InFlightIn
  <2>2. /\ IsFiniteSet(InFlightIn(st)) /\ IsFiniteSet(Pending(st))
        /\ Cardinality(InFlightIn(st)) \in Nat /\ Cardinality(Pending(st)) \in Nat
    BY <2>1, <1>0, PendingFinite
  <2>3. /\ Cardinality(InFlightIn(new)) <= Cardinality(InFlightIn(st))
        /\ Cardinality(Pending(new)) <= Cardinality(Pending(st))
    BY <2>1, <2>2, FS_Subset
  <2>4. Cardinality(InFlightIn(new)) \in Nat /\ Cardinality(Pending(new)) \in Nat
    BY <2>1, <1>0, PendingFinite
  <2> QED
    BY <2>2, <2>3, <2>4, CapacityPositive, MaxPendingPositive DEF Consistent, Limited
<1>9. Consistent(new)
  BY <1>3, <1>4, <1>6, <1>7, <1>8 DEF Consistent
<1> QED
  BY <1>1, <1>2, <1>9 DEF new

(* The work of the active session is all the work in flight.               *)
LEMMA InFlightForActive ==
  ASSUME NEW st, Consistent(st), st.agent.session \in Sessions
  PROVE  InFlightFor(st, st.agent.session) = InFlightIn(st)
<1>1. Queued.session = None
  BY DEF Queued
<1> QED
  BY <1>1, NoneIsNoSession DEF Consistent, OnActiveSession, InFlightFor, InFlightIn

(* Only a connected remote has work in flight.                             *)
LEMMA DisconnectedIdle ==
  ASSUME NEW st, Consistent(st), st.agent.session = None
  PROVE  InFlightIn(st) = {}
<1>1. ASSUME NEW r \in InFlightIn(st)
      PROVE  st.pending[r].state.session \in Sessions
  <2>1. st.pending[r] \in PendingRequest /\ st.pending[r].state # Queued
    BY DEF Consistent, IsBrokerState, InFlightIn, Pending
  <2>2. st.pending[r].state \in PendingState
    BY <2>1 DEF PendingRequest
  <2> QED
    BY <2>1, <2>2 DEF PendingState
<1> QED
  BY <1>1, NoneIsNoSession DEF Consistent, OnActiveSession

(* The session of the agent is a session or None.                          *)
LEMMA AgentSession ==
  ASSUME NEW st, IsBrokerState(st)
  PROVE  st.agent.session \in Sessions \cup {None}
BY DEF IsBrokerState, RemoteAgentState, Disconnected

(* Requeueing puts the work in flight, which is the oldest, in front.      *)
LEMMA RequeueConsistent ==
  ASSUME NEW st, Consistent(st), NEW s \in Sessions, st.agent.session = s
  PROVE  /\ Consistent(RequeueSession(st, s))
         /\ Pending(RequeueSession(st, s)) = Pending(st)
         /\ InFlightIn(RequeueSession(st, s)) = {}
         /\ RequeueSession(st, s).agent = st.agent
<1> DEFINE new == RequeueSession(st, s)
           back == InFlightIn(st)
           key == [r \in back |-> st.pending[r].sequence]
           front == InOrder(back, key)
           n == Cardinality(back)
<1>0. IsBrokerState(st)
  BY DEF Consistent
<1>1. InFlightFor(st, s) = back
  BY InFlightForActive
<1>2. /\ DOMAIN new = {"agent", "pending", "queue", "next_sequence", "wake_announced"}
      /\ new.agent = st.agent
      /\ new.pending = [r \in Pending(st) |->
                          IF r \in back
                          THEN [sequence |-> st.pending[r].sequence,
                                attempt  |-> st.pending[r].attempt,
                                state    |-> Queued]
                          ELSE st.pending[r]]
      /\ new.queue = front \o st.queue
      /\ new.next_sequence = st.next_sequence
      /\ new.wake_announced = st.wake_announced
  BY <1>1 DEF RequeueSession, BySequence
<1>3. Pending(new) = Pending(st)
  BY <1>2 DEF Pending
<1>4. /\ back \in SUBSET Pending(st) /\ IsFiniteSet(back)
      /\ back \in SUBSET Requests
  BY <1>0, PendingFinite DEF InFlightIn, IsBrokerState, Pending
<1>5. \A r \in Pending(st) : st.pending[r] \in PendingRequest /\ st.pending[r].sequence \in Nat
  BY <1>0 DEF IsBrokerState, Pending, PendingRequest
<1>6. key \in [back -> Int] /\ \A x, y \in back : key[x] = key[y] => x = y
  BY <1>4, <1>5 DEF Consistent, SequencesDistinct
<1>7. /\ n \in Nat
      /\ front \in [1..n -> back]
      /\ \A x \in back : \E j \in 1..n : front[j] = x
      /\ \A i, j \in 1..n : i < j => key[front[i]] < key[front[j]]
  <2> HIDE DEF back, key
  <2> QED
    BY <1>4, <1>6, InOrderSorts
<1>8. front \in Seq(Requests) /\ Len(front) = n /\ DOMAIN front = 1..n
  BY <1>4, <1>7
<1>9. /\ st.queue \in Seq(Requests) /\ Len(st.queue) \in Nat
      /\ DOMAIN st.queue = 1..Len(st.queue)
  BY <1>0 DEF IsBrokerState
<1> HIDE DEF new, back, key, front, n
<1>10. /\ new.queue \in Seq(Requests)
       /\ Len(new.queue) = n + Len(st.queue)
       /\ DOMAIN new.queue = 1..(n + Len(st.queue))
       /\ \A i \in 1..n : new.queue[i] = front[i]
       /\ \A i \in 1..Len(st.queue) : new.queue[n + i] = st.queue[i]
  <2>1. /\ front \o st.queue \in Seq(Requests)
        /\ Len(front \o st.queue) = n + Len(st.queue)
        /\ \A i \in 1..(n + Len(st.queue)) :
             (front \o st.queue)[i] = IF i <= n THEN front[i] ELSE st.queue[i - n]
    BY <1>8, <1>9, ConcatProperties
  <2>2. DOMAIN (front \o st.queue) = 1..(n + Len(st.queue))
    BY <2>1
  <2>3. \A i \in 1..n : (front \o st.queue)[i] = front[i]
    BY <2>1, <1>7, <1>9
  <2>4. \A i \in 1..Len(st.queue) : (front \o st.queue)[n + i] = st.queue[i]
    BY <2>1, <1>7, <1>9
  <2> QED
    BY <1>2, <2>1, <2>2, <2>3, <2>4
<1>11. \A r \in Pending(st) : /\ new.pending[r].sequence = st.pending[r].sequence
                              /\ new.pending[r].state = Queued
                              /\ new.pending[r] \in PendingRequest
  BY <1>2, <1>5 DEF back, InFlightIn, PendingRequest, PendingState
<1>12. QueuedIn(new) = Pending(st) /\ InFlightIn(new) = {}
  BY <1>3, <1>11 DEF QueuedIn, InFlightIn
<1>13. IsBrokerState(new)
  <2>1. new.pending = [x \in Pending(new) |-> new.pending[x]]
    BY <1>2 DEF Pending
  <2>2. new.pending \in [Pending(new) -> PendingRequest]
    BY <1>3, <1>11, <2>1
  <2> QED
    BY <1>0, <1>2, <1>3, <1>10, <2>2 DEF IsBrokerState, Pending
<1>14. SequencesDistinct(new)
  BY <1>2, <1>3, <1>11 DEF Consistent, SequencesDistinct
<1>15. \A i \in 1..n : front[i] \in back /\ front[i] \in Pending(st) /\ key[front[i]] = st.pending[front[i]].sequence
  BY <1>4, <1>7 DEF key
<1>16. \A i \in DOMAIN st.queue : st.queue[i] \in QueuedIn(st) /\ st.queue[i] \in Pending(st)
  BY DEF Consistent, Ordered, Range, QueuedIn
<1>17. \A i \in DOMAIN new.queue :
         \/ i \in 1..n /\ new.queue[i] = front[i]
         \/ (i - n) \in DOMAIN st.queue /\ new.queue[i] = st.queue[i - n]
  <2> SUFFICES ASSUME NEW i \in DOMAIN new.queue, i \notin 1..n
               PROVE  (i - n) \in DOMAIN st.queue /\ new.queue[i] = st.queue[i - n]
    BY <1>10
  <2>1. i - n \in 1..Len(st.queue) /\ i = n + (i - n)
    BY <1>7, <1>9, <1>10
  <2> QED
    BY <2>1, <1>9, <1>10
<1>18. Ordered(new)
  <2>1. Range(new.queue) = QueuedIn(new)
    <3>1. ASSUME NEW x \in Range(new.queue) PROVE x \in Pending(st)
      BY <1>15, <1>16, <1>17 DEF Range
    <3>2. ASSUME NEW x \in Pending(st) PROVE x \in Range(new.queue)
      <4>1. CASE x \in back
        <5>1. PICK j \in 1..n : front[j] = x
          BY <4>1, <1>7
        <5>2. j \in DOMAIN new.queue /\ new.queue[j] = x
          BY <5>1, <1>7, <1>9, <1>10
        <5> QED
          BY <5>2 DEF Range
      <4>2. CASE x \notin back
        <5>1. x \in Range(st.queue)
          BY <4>2 DEF back, InFlightIn, QueuedIn, Consistent, Ordered
        <5>2. PICK j \in DOMAIN st.queue : st.queue[j] = x
          BY <5>1 DEF Range
        <5>3. n + j \in DOMAIN new.queue /\ new.queue[n + j] = x
          BY <5>2, <1>7, <1>9, <1>10
        <5> QED
          BY <5>3 DEF Range
      <4> QED
        BY <4>1, <4>2
    <3> QED
      BY <3>1, <3>2, <1>12
  <2>2. ASSUME NEW i \in DOMAIN new.queue, NEW j \in DOMAIN new.queue, i < j
        PROVE  st.pending[new.queue[i]].sequence < st.pending[new.queue[j]].sequence
    <3>1. CASE i \in 1..n /\ j \in 1..n
      BY SMTT(30), <3>1, <2>2, <1>7, <1>10, <1>15
    <3>2. CASE i \in 1..n /\ j \notin 1..n
      <4>1. new.queue[i] \in back /\ new.queue[j] \in QueuedIn(st)
        BY <3>2, <1>15, <1>16, <1>17, <1>10
      <4> QED
        BY <4>1 DEF back, Consistent, Ordered
    <3>3. CASE i \notin 1..n
      <4>1. j \notin 1..n /\ i \in Int /\ j \in Int
        BY <3>3, <2>2, <1>7, <1>9, <1>10
      <4>2. i - n < j - n
        BY <4>1, <2>2, <1>7
      <4> QED
        BY <3>3, <4>1, <4>2, <1>17 DEF Consistent, Ordered
    <3> QED
      BY <3>1, <3>2, <3>3
  <2>3. \A i \in DOMAIN new.queue : new.queue[i] \in Pending(st)
    BY <1>15, <1>16, <1>17
  <2> QED
    BY <2>1, <2>2, <2>3, <1>11, <1>12 DEF Ordered
<1>19. OnActiveSession(new)
  BY <1>12 DEF OnActiveSession
<1>20. Limited(new)
  BY <1>3, <1>12, FS_EmptySet, CapacityPositive DEF Consistent, Limited
<1>21. Consistent(new)
  BY <1>13, <1>14, <1>18, <1>19, <1>20 DEF Consistent
<1> QED
  BY <1>2, <1>3, <1>12, <1>21 DEF new

(* The connection events.                                                  *)
LEMMA ConnectConsistent ==
  ASSUME NEW st, Consistent(st), NEW s \in Sessions, st.agent.session = None
  PROVE  /\ Consistent(Connect(st, s))
         /\ Pending(Connect(st, s)) = Pending(st)
         /\ Connect(st, s).agent.session = s
<1>1. Locked(s) \in RemoteAgentState /\ Locked(s).session = s
  BY DEF Locked, RemoteAgentState
<1>2. WithAgent(st, Locked(s), FALSE).agent = Locked(s)
  BY DEF WithAgent
<1>3. InFlightIn(st) = {}
  BY DisconnectedIdle
<1> QED
  BY <1>1, <1>2, <1>3, WithAgentConsistent DEF Connect

(* Readiness and locking of the bound session keep the state consistent.   *)
LEMMA AvailabilityConsistent ==
  ASSUME NEW st, Consistent(st), NEW s \in Sessions
  PROVE  /\ Consistent(SetReady(st, s)) /\ Consistent(SetLocked(st, s))
         /\ Pending(SetReady(st, s)) = Pending(st) /\ Pending(SetLocked(st, s)) = Pending(st)
         /\ SetReady(st, s).agent.session = st.agent.session
         /\ SetLocked(st, s).agent.session = st.agent.session
<1>1. /\ Ready(s) \in RemoteAgentState /\ Ready(s).session = s
      /\ Locked(s) \in RemoteAgentState /\ Locked(s).session = s
  BY DEF Ready, Locked, RemoteAgentState
<1>2. st.wake_announced \in BOOLEAN
  BY DEF Consistent, IsBrokerState
<1>3. /\ WithAgent(st, Ready(s), st.wake_announced).agent = Ready(s)
      /\ WithAgent(st, Locked(s), st.wake_announced).agent = Locked(s)
  BY DEF WithAgent
<1>4. CASE st.agent.session = s
  BY <1>1, <1>2, <1>3, <1>4, WithAgentConsistent DEF SetReady, SetLocked
<1>5. CASE st.agent.session # s
  BY <1>5 DEF SetReady, SetLocked
<1> QED
  BY <1>4, <1>5

(* Losing a session requeues its work in order and keeps the state         *)
(* consistent.                                                             *)
LEMMA DisconnectConsistent ==
  ASSUME NEW st, Consistent(st), NEW s \in Sessions
  PROVE  /\ Consistent(Disconnect(st, s))
         /\ Pending(Disconnect(st, s)) = Pending(st)
         /\ Disconnect(st, s).agent.session =
              IF st.agent.session = s THEN None ELSE st.agent.session
<1>1. CASE st.agent.session = s
  <2> DEFINE back == RequeueSession(st, s)
  <2>1. Consistent(back) /\ Pending(back) = Pending(st) /\ InFlightIn(back) = {}
    BY <1>1, RequeueConsistent
  <2>2. Disconnected \in RemoteAgentState /\ Disconnected.session = None
    BY DEF Disconnected, RemoteAgentState
  <2>3. WithAgent(back, Disconnected, FALSE).agent = Disconnected
    BY DEF WithAgent
  <2> HIDE DEF back
  <2>4. /\ Consistent(WithAgent(back, Disconnected, FALSE))
        /\ Pending(WithAgent(back, Disconnected, FALSE)) = Pending(back)
    BY <2>1, <2>2, WithAgentConsistent
  <2> QED
    BY <1>1, <2>1, <2>2, <2>3, <2>4 DEF Disconnect, back
<1>2. CASE st.agent.session # s
  BY <1>2 DEF Disconnect
<1> QED
  BY <1>1, <1>2

(* The dispatch loop takes entries until the room or the queue is used up. *)
LEMMA PoppedFillsRoom ==
  ASSUME NEW st, Consistent(st)
  PROVE  /\ Room(st) \in Nat
         /\ Popped(st) \in 0..Len(st.queue)
         /\ Popped(st) <= Room(st)
         /\ Popped(st) = Len(st.queue) \/ Popped(st) = Room(st)
<1> DEFINE live(m) == Cardinality({i \in 1..m : st.queue[i] \in Pending(st)})
           n == Len(st.queue)
           room == Room(st)
           Stops(m) == /\ m = n \/ live(m) >= room
                       /\ \A k \in 0..(m - 1) : live(k) < room
<1>0. IsBrokerState(st)
  BY DEF Consistent
<1>1. n \in Nat /\ DOMAIN st.queue = 1..n
  BY <1>0 DEF IsBrokerState
<1>2. \A i \in 1..n : st.queue[i] \in Pending(st)
  BY <1>1 DEF Consistent, Ordered, Range, QueuedIn
<1>3. \A m \in 0..n : live(m) = m
  <2> SUFFICES ASSUME NEW m \in 0..n PROVE live(m) = m
    OBVIOUS
  <2>1. {i \in 1..m : st.queue[i] \in Pending(st)} = 1..m
    BY <1>1, <1>2
  <2>2. Cardinality(1..m) = m
    BY <1>1, FS_Interval
  <2> QED
    BY <2>1, <2>2
<1>4. room \in Nat
  <2>1. CASE st.agent.session = None
    BY <2>1 DEF Room
  <2>2. CASE st.agent.session # None
    <3>1. InFlightFor(st, st.agent.session) = InFlightIn(st)
      BY <1>0, <2>2, AgentSession, InFlightForActive
    <3>2. Cardinality(InFlightIn(st)) \in Nat
      BY <1>0, PendingFinite DEF InFlightIn
    <3>3. Cardinality(InFlightIn(st)) <= Capacity
      BY DEF Consistent, Limited
    <3> QED
      BY <2>2, <3>1, <3>2, <3>3, CapacityPositive DEF Room
  <2> QED
    BY <2>1, <2>2
<1>5. Popped(st) = CHOOSE m \in 0..n : Stops(m)
  BY DEF Popped
<1> HIDE DEF live, room, n
<1>6. \E m \in 0..n : Stops(m)
  <2> DEFINE m == IF room <= n THEN room ELSE n
  <2>1. m \in 0..n
    BY <1>1, <1>4
  <2>2. m = n \/ live(m) >= room
    BY <1>1, <1>3, <1>4
  <2>3. \A k \in 0..(m - 1) : live(k) < room
    BY <1>1, <1>3, <1>4
  <2> QED
    BY <2>1, <2>2, <2>3
<1>7. Popped(st) \in 0..n /\ Stops(Popped(st))
  BY <1>5, <1>6
<1>8. Popped(st) <= room
  <2>1. CASE Popped(st) = 0
    BY <2>1, <1>4
  <2>2. CASE Popped(st) # 0
    <3>1. Popped(st) - 1 \in 0..(Popped(st) - 1) /\ Popped(st) - 1 \in 0..n
      BY <2>2, <1>7, <1>1
    <3>2. live(Popped(st) - 1) = Popped(st) - 1
      BY <1>3, <3>1
    <3> QED
      BY <3>1, <3>2, <1>7, <1>4, <1>1
  <2> QED
    BY <2>1, <2>2
<1>9. Popped(st) = n \/ Popped(st) = room
  BY <1>1, <1>3, <1>4, <1>7, <1>8
<1> QED
  BY <1>4, <1>7, <1>8, <1>9 DEF n, room

(* What the loop dispatches: the first entries of the queue.               *)
LEMMA DispatchedPrefix ==
  ASSUME NEW st, Consistent(st)
  PROVE  /\ Range(Dispatched(st)) = {st.queue[i] : i \in 1..Popped(st)}
         /\ Dispatched(st) \in Seq(Requests)
         /\ IsFiniteSet(Range(Dispatched(st)))
         /\ Cardinality(Range(Dispatched(st))) = Popped(st)
         /\ \A i, j \in DOMAIN Dispatched(st) : Dispatched(st)[i] = Dispatched(st)[j] => i = j
<1> DEFINE m == Popped(st)
           q == st.queue
           pre == SubSeq(q, 1, m)
           sent == {q[i] : i \in 1..m}
<1>0. IsBrokerState(st)
  BY DEF Consistent
<1>1. q \in Seq(Requests) /\ Len(q) \in Nat /\ DOMAIN q = 1..Len(q)
  BY <1>0 DEF IsBrokerState
<1>2. m \in 0..Len(q) /\ m \in Nat
  BY <1>1, PoppedFillsRoom
<1>3. \A i \in 1..m : i \in DOMAIN q /\ q[i] \in Requests /\ q[i] \in Pending(st)
  BY <1>1, <1>2 DEF Consistent, Ordered, Range, QueuedIn
<1> HIDE DEF m, q
<1>4. pre \in Seq(Requests) /\ Len(pre) = m /\ \A i \in 1..m : pre[i] = q[i]
  <2>1. /\ SubSeq(q, 1, m) \in Seq(Requests)
        /\ Len(SubSeq(q, 1, m)) = IF 1 <= m THEN m - 1 + 1 ELSE 0
        /\ \A i \in 1..(m - 1 + 1) : SubSeq(q, 1, m)[i] = q[1 + i - 1]
    BY <1>2, <1>3, SubSeqProperties
  <2>2. ASSUME NEW i \in 1..m PROVE pre[i] = q[i]
    <3>1. i \in 1..(m - 1 + 1) /\ 1 + i - 1 = i
      BY <1>2
    <3> QED
      BY <2>1, <3>1
  <2> QED
    BY <1>2, <2>1, <2>2
<1>5. Range(pre) = sent
  <2>1. DOMAIN pre = 1..m
    BY <1>4
  <2> HIDE DEF pre
  <2> QED
    BY <1>4, <2>1 DEF Range
<1>6. Dispatched(st) = Retain(pre, Pending(st))
  BY DEF Dispatched, m, q
<1> HIDE DEF pre
<1>7. /\ Dispatched(st) \in Seq(Requests)
      /\ Range(Dispatched(st)) = Range(pre) \cap Pending(st)
      /\ KeepsOrder(Dispatched(st), pre)
  BY <1>4, <1>6, RetainFilters
<1>8. Range(Dispatched(st)) = sent
  BY <1>3, <1>5, <1>7
<1>9. ASSUME NEW i \in 1..m, NEW j \in 1..m, i < j PROVE q[i] # q[j]
  <2>1. st.pending[q[i]].sequence < st.pending[q[j]].sequence
    BY <1>3, <1>9 DEF Consistent, Ordered, q
  <2>2. st.pending[q[i]].sequence \in Nat
    BY <1>0, <1>3 DEF IsBrokerState, Pending, PendingRequest
  <2> QED
    BY <2>1, <2>2
<1>10. IsFiniteSet(sent) /\ Cardinality(sent) = m
  <2> DEFINE f == [i \in 1..m |-> q[i]]
  <2>1. f \in [1..m -> sent]
    OBVIOUS
  <2>3. \A i, j \in 1..m : f[i] = f[j] => i = j
    BY <1>9, <1>2
  <2>4. \A x \in sent : \E i \in 1..m : f[i] = x
    OBVIOUS
  <2> HIDE DEF f, sent
  <2>5. f \in Bijection(1..m, sent)
    BY <2>1, <2>3, <2>4, Fun_IsBij
  <2>6. ExistsBijection(1..m, sent)
    BY <2>5 DEF ExistsBijection
  <2>7. IsFiniteSet(1..m) /\ Cardinality(1..m) = m
    BY <1>2, FS_Interval
  <2> QED
    BY <2>6, <2>7, FS_Bijection
<1>11. \A i, j \in DOMAIN Dispatched(st) : Dispatched(st)[i] = Dispatched(st)[j] => i = j
  <2> DEFINE D == Dispatched(st)
  <2>1. DOMAIN D = 1..Len(D) /\ Len(D) \in Nat /\ DOMAIN pre = 1..m
    BY <1>4, <1>7
  <2>2. ASSUME NEW i \in DOMAIN D, NEW j \in DOMAIN D, i < j PROVE D[i] # D[j]
    <3>1. PICK k, l \in DOMAIN pre : k < l /\ pre[k] = D[i] /\ pre[l] = D[j]
      BY <1>7, <2>2 DEF KeepsOrder
    <3> QED
      BY <1>4, <1>9, <2>1, <3>1
  <2> QED
    BY <2>1, <2>2
<1> QED
  BY <1>7, <1>8, <1>10, <1>11 DEF m, q

(* Dispatch moves the front of the queue to the remote, within capacity,   *)
(* and leaves nothing queued that the remote has room for.                 *)
LEMMA DispatchConsistent ==
  ASSUME NEW st, Consistent(st)
  PROVE  /\ Consistent(Dispatch(st))
         /\ Pending(Dispatch(st)) = Pending(st)
         /\ Dispatch(st).agent = st.agent
         /\ \/ st.agent.session = None
            \/ Dispatch(st).queue = <<>>
            \/ Cardinality(InFlightIn(Dispatch(st))) >= Capacity
<1> DEFINE new == Dispatch(st)
           m == Popped(st)
           q == st.queue
           s == st.agent.session
           sent == Range(Dispatched(st))
<1>0. IsBrokerState(st)
  BY DEF Consistent
<1>1. /\ DOMAIN new = {"agent", "pending", "queue", "next_sequence", "wake_announced"}
      /\ new.agent = st.agent
      /\ new.pending = [r \in Pending(st) |->
                          IF r \in sent
                          THEN [sequence |-> st.pending[r].sequence,
                                attempt  |-> st.pending[r].attempt + 1,
                                state    |-> InFlight(s, st.pending[r].attempt + 1)]
                          ELSE st.pending[r]]
      /\ new.queue = SubSeq(q, m + 1, Len(q))
      /\ new.next_sequence = st.next_sequence
      /\ new.wake_announced = st.wake_announced
  BY DEF Dispatch
<1>2. Pending(new) = Pending(st)
  BY <1>1 DEF Pending
<1>3. q \in Seq(Requests) /\ Len(q) \in Nat /\ DOMAIN q = 1..Len(q)
  BY <1>0 DEF IsBrokerState
<1>4. m \in Nat /\ m <= Len(q)
  BY <1>3, PoppedFillsRoom
<1>4a. Room(st) \in Nat /\ m <= Room(st) /\ (m = Len(q) \/ m = Room(st))
  BY <1>3, PoppedFillsRoom
<1>5. /\ sent = {q[i] : i \in 1..m}
      /\ IsFiniteSet(sent) /\ Cardinality(sent) = m
  BY DispatchedPrefix
<1>6. \A i \in DOMAIN q : q[i] \in QueuedIn(st) /\ q[i] \in Pending(st)
  BY DEF Consistent, Ordered, Range, QueuedIn
<1>7. sent \subseteq QueuedIn(st)
  BY <1>3, <1>4, <1>5, <1>6
<1>8. s = None => sent = {}
  BY <1>4, <1>4a, <1>5 DEF Room
<1>9. \A r \in Pending(st) : /\ st.pending[r] \in PendingRequest
                             /\ st.pending[r].sequence \in Nat
                             /\ st.pending[r].attempt \in Nat
  BY <1>0 DEF IsBrokerState, Pending, PendingRequest
<1>10. s \in Sessions \cup {None}
  BY <1>0, AgentSession
<1> HIDE DEF new, m, q, s, sent
<1>11. /\ new.queue \in Seq(Requests)
       /\ Len(new.queue) = Len(q) - m
       /\ DOMAIN new.queue = 1..(Len(q) - m)
       /\ \A i \in 1..(Len(q) - m) : m + i \in DOMAIN q /\ new.queue[i] = q[m + i]
  <2>1. \A i \in (m + 1)..Len(q) : q[i] \in Requests
    BY <1>3, <1>4
  <2>2. /\ SubSeq(q, m + 1, Len(q)) \in Seq(Requests)
        /\ Len(SubSeq(q, m + 1, Len(q))) =
             IF m + 1 <= Len(q) THEN Len(q) - (m + 1) + 1 ELSE 0
        /\ \A i \in 1..(Len(q) - (m + 1) + 1) : SubSeq(q, m + 1, Len(q))[i] = q[m + 1 + i - 1]
    BY <1>3, <1>4, <2>1, SubSeqProperties
  <2>3. new.queue \in Seq(Requests) /\ Len(new.queue) = Len(q) - m
    <3> DEFINE n == Len(q)
    <3>1. n \in Nat /\ m \in Nat /\ m <= n
      BY <1>3, <1>4
    <3> HIDE DEF n
    <3>2. (IF m + 1 <= n THEN n - (m + 1) + 1 ELSE 0) = n - m
      <4>1. CASE m + 1 <= n
        BY <3>1, <4>1
      <4>2. CASE ~(m + 1 <= n)
        BY <3>1, <4>2
      <4> QED
        BY <4>1, <4>2
    <3> QED
      BY <1>1, <2>2, <3>2 DEF n
  <2>4. ASSUME NEW i \in 1..(Len(q) - m)
        PROVE  m + i \in DOMAIN q /\ new.queue[i] = q[m + i]
    <3>1. i \in 1..(Len(q) - (m + 1) + 1) /\ m + 1 + i - 1 = m + i /\ m + i \in DOMAIN q
      BY <1>3, <1>4
    <3> QED
      BY <1>1, <2>2, <3>1
  <2> QED
    BY <2>3, <2>4
<1>12. ASSUME NEW r \in Pending(st)
       PROVE  /\ new.pending[r].sequence = st.pending[r].sequence
              /\ new.pending[r] \in PendingRequest
              /\ r \in sent => /\ new.pending[r].state # Queued
                               /\ new.pending[r].state.session = s
              /\ r \notin sent => new.pending[r] = st.pending[r]
  <2>1. CASE r \in sent
    <3>1. s \in Sessions
      BY <2>1, <1>8, <1>10
    <3>2. new.pending[r] = [sequence |-> st.pending[r].sequence,
                            attempt  |-> st.pending[r].attempt + 1,
                            state    |-> InFlight(s, st.pending[r].attempt + 1)]
      BY <1>1, <2>1
    <3>3. /\ InFlight(s, st.pending[r].attempt + 1) \in PendingState
          /\ InFlight(s, st.pending[r].attempt + 1) # Queued
          /\ InFlight(s, st.pending[r].attempt + 1).session = s
      BY <1>9, <3>1, NoneIsNoSession DEF InFlight, PendingState, Queued
    <3> QED
      BY <2>1, <3>2, <3>3, <1>9 DEF PendingRequest
  <2>2. CASE r \notin sent
    BY <2>2, <1>1, <1>9
  <2> QED
    BY <2>1, <2>2
<1>13. QueuedIn(new) = QueuedIn(st) \ sent /\ InFlightIn(new) = InFlightIn(st) \cup sent
  BY <1>2, <1>7, <1>12 DEF QueuedIn, InFlightIn
<1>14. IsBrokerState(new)
  <2>1. new.pending = [x \in Pending(new) |-> new.pending[x]]
    BY <1>1 DEF Pending
  <2>2. new.pending \in [Pending(new) -> PendingRequest]
    BY <1>2, <1>12, <2>1
  <2> QED
    BY <1>0, <1>1, <1>2, <1>11, <2>2 DEF IsBrokerState, Pending
<1>15. SequencesDistinct(new)
  BY <1>1, <1>2, <1>12 DEF Consistent, SequencesDistinct
<1>16. Ordered(new)
  <2>1. ASSUME NEW i \in DOMAIN q, NEW j \in DOMAIN q, i < j
        PROVE  st.pending[q[i]].sequence < st.pending[q[j]].sequence
    BY <2>1 DEF Consistent, Ordered, q
  <2>2. \A i \in (m + 1)..Len(q) : q[i] \notin sent
    <3> SUFFICES ASSUME NEW i \in (m + 1)..Len(q), NEW k \in 1..m, q[i] = q[k]
                 PROVE  FALSE
      BY <1>5
    <3>1. i \in DOMAIN q /\ k \in DOMAIN q /\ k < i
      BY <1>3, <1>4
    <3> QED
      BY <3>1, <2>1, <1>6, <1>9
  <2>3. Range(new.queue) = QueuedIn(new)
    <3>1. ASSUME NEW x \in Range(new.queue) PROVE x \in QueuedIn(st) \ sent
      <4>1. PICK i \in 1..(Len(q) - m) : x = q[m + i] /\ m + i \in DOMAIN q
        BY <1>11 DEF Range
      <4>2. m + i \in (m + 1)..Len(q)
        BY <4>1, <1>3, <1>4
      <4> QED
        BY <4>1, <4>2, <2>2, <1>6
    <3>2. ASSUME NEW x \in QueuedIn(st) \ sent PROVE x \in Range(new.queue)
      <4>1. PICK i \in DOMAIN q : q[i] = x
        BY DEF Consistent, Ordered, Range, q
      <4>2. i \notin 1..m
        BY <4>1, <1>5
      <4>3. i - m \in 1..(Len(q) - m) /\ m + (i - m) = i
        BY <4>2, <1>3, <1>4
      <4>4. new.queue[i - m] = x
        BY <4>1, <4>3, <1>11
      <4> QED
        BY <4>3, <4>4, <1>11 DEF Range
    <3> QED
      BY <3>1, <3>2, <1>13
  <2>4. ASSUME NEW i \in DOMAIN new.queue, NEW j \in DOMAIN new.queue, i < j
        PROVE  new.pending[new.queue[i]].sequence < new.pending[new.queue[j]].sequence
    <3>1. /\ m + i \in DOMAIN q /\ new.queue[i] = q[m + i]
          /\ m + j \in DOMAIN q /\ new.queue[j] = q[m + j]
      BY <1>11
    <3>2. i \in 1..(Len(q) - m) /\ j \in 1..(Len(q) - m)
      BY <1>11
    <3>3. m + i < m + j
      BY <1>3, <1>4, <2>4, <3>2
    <3> QED
      BY <3>1, <3>3, <2>1, <1>6, <1>12
  <2>5. ASSUME NEW r \in InFlightIn(new), NEW x \in QueuedIn(new)
        PROVE  new.pending[r].sequence < new.pending[x].sequence
    <3>1. x \in QueuedIn(st) /\ x \notin sent /\ r \in Pending(st) /\ x \in Pending(st)
      BY <1>13, <1>2, <1>7 DEF QueuedIn, InFlightIn
    <3>2. CASE r \in sent
      <4>1. PICK i \in 1..m : q[i] = r
        BY <3>2, <1>5
      <4>2. PICK j \in DOMAIN q : q[j] = x
        BY <3>1 DEF Consistent, Ordered, Range, q
      <4>3. i \in DOMAIN q /\ i < j
        BY <4>1, <4>2, <3>1, <1>3, <1>4, <1>5
      <4> QED
        BY <4>1, <4>2, <4>3, <3>1, <2>1, <1>12
    <3>3. CASE r \notin sent
      <4>1. r \in InFlightIn(st)
        BY <3>3, <1>13
      <4> QED
        BY <4>1, <3>1, <1>12 DEF Consistent, Ordered
    <3> QED
      BY <3>2, <3>3
  <2> QED
    BY <2>3, <2>4, <2>5 DEF Ordered
<1>17. OnActiveSession(new)
  <2> SUFFICES ASSUME NEW r \in InFlightIn(new)
               PROVE  new.pending[r].state.session = s
    BY <1>1 DEF OnActiveSession, s
  <2>1. r \in Pending(st)
    BY <1>2 DEF InFlightIn
  <2>2. CASE r \in sent
    BY <2>1, <2>2, <1>12
  <2>3. CASE r \notin sent
    BY <2>1, <2>3, <1>12, <1>13 DEF Consistent, OnActiveSession, s
  <2> QED
    BY <2>2, <2>3
<1>18. /\ Cardinality(InFlightIn(st)) \in Nat
       /\ Cardinality(InFlightIn(new)) = Cardinality(InFlightIn(st)) + m
  <2>1. IsFiniteSet(InFlightIn(st)) /\ Cardinality(InFlightIn(st)) \in Nat
    BY <1>0, PendingFinite DEF InFlightIn
  <2>2. InFlightIn(st) \cap sent = {}
    BY <1>7 DEF InFlightIn, QueuedIn
  <2>3. Cardinality({}) = 0
    BY FS_EmptySet
  <2>4. Cardinality(InFlightIn(st) \cup sent)
          = Cardinality(InFlightIn(st)) + Cardinality(sent) - Cardinality(InFlightIn(st) \cap sent)
    BY <2>1, <1>5, FS_Union
  <2>5. Cardinality(InFlightIn(new)) = Cardinality(InFlightIn(st)) + m - 0
    BY <1>5, <1>13, <2>2, <2>3, <2>4
  <2> QED
    BY <1>4, <2>1, <2>5
<1>19. s # None => Room(st) = Capacity - Cardinality(InFlightIn(st))
  BY <1>10, InFlightForActive DEF Room, s
<1>20. Limited(new)
  <2>1. Cardinality(InFlightIn(new)) <= Capacity
    <3>1. CASE s = None
      <4>1. m = 0
        BY <3>1, <1>4, <1>4a DEF Room, s
      <4> QED
        BY <4>1, <1>18 DEF Consistent, Limited
    <3>2. CASE s # None
      BY <3>2, <1>4, <1>4a, <1>18, <1>19, CapacityPositive
    <3> QED
      BY <3>1, <3>2
  <2> QED
    BY <2>1, <1>2 DEF Consistent, Limited
<1>21. s = None \/ new.queue = <<>> \/ Cardinality(InFlightIn(new)) >= Capacity
  <2>1. CASE m = Len(q)
    BY <2>1, <1>3, <1>11
  <2>2. CASE m = Room(st) /\ s # None
    BY <2>2, <1>18, <1>19, CapacityPositive
  <2> QED
    BY <2>1, <2>2, <1>4a
<1>22. Consistent(new)
  BY <1>14, <1>15, <1>16, <1>17, <1>20 DEF Consistent
<1> QED
  BY <1>1, <1>2, <1>21, <1>22 DEF new, s

(* Reconciliation ends every event.                                        *)
LEMMA ReconcileConsistent ==
  ASSUME NEW st, Consistent(st)
  PROVE  /\ Consistent(Reconcile(st))
         /\ Pending(Reconcile(st)) = Pending(st)
         /\ Reconcile(st).agent = st.agent
         /\ \/ st.agent.session = None
            \/ Reconcile(st).queue = <<>>
            \/ Cardinality(InFlightIn(Reconcile(st))) >= Capacity
<1> DEFINE d == Dispatch(st)
           w == NeedsAgent(d)
           new == WithAgent(d, st.agent, w)
<1>1. /\ Consistent(d) /\ Pending(d) = Pending(st) /\ d.agent = st.agent
      /\ st.agent.session = None \/ d.queue = <<>> \/ Cardinality(InFlightIn(d)) >= Capacity
  BY DispatchConsistent
<1>2. w \in BOOLEAN
  BY DEF NeedsAgent
<1>3. st.agent \in RemoteAgentState
  BY DEF Consistent, IsBrokerState
<1>4. Reconcile(st) = new
  BY DEF Reconcile
<1>5. new.queue = d.queue /\ new.pending = d.pending /\ new.agent = st.agent
  BY DEF WithAgent
<1> HIDE DEF d, w
<1>6. Consistent(new) /\ Pending(new) = Pending(d)
  BY <1>1, <1>2, <1>3, WithAgentConsistent
<1> HIDE DEF new
<1>7. InFlightIn(new) = InFlightIn(d)
  BY <1>5 DEF InFlightIn, Pending
<1> QED
  BY <1>1, <1>4, <1>5, <1>6, <1>7

(* The broker starts consistent.                                           *)
LEMMA NewStateConsistent == Consistent(NewState) /\ Pending(NewState) = {}
<1> DEFINE st == NewState
<1>1. /\ DOMAIN st = {"agent", "pending", "queue", "next_sequence", "wake_announced"}
      /\ st.agent = Disconnected
      /\ st.pending = [r \in {} |-> Queued]
      /\ st.queue = <<>>
      /\ st.next_sequence = 0
      /\ st.wake_announced = FALSE
  BY DEF NewState
<1> HIDE DEF st
<1>2. Pending(st) = {} /\ QueuedIn(st) = {} /\ InFlightIn(st) = {}
  BY <1>1 DEF Pending, QueuedIn, InFlightIn
<1>3. IsBrokerState(st)
  <2>1. st.pending \in [{} -> PendingRequest]
    BY <1>1
  <2>2. st.queue \in Seq(Requests)
    BY <1>1
  <2>3. Disconnected \in RemoteAgentState
    BY DEF RemoteAgentState
  <2>4. DOMAIN st.pending = {}
    BY <1>1
  <2>5. st.agent \in RemoteAgentState /\ st.next_sequence \in Nat /\ st.wake_announced \in BOOLEAN
    <3>1. st.agent \in RemoteAgentState
      BY <1>1, <2>3, Zenon
    <3>2. st.next_sequence \in Nat
      BY DEF st, NewState
    <3>3. st.wake_announced \in BOOLEAN
      BY <1>1, Zenon
    <3> QED
      BY <3>1, <3>2, <3>3
  <2>6. DOMAIN st = {"agent", "pending", "queue", "next_sequence", "wake_announced"}
    BY <1>1
  <2> QED
    BY <2>1, <2>2, <2>4, <2>5, <2>6 DEF IsBrokerState
<1>4. SequencesDistinct(st) /\ OnActiveSession(st)
  BY <1>2 DEF SequencesDistinct, OnActiveSession
<1>5. Ordered(st)
  BY <1>1, <1>2 DEF Ordered, Range
<1>6. Limited(st)
  BY <1>2, FS_EmptySet, CapacityPositive, MaxPendingPositive DEF Limited
<1> QED
  BY <1>2, <1>3, <1>4, <1>5, <1>6 DEF Consistent, st

(* What reconciliation gives each pending request.                         *)
LEMMA ReconcilePending ==
  ASSUME NEW st, Consistent(st)
  PROVE  /\ Range(Dispatched(st)) \subseteq QueuedIn(st)
         /\ \A r \in Range(Dispatched(st)) :
              /\ Reconcile(st).pending[r].state = InFlight(st.agent.session, st.pending[r].attempt + 1)
              /\ Reconcile(st).pending[r].attempt = st.pending[r].attempt + 1
         /\ \A r \in Pending(st) \ Range(Dispatched(st)) : Reconcile(st).pending[r] = st.pending[r]
<1> DEFINE sent == Range(Dispatched(st))
           given(p) == [sequence |-> p.sequence,
                        attempt  |-> p.attempt + 1,
                        state    |-> InFlight(st.agent.session, p.attempt + 1)]
<1>1. Reconcile(st).pending = [r \in Pending(st) |-> IF r \in sent THEN given(st.pending[r]) ELSE st.pending[r]]
  BY DEF Reconcile, WithAgent, Dispatch
<1>2. sent \subseteq QueuedIn(st)
  <2>1. sent = {st.queue[i] : i \in 1..Popped(st)}
    BY DispatchedPrefix
  <2>2. \A i \in 1..Popped(st) : i \in DOMAIN st.queue
    BY PoppedFillsRoom DEF Consistent, IsBrokerState
  <2>3. \A i \in DOMAIN st.queue : st.queue[i] \in QueuedIn(st)
    BY DEF Consistent, Ordered, Range
  <2> HIDE DEF sent
  <2> QED
    BY <2>1, <2>2, <2>3
<1>3. sent \subseteq Pending(st)
  BY <1>2 DEF QueuedIn
<1> HIDE DEF sent
<1> QED
  BY <1>1, <1>2, <1>3 DEF sent

(* A lost session: its requests keep their attempt numbers.                *)
LEMMA DisconnectAttempts ==
  ASSUME NEW st, Consistent(st), NEW s
  PROVE  \A r \in Pending(st) : Disconnect(st, s).pending[r].attempt = st.pending[r].attempt
<1> TAKE r \in Pending(st)
<1>1. CASE st.agent.session # s
  BY <1>1 DEF Disconnect
<1>2. CASE st.agent.session = s
  <2>1. Disconnect(st, s).pending = RequeueSession(st, s).pending
    BY <1>2 DEF Disconnect, WithAgent
  <2>2. RequeueSession(st, s).pending[r].attempt = st.pending[r].attempt
    BY DEF RequeueSession
  <2> QED
    BY <2>1, <2>2
<1> QED
  BY <1>1, <1>2
-----------------------------------------------------------------------------
(* The pending requests as one line. *)

(* There is one sorted list of a finite set.                               *)
LEMMA InOrderUnique ==
  ASSUME NEW S, IsFiniteSet(S), NEW key \in [S -> Int],
         \A x, y \in S : key[x] = key[y] => x = y,
         NEW q \in Seq(S), Range(q) = S,
         \A i, j \in DOMAIN q : i < j => key[q[i]] < key[q[j]]
  PROVE  q = InOrder(S, key) /\ Len(q) = Cardinality(S)
<1> DEFINE n == Len(q)
<1>1. n \in Nat /\ DOMAIN q = 1..n /\ \A i \in 1..n : q[i] \in S
  OBVIOUS
<1>2. \A x \in S : \E i \in 1..n : q[i] = x
  BY <1>1 DEF Range
<1>3. ASSUME NEW m \in 0..n
      PROVE  Cardinality({q[i] : i \in 1..m}) = m
  <2> DEFINE B == {q[i] : i \in 1..m}
             f == [i \in 1..m |-> q[i]]
  <2>1. f \in [1..m -> B]
    OBVIOUS
  <2>2. ASSUME NEW i \in 1..m, NEW j \in 1..m, f[i] = f[j] PROVE i = j
    <3>1. i \in 1..n /\ j \in 1..n /\ q[i] = q[j] /\ key[q[i]] \in Int
      BY <1>1, <2>2
    <3>2. ~(i < j) /\ ~(j < i)
      BY <1>1, <3>1
    <3> QED
      BY <1>1, <3>1, <3>2
  <2>3. \A y \in B : \E i \in 1..m : f[i] = y
    OBVIOUS
  <2>4. f \in Bijection(1..m, B)
    <3> HIDE DEF f, B
    <3> QED
      BY <2>1, <2>2, <2>3, Fun_IsBij
  <2>5. IsFiniteSet(1..m) /\ Cardinality(1..m) = m
    BY <1>1, FS_Interval
  <2>6. Cardinality(B) = Cardinality(1..m)
    <3> HIDE DEF f, B
    <3> QED
      BY <2>4, <2>5, FS_Bijection DEF ExistsBijection
  <2> QED
    BY <2>5, <2>6
<1>4. Cardinality(S) = n
  <2>1. S = {q[i] : i \in 1..n}
    BY <1>1, <1>2
  <2>2. n \in 0..n
    BY <1>1
  <2>3. Cardinality({q[i] : i \in 1..n}) = n
    BY <1>3, <2>2
  <2> QED
    BY <2>1, <2>3
<1>5. ASSUME NEW j \in 1..n
      PROVE  Rank(S, key, q[j]) = j
  <2>1. {y \in S : key[y] <= key[q[j]]} = {q[i] : i \in 1..j}
    <3>1. ASSUME NEW y \in S, key[y] <= key[q[j]] PROVE \E i \in 1..j : y = q[i]
      <4>1. PICK i \in 1..n : q[i] = y
        BY <1>2
      <4>2. key[q[i]] \in Int /\ key[q[j]] \in Int /\ ~(j < i)
        BY <1>1, <3>1, <4>1
      <4> QED
        BY <1>1, <4>1, <4>2
    <3>2. ASSUME NEW i \in 1..j PROVE q[i] \in S /\ key[q[i]] <= key[q[j]]
      <4>1. i \in 1..n
        BY <1>1
      <4>2. CASE i = j
        BY <1>1, <4>1, <4>2
      <4>3. CASE i < j
        BY <1>1, <4>1, <4>3
      <4> QED
        BY <1>1, <4>1, <4>2, <4>3
    <3> QED
      BY <3>1, <3>2
  <2>2. j \in 0..n
    BY <1>1
  <2> QED
    BY <1>3, <2>1, <2>2 DEF Rank
<1>6. ASSUME NEW j \in 1..n PROVE InOrder(S, key)[j] = q[j]
  <2>1. InOrder(S, key)[j] = CHOOSE x \in S : Rank(S, key, x) = j
    BY <1>4 DEF InOrder
  <2>2. q[j] \in S /\ Rank(S, key, q[j]) = j
    BY <1>1, <1>5
  <2>3. \A x \in S : Rank(S, key, x) = j => x = q[j]
    BY <2>2, RankSurjective
  <2> QED
    BY <2>1, <2>2, <2>3
<1>7. InOrder(S, key) = [j \in 1..n |-> q[j]]
  <2>1. DOMAIN InOrder(S, key) = 1..n
    BY <1>4 DEF InOrder
  <2>2. InOrder(S, key) = [j \in 1..n |-> InOrder(S, key)[j]]
    BY <2>1 DEF InOrder
  <2> QED
    BY <1>6, <2>2
<1> QED
  BY <1>1, <1>4, <1>7

(* The waiting line of a model state.                                      *)
LineOf(st) == BySequence(st, Pending(st))

(* A list is in the order of admission.                                    *)
Admitted(st, q) ==
  \A i, j \in DOMAIN q : i < j => st.pending[q[i]].sequence < st.pending[q[j]].sequence

(* The line holds every pending request once, oldest first, and is the     *)
(* only list that does.                                                    *)
LEMMA LineSorted ==
  ASSUME NEW st, Consistent(st)
  PROVE  /\ LineOf(st) \in Seq(Pending(st)) /\ LineOf(st) \in Seq(Requests)
         /\ Range(LineOf(st)) = Pending(st)
         /\ Len(LineOf(st)) = Cardinality(Pending(st))
         /\ Admitted(st, LineOf(st))
         /\ \A q \in Seq(Pending(st)) :
              Range(q) = Pending(st) /\ Admitted(st, q) => q = LineOf(st)
<1> DEFINE S == Pending(st)
           key == [r \in S |-> st.pending[r].sequence]
           L == LineOf(st)
<1>1. L = InOrder(S, key)
  BY DEF LineOf, BySequence
<1>2. IsFiniteSet(S) /\ S \in SUBSET Requests
  BY PendingFinite DEF Consistent, IsBrokerState, Pending
<1>3. key \in [S -> Int] /\ \A x, y \in S : key[x] = key[y] => x = y
  BY DEF Consistent, SequencesDistinct, IsBrokerState, Pending, PendingRequest
<1>4. \A r \in S : key[r] = st.pending[r].sequence
  OBVIOUS
<1> HIDE DEF S, key, L
<1>5. /\ Cardinality(S) \in Nat
      /\ L \in [1..Cardinality(S) -> S]
      /\ \A x \in S : \E j \in 1..Cardinality(S) : L[j] = x
      /\ \A i, j \in 1..Cardinality(S) : i < j => key[L[i]] < key[L[j]]
  BY <1>1, <1>2, <1>3, InOrderSorts
<1>6. L \in Seq(S) /\ Len(L) = Cardinality(S) /\ DOMAIN L = 1..Cardinality(S)
  BY <1>5
<1>7. Range(L) = S /\ L \in Seq(Requests)
  BY <1>2, <1>5, <1>6 DEF Range
<1>8. Admitted(st, L)
  BY <1>4, <1>5, <1>6 DEF Admitted
<1>9. ASSUME NEW q \in Seq(S), Range(q) = S, Admitted(st, q)
      PROVE  q = L
  <2>1. \A i, j \in DOMAIN q : i < j => key[q[i]] < key[q[j]]
    BY <1>4, <1>9 DEF Admitted
  <2> QED
    BY <1>1, <1>2, <1>3, <1>9, <2>1, InOrderUnique
<1> QED
  BY <1>6, <1>7, <1>8, <1>9 DEF S, L

(* Removing requests closes the gaps.                                      *)
LEMMA LineRemoved ==
  ASSUME NEW st, Consistent(st), NEW new, Consistent(new), NEW G,
         Pending(new) = Pending(st) \ G,
         \A r \in Pending(new) : new.pending[r].sequence = st.pending[r].sequence
  PROVE  LineOf(new) = Retain(LineOf(st), Requests \ G)
<1> DEFINE L == LineOf(st)
           q == Retain(L, Requests \ G)
<1>1. L \in Seq(Requests) /\ Range(L) = Pending(st) /\ Admitted(st, L)
  BY LineSorted
<1>2. Pending(st) \subseteq Requests
  BY DEF Consistent, IsBrokerState, Pending
<1> HIDE DEF L
<1>3. q \in Seq(Requests) /\ Range(q) = Range(L) \cap (Requests \ G) /\ KeepsOrder(q, L)
  BY <1>1, RetainFilters
<1> HIDE DEF q
<1>4. Range(q) = Pending(new)
  BY <1>1, <1>2, <1>3
<1>5. q \in Seq(Pending(new)) /\ \A i \in DOMAIN q : q[i] \in Pending(new)
  BY <1>3, <1>4 DEF Range
<1>6. Admitted(new, q)
  <2> SUFFICES ASSUME NEW j \in DOMAIN q, NEW k \in DOMAIN q, j < k
               PROVE  new.pending[q[j]].sequence < new.pending[q[k]].sequence
    BY DEF Admitted
  <2>1. PICK i, l \in DOMAIN L : i < l /\ L[i] = q[j] /\ L[l] = q[k]
    BY <1>3 DEF KeepsOrder
  <2>2. st.pending[q[j]].sequence < st.pending[q[k]].sequence
    BY <1>1, <2>1 DEF Admitted
  <2> QED
    BY <1>5, <2>2
<1> QED
  BY <1>4, <1>5, <1>6, LineSorted DEF q, L

(* A new request joins at the end.                                         *)
LEMMA LineJoined ==
  ASSUME NEW st, Consistent(st), NEW new, Consistent(new), NEW r \in Requests,
         r \notin Pending(st), Pending(new) = Pending(st) \cup {r},
         \A x \in Pending(st) : /\ new.pending[x].sequence = st.pending[x].sequence
                                /\ new.pending[x].sequence < new.pending[r].sequence
  PROVE  LineOf(new) = LineOf(st) \o <<r>>
<1> DEFINE L == LineOf(st)
           q == L \o <<r>>
           n == Len(L)
<1>1. L \in Seq(Pending(st)) /\ Range(L) = Pending(st) /\ Admitted(st, L)
  BY LineSorted
<1> HIDE DEF L
<1>2. n \in Nat /\ DOMAIN L = 1..n /\ \A i \in 1..n : L[i] \in Pending(st)
  BY <1>1
<1>3. /\ DOMAIN q = 1..(n + 1) /\ \A i \in 1..n : q[i] = L[i]
      /\ q[n + 1] = r /\ q \in Seq(Pending(new))
  BY <1>1, <1>2
<1> HIDE DEF q, n
<1>4. Range(q) = Pending(new)
  <2>1. Range(q) \subseteq Pending(new)
    <3>1. \A i \in 1..(n + 1) : i \in 1..n \/ i = n + 1
      BY <1>2
    <3>2. \A i \in DOMAIN q : q[i] \in Pending(new)
      BY <1>2, <1>3, <3>1
    <3> QED
      BY <3>2 DEF Range
  <2>2. ASSUME NEW x \in Pending(st) PROVE x \in Range(q)
    <3>1. PICK i \in 1..n : L[i] = x
      BY <1>1, <1>2 DEF Range
    <3>2. i \in DOMAIN q /\ q[i] = x
      BY <1>2, <1>3, <3>1
    <3> QED
      BY <3>2 DEF Range
  <2>3. r \in Range(q)
    <3>1. n + 1 \in DOMAIN q
      BY <1>2, <1>3
    <3> QED
      BY <1>3, <3>1 DEF Range
  <2> QED
    BY <2>1, <2>2, <2>3
<1>5. Admitted(new, q)
  <2> SUFFICES ASSUME NEW i \in DOMAIN q, NEW j \in DOMAIN q, i < j
               PROVE  new.pending[q[i]].sequence < new.pending[q[j]].sequence
    BY DEF Admitted
  <2>1. i \in 1..n /\ q[i] = L[i] /\ L[i] \in Pending(st)
    BY <1>2, <1>3
  <2>2. CASE j \in 1..n
    <3>1. st.pending[L[i]].sequence < st.pending[L[j]].sequence
      BY <1>1, <1>2, <2>1, <2>2 DEF Admitted
    <3>2. q[j] = L[j] /\ L[j] \in Pending(st)
      BY <1>2, <1>3, <2>2
    <3> QED
      BY <2>1, <3>1, <3>2
  <2>3. CASE j = n + 1
    BY <1>3, <2>1, <2>3
  <2> QED
    BY <1>2, <1>3, <2>2, <2>3
<1> QED
  BY <1>3, <1>4, <1>5, LineSorted DEF q, L
(* A connected remote that is kept busy holds the front of the line.       *)
LEMMA LineFront ==
  ASSUME NEW st, Consistent(st),
         st.queue = <<>> \/ Cardinality(InFlightIn(st)) >= Capacity
  PROVE  InFlightIn(st) = {LineOf(st)[i] : i \in {j \in DOMAIN LineOf(st) : j <= Capacity}}
<1> DEFINE F == InFlightIn(st)
           key == [r \in F |-> st.pending[r].sequence]
           h == InOrder(F, key)
           k == Cardinality(F)
           t == st.queue
           m == Len(t)
           q == h \o t
<1>1. F \in SUBSET Pending(st) /\ IsFiniteSet(F) /\ k <= Capacity
  BY PendingFinite DEF InFlightIn, Consistent, Limited
<1>2. \A r \in Pending(st) : st.pending[r].sequence \in Nat
  BY DEF Consistent, IsBrokerState, Pending, PendingRequest
<1>3. key \in [F -> Int] /\ \A x, y \in F : key[x] = key[y] => x = y
  BY <1>1, <1>2 DEF Consistent, SequencesDistinct
<1>4. \A r \in F : key[r] = st.pending[r].sequence
  OBVIOUS
<1>5. t \in Seq(Requests) /\ Range(t) = QueuedIn(st) /\ Admitted(st, t)
  BY DEF Consistent, IsBrokerState, Ordered, Admitted
<1>6. \A r \in F, x \in QueuedIn(st) : st.pending[r].sequence < st.pending[x].sequence
  BY DEF Consistent, Ordered
<1>7. F \cup QueuedIn(st) = Pending(st)
  BY DEF InFlightIn, QueuedIn
<1>8. t = <<>> \/ k >= Capacity
  OBVIOUS
<1> HIDE DEF F, key, t
<1>9. /\ k \in Nat /\ h \in [1..k -> F]
      /\ \A x \in F : \E j \in 1..k : h[j] = x
      /\ \A i, j \in 1..k : i < j => key[h[i]] < key[h[j]]
  <2>1. k = Cardinality(F) /\ h = InOrder(F, key)
    OBVIOUS
  <2> HIDE DEF k, h
  <2> QED
    BY SMTT(30), <1>1, <1>3, <2>1, InOrderSorts
<1> HIDE DEF h, k
<1>10. h \in Seq(Pending(st)) /\ Len(h) = k
  BY <1>1, <1>9
<1>11. m \in Nat /\ DOMAIN t = 1..m /\ \A i \in 1..m : t[i] \in QueuedIn(st)
  BY <1>5 DEF Range
<1>12. t \in Seq(Pending(st))
  BY <1>5, <1>7, <1>11
<1>13. /\ q \in Seq(Pending(st)) /\ Len(q) = k + m /\ DOMAIN q = 1..(k + m)
       /\ \A i \in 1..(k + m) : q[i] = IF i <= k THEN h[i] ELSE t[i - k]
  <2>1. /\ q \in Seq(Pending(st)) /\ Len(q) = Len(h) + Len(t)
        /\ \A i \in 1..(Len(h) + Len(t)) : q[i] = IF i <= Len(h) THEN h[i] ELSE t[i - Len(h)]
    BY <1>10, <1>12, ConcatProperties
  <2>2. Len(h) = k /\ Len(t) = m
    BY <1>10
  <2> HIDE DEF q, m
  <2>3. DOMAIN q = 1..Len(q)
    BY <2>1
  <2> QED
    BY <2>1, <2>2, <2>3
<1> HIDE DEF q, m
<1>14. \A i \in 1..k : i \in 1..(k + m) /\ q[i] = h[i]
  BY <1>9, <1>11, <1>13
<1>15. \A i \in 1..m : k + i \in 1..(k + m) /\ q[k + i] = t[i]
  <2> TAKE i \in 1..m
  <2>1. k + i \in 1..(k + m) /\ ~(k + i <= k) /\ (k + i) - k = i
    BY <1>9, <1>11
  <2> QED
    BY <1>13, <2>1
<1>16. \A i \in 1..(k + m) : i \in 1..k \/ \E j \in 1..m : i = k + j
  <2> TAKE i \in 1..(k + m)
  <2>1. i \in 1..k \/ (i - k \in 1..m /\ i = k + (i - k))
    BY <1>9, <1>11
  <2> QED
    BY <2>1
<1>17. Range(q) = Pending(st)
  <2>1. ASSUME NEW x \in F PROVE x \in Range(q)
    BY <1>9, <1>13, <1>14 DEF Range
  <2>2. ASSUME NEW x \in QueuedIn(st) PROVE x \in Range(q)
    <3>1. PICK i \in 1..m : t[i] = x
      BY <1>5, <1>11 DEF Range
    <3> QED
      BY <1>13, <1>15, <3>1 DEF Range
  <2>3. Range(q) \subseteq Pending(st)
    <3>1. \A i \in DOMAIN q : q[i] \in Pending(st)
      BY <1>13
    <3> QED
      BY <3>1 DEF Range
  <2> QED
    BY <1>7, <2>1, <2>2, <2>3
<1>18. Admitted(st, q)
  <2> SUFFICES ASSUME NEW i \in 1..(k + m), NEW j \in 1..(k + m), i < j
               PROVE  st.pending[q[i]].sequence < st.pending[q[j]].sequence
    BY <1>13 DEF Admitted
  <2>1. CASE i \in 1..k /\ j \in 1..k
    BY <1>4, <1>9, <1>14, <2>1
  <2>2. CASE i \in 1..k /\ \E b \in 1..m : j = k + b
    <3>1. PICK b \in 1..m : j = k + b
      BY <2>2
    <3>2. q[i] \in F /\ q[j] \in QueuedIn(st)
      BY <1>9, <1>11, <1>14, <1>15, <2>2, <3>1
    <3> QED
      BY <1>6, <3>2
  <2>3. CASE (\E a \in 1..m : i = k + a) /\ (\E b \in 1..m : j = k + b)
    <3>1. PICK a \in 1..m, b \in 1..m : i = k + a /\ j = k + b
      BY <2>3
    <3>2. a < b /\ a \in DOMAIN t /\ b \in DOMAIN t
      BY <1>9, <1>11, <3>1
    <3>3. q[i] = t[a] /\ q[j] = t[b]
      BY <1>15, <3>1
    <3> QED
      BY <1>5, <3>2, <3>3 DEF Admitted
  <2>4. ~((\E a \in 1..m : i = k + a) /\ j \in 1..k)
    BY <1>9, <1>11
  <2> QED
    BY <1>16, <2>1, <2>2, <2>3, <2>4
<1>19. q = LineOf(st)
  BY <1>13, <1>17, <1>18, LineSorted
<1>20. {j \in DOMAIN q : j <= Capacity} = 1..k
  <2>1. Capacity \in Nat
    BY CapacityPositive
  <2>2. k <= Capacity /\ (m = 0 \/ k >= Capacity)
    BY <1>1, <1>8 DEF m, k
  <2> QED
    BY <1>9, <1>11, <1>13, <2>1, <2>2
<1>21. F = {q[i] : i \in 1..k}
  BY <1>9, <1>14
<1> QED
  BY <1>19, <1>20, <1>21 DEF F

(* Reconciliation and a lost session keep the places in the line.          *)
LEMMA SequencesKept ==
  ASSUME NEW st, Consistent(st), NEW s
  PROVE  \A r \in Pending(st) :
           /\ Dispatch(st).pending[r].sequence = st.pending[r].sequence
           /\ Reconcile(st).pending[r].sequence = st.pending[r].sequence
           /\ Disconnect(st, s).pending[r].sequence = st.pending[r].sequence
<1> TAKE r \in Pending(st)
<1>1. Dispatch(st).pending[r].sequence = st.pending[r].sequence
  BY DEF Dispatch
<1>2. Reconcile(st).pending = Dispatch(st).pending
  BY DEF Reconcile, WithAgent
<1>3. RequeueSession(st, s).pending[r].sequence = st.pending[r].sequence
  BY DEF RequeueSession
<1>4. Disconnect(st, s).pending \in {st.pending, RequeueSession(st, s).pending}
  BY DEF Disconnect, WithAgent
<1> QED
  BY <1>1, <1>2, <1>3, <1>4
=============================================================================
