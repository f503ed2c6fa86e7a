------------------------- MODULE ContextCodecProofs -------------------------
(***************************************************************************)
(* Theorems about module ContextCodec: encode and decode are inverse to    *)
(* each other and have the same limits, for contexts and packets of any    *)
(* length and limits of any size.                                          *)
(***************************************************************************)
EXTENDS ContextCodec, SequenceTheorems, WellFoundedInduction, TLAPS

-----------------------------------------------------------------------------
(* Recursion and induction over the naturals. *)

(* Induction with a set for the predicate, from the least-element          *)
(* principle.                                                              *)
LEMMA InductionBySet ==
  ASSUME NEW T, 0 \in T, \A n \in Nat : n \in T => n + 1 \in T
  PROVE  Nat \subseteq T
<1> SUFFICES ASSUME Nat \ T # {} PROVE FALSE
  OBVIOUS
<1>1. PICK n \in Nat \ T : \A m \in Nat \ T : <<m, n>> \notin OpToRel(<, Nat)
  BY NatLessThanWellFounded, WFMin
<1>2. n # 0 /\ n - 1 \in Nat
  OBVIOUS
<1>3. <<n - 1, n>> \in OpToRel(<, Nat)
  BY <1>2 DEF OpToRel
<1>4. (n - 1) + 1 \in T
  BY <1>1, <1>2, <1>3
<1> QED BY <1>4

(* The same up to a bound.                                                 *)
LEMMA BoundedInduction ==
  ASSUME NEW n \in Nat, NEW T, 0 \in T, \A i \in 1..n : i - 1 \in T => i \in T
  PROVE  0..n \subseteq T
<1> DEFINE U == {k \in Nat : k <= n => k \in T}
<1>1. 0 \in U
  OBVIOUS
<1>2. ASSUME NEW k \in Nat, k \in U PROVE k + 1 \in U
  <2> SUFFICES ASSUME k + 1 <= n PROVE k + 1 \in T
    OBVIOUS
  <2>1. k + 1 \in 1..n /\ (k + 1) - 1 \in T
    BY <1>2
  <2> QED BY <2>1
<1> HIDE DEF U
<1>3. Nat \subseteq U
  BY <1>1, <1>2, InductionBySet
<1> QED BY <1>3 DEF U

(* What a function that a fold defines is: it begins with base, and each   *)
(* step is applied to what precedes it.                                    *)
Iterates(f, n, S, base, step) ==
  /\ f \in [0..n -> S]
  /\ f[0] = base
  /\ \A i \in 1..n : f[i] = step[i][f[i - 1]]

(* There is such a function: each is one longer than another.              *)
LEMMA Recursion ==
  ASSUME NEW S, NEW base \in S, NEW n \in Nat, NEW step \in [1..n -> [S -> S]]
  PROVE  \E f : Iterates(f, n, S, base, step)
<1> DEFINE Upto(k) == \E f : Iterates(f, k, S, base, step)
           T == {k \in 0..n : Upto(k)}
<1>1. 0 \in T
  <2> DEFINE f == [i \in 0..0 |-> base]
  <2>1. Iterates(f, 0, S, base, step)
    BY DEF Iterates
  <2>2. Upto(0)
    BY <2>1
  <2> HIDE DEF Upto
  <2> QED BY <2>2
<1>2. ASSUME NEW k \in 1..n, k - 1 \in T PROVE k \in T
  <2>1. PICK f : Iterates(f, k - 1, S, base, step)
    BY <1>2
  <2> DEFINE g == [i \in 0..k |-> IF i = k THEN step[k][f[k - 1]] ELSE f[i]]
  <2>2. f \in [0..(k - 1) -> S] /\ f[0] = base /\ \A i \in 1..(k - 1) : f[i] = step[i][f[i - 1]]
    BY <2>1 DEF Iterates
  <2>3. step[k][f[k - 1]] \in S
    <3>1. f[k - 1] \in S
      BY <2>2
    <3> QED BY <3>1
  <2>4. g \in [0..k -> S] /\ g[0] = base
    BY <2>2, <2>3
  <2>5. ASSUME NEW i \in 1..k PROVE g[i] = step[i][g[i - 1]]
    <3>1. i - 1 \in 0..k /\ i - 1 # k
      OBVIOUS
    <3>2. g[i - 1] = f[i - 1]
      BY <3>1
    <3>3. CASE i = k
      BY <3>2, <3>3
    <3>4. CASE i # k
      <4>1. i \in 1..(k - 1) /\ g[i] = f[i]
        BY <3>4
      <4> QED BY <2>2, <3>2, <4>1
    <3> QED BY <3>3, <3>4
  <2> HIDE DEF g
  <2>6. Upto(k)
    BY <2>4, <2>5 DEF Iterates
  <2> HIDE DEF Upto
  <2> QED BY <2>6
<1> HIDE DEF T
<1>3. 0..n \subseteq T
  BY <1>1, <1>2, BoundedInduction
<1> QED BY <1>3 DEF T
-----------------------------------------------------------------------------
(* Sequences, position by position. *)

(* Concatenation.                                                          *)
LEMMA ConcatAt ==
  ASSUME NEW s \in Seq(Int), NEW t \in Seq(Int)
  PROVE  /\ s \o t \in Seq(Int)
         /\ Len(s \o t) = Len(s) + Len(t)
         /\ \A i \in 1..Len(s) : (s \o t)[i] = s[i]
         /\ \A i \in 1..Len(t) : (s \o t)[Len(s) + i] = t[i]
<1>1. Len(s) \in Nat /\ Len(t) \in Nat
  OBVIOUS
<1>2. /\ s \o t \in Seq(Int) /\ Len(s \o t) = Len(s) + Len(t)
      /\ \A i \in 1..(Len(s) + Len(t)) : (s \o t)[i] = IF i <= Len(s) THEN s[i] ELSE t[i - Len(s)]
  BY ConcatProperties
<1>3. ASSUME NEW i \in 1..Len(s) PROVE (s \o t)[i] = s[i]
  <2>1. i \in 1..(Len(s) + Len(t)) /\ i <= Len(s)
    BY <1>1
  <2> QED BY <1>2, <2>1
<1>4. ASSUME NEW i \in 1..Len(t) PROVE (s \o t)[Len(s) + i] = t[i]
  <2>1. Len(s) + i \in 1..(Len(s) + Len(t)) /\ ~(Len(s) + i <= Len(s)) /\ (Len(s) + i) - Len(s) = i
    BY <1>1
  <2> QED BY <1>2, <2>1
<1> QED BY <1>1, <1>2, <1>3, <1>4

(* A part of a sequence.                                                   *)
LEMMA SubSeqAt ==
  ASSUME NEW s \in Seq(Int), NEW a \in Nat, NEW b \in Nat, a <= b, b <= Len(s)
  PROVE  /\ SubSeq(s, a + 1, b) \in Seq(Int)
         /\ Len(SubSeq(s, a + 1, b)) = b - a
         /\ \A i \in 1..(b - a) : SubSeq(s, a + 1, b)[i] = s[a + i]
<1>1. Len(s) \in Nat /\ \A i \in (a + 1)..b : s[i] \in Int
  OBVIOUS
<1> DEFINE k == a + 1
<1>2. k \in Int /\ \A i \in k..b : s[i] \in Int
  BY <1>1
<1> HIDE DEF k
<1>3. /\ SubSeq(s, k, b) \in Seq(Int)
      /\ Len(SubSeq(s, k, b)) = IF k <= b THEN b-k+1 ELSE 0
      /\ \A i \in 1..b-k+1 : SubSeq(s, k, b)[i] = s[k+i-1]
  BY <1>2, SubSeqProperties
<1>4. Len(SubSeq(s, k, b)) = b - a
  BY <1>3 DEF k
<1>5. ASSUME NEW i \in 1..(b - a) PROVE SubSeq(s, k, b)[i] = s[a + i]
  <2>1. i \in 1..b-k+1 /\ k+i-1 = a + i
    BY DEF k
  <2> QED BY <1>3, <2>1
<1> QED BY <1>3, <1>4, <1>5 DEF k

(* Sequences of cells can be regrouped.                                    *)
LEMMA Regroup ==
  ASSUME NEW s \in Seq(Int), NEW t \in Seq(Int), NEW u \in Seq(Int)
  PROVE  (s \o t) \o u = s \o (t \o u)
BY ConcatAssociative

(* A common front can be cancelled.                                        *)
LEMMA CancelLeft ==
  ASSUME NEW s \in Seq(Int), NEW t \in Seq(Int), NEW u \in Seq(Int), s \o t = s \o u
  PROVE  t = u
BY ConcatSimplifications

-----------------------------------------------------------------------------
(* SSH strings. *)

(* What push_string appends.                                               *)
Pushed(value) == <<Len(value)>> \o value

(* Lengths and elements of what PushString makes.                          *)
LEMMA PushedFacts ==
  ASSUME NEW packet \in Seq(Int), NEW value \in Seq(Int)
  PROVE  /\ Pushed(value) \in Seq(Int)
         /\ Len(Pushed(value)) = Len(value) + 1
         /\ Pushed(value)[1] = Len(value)
         /\ \A i \in 1..Len(value) : Pushed(value)[i + 1] = value[i]
         /\ PushString(packet, value) = packet \o Pushed(value)
         /\ PushString(packet, value) \in Seq(Int)
<1>1. Len(value) \in Nat /\ <<Len(value)>> \in Seq(Int) /\ Len(<<Len(value)>>) = 1
      /\ <<Len(value)>>[1] = Len(value)
  OBVIOUS
<1>2. /\ Pushed(value) \in Seq(Int)
      /\ Len(Pushed(value)) = 1 + Len(value)
      /\ \A i \in 1..1 : Pushed(value)[i] = <<Len(value)>>[i]
      /\ \A i \in 1..Len(value) : Pushed(value)[1 + i] = value[i]
  <2> DEFINE one == <<Len(value)>>
  <2>1. one \in Seq(Int) /\ Len(one) = 1
    BY <1>1
  <2> HIDE DEF one
  <2>2. /\ one \o value \in Seq(Int)
        /\ Len(one \o value) = Len(one) + Len(value)
        /\ \A i \in 1..Len(one) : (one \o value)[i] = one[i]
        /\ \A i \in 1..Len(value) : (one \o value)[Len(one) + i] = value[i]
    BY <2>1, ConcatAt
  <2>3. Pushed(value) = one \o value
    BY DEF Pushed, one
  <2>4. /\ Pushed(value) \in Seq(Int)
        /\ Len(Pushed(value)) = 1 + Len(value)
        /\ \A i \in 1..1 : Pushed(value)[i] = one[i]
        /\ \A i \in 1..Len(value) : Pushed(value)[1 + i] = value[i]
    BY <2>1, <2>2, <2>3
  <2> QED BY <2>4 DEF one
<1>3. \A i \in 1..Len(value) : Pushed(value)[i + 1] = value[i]
  BY <1>2
<1>4. PushString(packet, value) = packet \o Pushed(value)
  BY <1>1, ConcatAssociative DEF PushString, Pushed
<1>5. packet \o Pushed(value) \in Seq(Int)
  BY <1>2, ConcatProperties
<1> QED BY <1>1, <1>2, <1>3, <1>4, <1>5

(* take_string reads what push_string wrote, and leaves what follows.      *)
LEMMA StringIsTaken ==
  ASSUME NEW value \in Seq(Int), NEW after \in Seq(Int)
  PROVE  LET rest == Pushed(value) \o after
         IN  /\ rest \in Seq(Int)
             /\ HasString(rest)
             /\ SshString(rest) = value
             /\ AfterString(rest) = after
<1> DEFINE rest == Pushed(value) \o after
           n == Len(value)
<1>1. n \in Nat /\ Len(after) \in Nat
  OBVIOUS
<1>2. /\ Pushed(value) \in Seq(Int) /\ Len(Pushed(value)) = n + 1
      /\ Pushed(value)[1] = n /\ \A i \in 1..n : Pushed(value)[i + 1] = value[i]
  BY PushedFacts
<1>3. /\ rest \in Seq(Int) /\ Len(rest) = (n + 1) + Len(after)
      /\ \A i \in 1..(n + 1) : rest[i] = Pushed(value)[i]
      /\ \A i \in 1..Len(after) : rest[(n + 1) + i] = after[i]
  <2> DEFINE p == Pushed(value)
  <2> HIDE DEF p, n
  <2>1. p \in Seq(Int) /\ Len(p) = n + 1
    BY <1>2 DEF p
  <2>2. /\ p \o after \in Seq(Int) /\ Len(p \o after) = Len(p) + Len(after)
        /\ \A i \in 1..Len(p) : (p \o after)[i] = p[i]
        /\ \A i \in 1..Len(after) : (p \o after)[Len(p) + i] = after[i]
    BY <2>1, ConcatAt
  <2> QED BY <2>1, <2>2 DEF p
<1> HIDE DEF rest, n
<1>4. rest # <<>> /\ Head(rest) = n
  <2>1. rest[1] = n /\ Len(rest) > 0
    BY <1>1, <1>2, <1>3
  <2> QED BY <1>3, <2>1
<1>5. HasString(rest)
  BY <1>1, <1>3, <1>4 DEF HasString
<1>6. SshString(rest) = value
  <2>1. /\ SubSeq(rest, 1 + 1, n + 1) \in Seq(Int)
        /\ Len(SubSeq(rest, 1 + 1, n + 1)) = (n + 1) - 1
        /\ \A i \in 1..((n + 1) - 1) : SubSeq(rest, 1 + 1, n + 1)[i] = rest[1 + i]
    BY <1>1, <1>3, SubSeqAt
  <2>2. \A i \in 1..n : rest[1 + i] = value[i]
    BY <1>1, <1>2, <1>3
  <2>3. (n + 1) - 1 = n /\ 1 + 1 = 2
    BY <1>1
  <2>4. SubSeq(rest, 2, n + 1) = value
    BY <2>1, <2>2, <2>3, SeqEqual DEF n
  <2> QED BY <1>4, <2>4 DEF SshString
<1>7. AfterString(rest) = after
  <2> DEFINE m == Len(rest)
             k == n + 1
  <2>0. m \in Nat /\ k \in Nat /\ k <= m /\ m - k = Len(after) /\ k + 1 = n + 2
    BY <1>1, <1>3
  <2>1. \A i \in 1..Len(after) : rest[k + i] = after[i]
    BY <1>3
  <2>2. m = Len(rest)
    OBVIOUS
  <2> HIDE DEF m, k
  <2>3. /\ SubSeq(rest, k + 1, m) \in Seq(Int)
        /\ Len(SubSeq(rest, k + 1, m)) = m - k
        /\ \A i \in 1..(m - k) : SubSeq(rest, k + 1, m)[i] = rest[k + i]
    BY <1>3, <2>0, <2>2, SubSeqAt
  <2> DEFINE part == SubSeq(rest, k + 1, m)
  <2>4. part \in Seq(Int) /\ Len(part) = Len(after) /\ \A i \in 1..Len(part) : part[i] = after[i]
    BY <2>0, <2>1, <2>3
  <2> HIDE DEF part
  <2>5. part = after
    BY <2>4, SeqEqual
  <2>6. SubSeq(rest, n + 2, m) = after
    BY <2>0, <2>5 DEF part
  <2> QED BY <1>4, <2>2, <2>6 DEF AfterString
<1> QED BY <1>3, <1>5, <1>6, <1>7 DEF rest

(* And whatever take_string reads could have been written by push_string.  *)
LEMMA TakenIsPushed ==
  ASSUME NEW rest \in Seq(Int), HasString(rest)
  PROVE  /\ SshString(rest) \in Seq(Int)
         /\ AfterString(rest) \in Seq(Int)
         /\ rest = Pushed(SshString(rest)) \o AfterString(rest)
         /\ \A i \in 1..Len(SshString(rest)) : \E j \in 1..Len(rest) : SshString(rest)[i] = rest[j]
         /\ \A i \in 1..Len(AfterString(rest)) : \E j \in 1..Len(rest) : AfterString(rest)[i] = rest[j]
<1> DEFINE n == Head(rest)
           m == Len(rest)
           value == SshString(rest)
           after == AfterString(rest)
<1>1. m \in Nat /\ n \in 0..(m - 1) /\ rest[1] = n /\ rest # <<>>
  BY DEF HasString
<1>2. /\ value \in Seq(Int) /\ Len(value) = n
      /\ \A i \in 1..n : value[i] = rest[1 + i]
  <2>1. /\ SubSeq(rest, 1 + 1, n + 1) \in Seq(Int)
        /\ Len(SubSeq(rest, 1 + 1, n + 1)) = (n + 1) - 1
        /\ \A i \in 1..((n + 1) - 1) : SubSeq(rest, 1 + 1, n + 1)[i] = rest[1 + i]
    BY <1>1, SubSeqAt
  <2>2. (n + 1) - 1 = n /\ 1 + 1 = 2
    BY <1>1
  <2> QED BY <2>1, <2>2 DEF SshString
<1>3. /\ after \in Seq(Int) /\ Len(after) = m - (n + 1)
      /\ \A i \in 1..(m - (n + 1)) : after[i] = rest[(n + 1) + i]
  <2> DEFINE k == n + 1
  <2>1. k \in Nat /\ m \in Nat /\ k <= m /\ k + 1 = n + 2 /\ m <= Len(rest)
    BY <1>1
  <2> HIDE DEF k, m, n
  <2>2. /\ SubSeq(rest, k + 1, m) \in Seq(Int)
        /\ Len(SubSeq(rest, k + 1, m)) = m - k
        /\ \A i \in 1..(m - k) : SubSeq(rest, k + 1, m)[i] = rest[k + i]
    BY <2>1, SubSeqAt
  <2>3. after = SubSeq(rest, k + 1, m)
    BY <2>1 DEF AfterString, n, m
  <2> HIDE DEF after
  <2> QED BY <2>2, <2>3 DEF k
<1> HIDE DEF value, after, n, m
<1>4. /\ Pushed(value) \in Seq(Int) /\ Len(Pushed(value)) = n + 1
      /\ Pushed(value)[1] = n /\ \A i \in 1..n : Pushed(value)[i + 1] = value[i]
  BY <1>2, PushedFacts
<1> DEFINE all == Pushed(value) \o after
<1>5. /\ all \in Seq(Int) /\ Len(all) = m
      /\ \A i \in 1..(n + 1) : all[i] = Pushed(value)[i]
      /\ \A i \in 1..(m - (n + 1)) : all[(n + 1) + i] = after[i]
  <2>1. /\ all \in Seq(Int) /\ Len(all) = (n + 1) + (m - (n + 1))
        /\ \A i \in 1..(n + 1) : all[i] = Pushed(value)[i]
        /\ \A i \in 1..(m - (n + 1)) : all[(n + 1) + i] = after[i]
    <3> DEFINE p == Pushed(value)
    <3>1. p \in Seq(Int) /\ Len(p) = n + 1
      BY <1>4
    <3> HIDE DEF p
    <3>2. /\ p \o after \in Seq(Int) /\ Len(p \o after) = Len(p) + Len(after)
          /\ \A i \in 1..Len(p) : (p \o after)[i] = p[i]
          /\ \A i \in 1..Len(after) : (p \o after)[Len(p) + i] = after[i]
      BY <1>3, <3>1, ConcatAt
    <3> QED BY <1>3, <3>1, <3>2 DEF p
  <2>2. (n + 1) + (m - (n + 1)) = m
    BY <1>1
  <2> QED BY <2>1, <2>2
<1> HIDE DEF all
<1>6. \A i \in 1..m : all[i] = rest[i]
  <2> TAKE i \in 1..m
  <2>1. CASE i = 1
    BY <1>1, <1>4, <1>5, <2>1
  <2>2. CASE i # 1 /\ i <= n + 1
    <3>1. i - 1 \in 1..n /\ (i - 1) + 1 = i /\ 1 + (i - 1) = i /\ i \in 1..(n + 1)
      BY <1>1, <2>2
    <3>2. all[i] = value[i - 1]
      BY <1>4, <1>5, <3>1
    <3> QED BY <1>2, <3>1, <3>2
  <2>3. CASE i > n + 1
    <3>1. i - (n + 1) \in 1..(m - (n + 1)) /\ (n + 1) + (i - (n + 1)) = i
      BY <1>1, <2>3
    <3>2. all[i] = after[i - (n + 1)]
      BY <1>5, <3>1
    <3> QED BY <1>3, <3>1, <3>2
  <2> QED BY <1>1, <2>1, <2>2, <2>3
<1>7. all = rest
  BY <1>5, <1>6, SeqEqual DEF m
<1>8. \A i \in 1..Len(value) : 1 + i \in 1..Len(rest) /\ value[i] = rest[1 + i]
  BY <1>1, <1>2 DEF m
<1>9. \A i \in 1..Len(after) : (n + 1) + i \in 1..Len(rest) /\ after[i] = rest[(n + 1) + i]
  BY <1>1, <1>3 DEF m
<1> QED BY <1>2, <1>3, <1>7, <1>8, <1>9 DEF all, value, after
-----------------------------------------------------------------------------
(* What the loops of the codec compute, step by step. *)

(* take_string shortens and keeps what it reads a string.                  *)
LEMMA TakenType ==
  ASSUME NEW rest \in Seq(Int), HasString(rest)
  PROVE  SshString(rest) \in Seq(Int) /\ AfterString(rest) \in Seq(Int) /\ Len(SshString(rest)) \in Nat
<1>1. SshString(rest) \in Seq(Int) /\ AfterString(rest) \in Seq(Int)
  BY TakenIsPushed
<1> QED BY <1>1, LenProperties

(* from_utf8_lossy makes a string, the same one if all of it is UTF-8.     *)
LEMMA LossyFacts ==
  ASSUME NEW value \in Seq(Int)
  PROVE  /\ Lossy(value) \in Seq(Int)
         /\ (\A i \in 1..Len(value) : value[i] # NotUtf8) => Lossy(value) = value
<1> DEFINE n == Len(value)
           D(f) == f = [i \in 0..n |-> IF i = 0 THEN <<>> ELSE f[i - 1] \o Character(value[i])]
           step == [i \in 1..n |-> [s \in Seq(Int) |-> s \o Character(value[i])]]
<1>1. n \in Nat /\ \A i \in 1..n : value[i] \in Int
  OBVIOUS
<1>2. \A i \in 1..n : Character(value[i]) \in Seq(Int)
  BY <1>1 DEF Character
<1>3. step \in [1..n -> [Seq(Int) -> Seq(Int)]]
  <2>1. ASSUME NEW i \in 1..n, NEW s \in Seq(Int) PROVE s \o Character(value[i]) \in Seq(Int)
    BY <1>2, ConcatProperties
  <2> QED BY <2>1
<1>4. PICK g : Iterates(g, n, Seq(Int), <<>>, step)
  <2>1. <<>> \in Seq(Int)
    OBVIOUS
  <2> HIDE DEF step, n
  <2> QED BY <1>1, <1>3, <2>1, Recursion
<1>5. D(g)
  <2>1. g \in [0..n -> Seq(Int)] /\ g[0] = <<>> /\ \A i \in 1..n : g[i] = step[i][g[i - 1]]
    BY <1>4 DEF Iterates
  <2>2. ASSUME NEW i \in 0..n PROVE g[i] = IF i = 0 THEN <<>> ELSE g[i - 1] \o Character(value[i])
    <3>1. CASE i = 0
      BY <2>1, <3>1
    <3>2. CASE i # 0
      <4>1. i \in 1..n /\ i - 1 \in 0..n
        BY <1>1, <3>2
      <4>2. g[i - 1] \in Seq(Int)
        BY <2>1, <4>1
      <4> QED BY <2>1, <3>2, <4>1, <4>2
    <3> QED BY <3>1, <3>2
  <2> HIDE DEF n, step
  <2> QED BY <2>1, <2>2
<1> DEFINE f == CHOOSE f : D(f)
<1>6. D(f)
  BY <1>5
<1>7. Lossy(value) = f[n]
  BY DEF Lossy
<1> HIDE DEF f, step, n
<1>8. f[0] = <<>> /\ \A i \in 1..n : f[i] = f[i - 1] \o Character(value[i])
  <2>1. 0 \in 0..n /\ 1..n \subseteq 0..n
    BY <1>1
  <2>2. ASSUME NEW i \in 0..n PROVE f[i] = IF i = 0 THEN <<>> ELSE f[i - 1] \o Character(value[i])
    BY <1>6
  <2>3. f[0] = <<>>
    BY <2>1, <2>2
  <2>4. ASSUME NEW i \in 1..n PROVE f[i] = f[i - 1] \o Character(value[i])
    <3>1. i \in 0..n /\ i # 0
      BY <1>1
    <3> QED BY <2>2, <3>1
  <2> QED BY <2>3, <2>4
<1>9. Lossy(value) \in Seq(Int)
  <2> DEFINE T == {i \in 0..n : f[i] \in Seq(Int)}
  <2>1. 0 \in T
    <3>1. 0 \in 0..n /\ <<>> \in Seq(Int)
      BY <1>1
    <3> QED BY <1>8, <3>1
  <2>2. ASSUME NEW i \in 1..n, i - 1 \in T PROVE i \in T
    <3>1. f[i - 1] \o Character(value[i]) \in Seq(Int)
      BY <1>2, <2>2, ConcatProperties
    <3>2. i \in 0..n
      BY <1>1
    <3> QED BY <1>8, <3>1, <3>2
  <2> HIDE DEF T
  <2>3. 0..n \subseteq T
    BY <1>1, <2>1, <2>2, BoundedInduction
  <2> QED BY <1>1, <1>7, <2>3 DEF T
<1>10. ASSUME \A i \in 1..Len(value) : value[i] # NotUtf8 PROVE Lossy(value) = value
  <2> DEFINE Same(s, k) == s \in Seq(Int) /\ Len(s) = k /\ \A j \in 1..k : s[j] = value[j]
             T == {i \in 0..n : Same(f[i], i)}
  <2>1. 0 \in T
    <3>1. 0 \in 0..n /\ <<>> \in Seq(Int) /\ Len(<<>>) = 0
      BY <1>1
    <3>2. \A j \in 1..0 : f[0][j] = value[j]
      OBVIOUS
    <3>3. Same(f[0], 0)
      BY <1>8, <3>1, <3>2
    <3> HIDE DEF Same
    <3> QED BY <3>1, <3>3
  <2>2. ASSUME NEW i \in 1..n, i - 1 \in T PROVE i \in T
    <3>1. f[i] = f[i - 1] \o <<value[i]>>
      BY <1>8, <1>10 DEF Character, n
    <3> DEFINE s == f[i - 1]
               t == <<value[i]>>
    <3>2. s \in Seq(Int) /\ Len(s) = i - 1 /\ \A j \in 1..(i - 1) : s[j] = value[j]
      BY <2>2
    <3>3. t \in Seq(Int) /\ Len(t) = 1 /\ t[1] = value[i]
      BY <1>1
    <3> HIDE DEF s, t
    <3>4. /\ s \o t \in Seq(Int) /\ Len(s \o t) = Len(s) + Len(t)
          /\ \A j \in 1..Len(s) : (s \o t)[j] = s[j]
          /\ \A j \in 1..Len(t) : (s \o t)[Len(s) + j] = t[j]
      BY <3>2, <3>3, ConcatAt
    <3>5. Len(s \o t) = i
      BY <3>2, <3>3, <3>4
    <3>6. ASSUME NEW j \in 1..i PROVE (s \o t)[j] = value[j]
      <4>1. CASE j = i
        <5>1. 1 \in 1..1 /\ (i - 1) + 1 = i
          OBVIOUS
        <5> QED BY <3>2, <3>3, <3>4, <4>1, <5>1
      <4>2. CASE j # i
        <5>1. j \in 1..(i - 1)
          BY <4>2
        <5> QED BY <3>2, <3>4, <5>1
      <4> QED BY <4>1, <4>2
    <3>7. f[i] = s \o t
      BY <3>1 DEF s, t
    <3>8. Same(f[i], i)
      BY <3>4, <3>5, <3>6, <3>7
    <3> HIDE DEF Same
    <3> QED BY <3>8
  <2> HIDE DEF T
  <2>3. 0..n \subseteq T
    BY <1>1, <2>1, <2>2, BoundedInduction
  <2>4. Same(f[n], n)
    BY <1>1, <2>3 DEF T
  <2>5. f[n] = value
    BY <2>4, SeqEqual DEF n
  <2> QED BY <1>7, <2>5
<1> QED BY <1>9, <1>10
(* The state of the decoder's loop.                                        *)
Decoding == [ok : BOOLEAN, rest : Seq(Int), size : Nat, command : Seq(Seq(Int))]

(* The decoder begins with rest.                                           *)
Beginning(rest) == [ok |-> TRUE, rest |-> rest, size |-> 0, command |-> <<>>]

(* One argument is taken, or the decoder fails.                            *)
LEMMA ArgumentFacts ==
  ASSUME NEW s \in Decoding
  PROVE  /\ TakeArgument(s) \in Decoding
         /\ TakeArgument(s).ok <=> /\ s.ok /\ HasString(s.rest)
                                   /\ s.size + Len(SshString(s.rest)) <= MaxCommandSize
         /\ TakeArgument(s).ok =>
              /\ TakeArgument(s).rest = AfterString(s.rest)
              /\ TakeArgument(s).size = s.size + Len(SshString(s.rest))
              /\ TakeArgument(s).command = Append(s.command, Lossy(SshString(s.rest)))
<1> DEFINE argument == SshString(s.rest)
           size == s.size + Len(argument)
           took == s.ok /\ HasString(s.rest) /\ size <= MaxCommandSize
<1>1. s.ok \in BOOLEAN /\ s.rest \in Seq(Int) /\ s.size \in Nat /\ s.command \in Seq(Seq(Int))
  BY DEF Decoding
<1>2. CASE took
  <2>1. argument \in Seq(Int) /\ AfterString(s.rest) \in Seq(Int) /\ Len(argument) \in Nat
    BY <1>1, <1>2, TakenType
  <2> HIDE DEF argument
  <2>2. Lossy(argument) \in Seq(Int)
    BY <2>1, LossyFacts
  <2> DEFINE text == Lossy(argument)
  <2> HIDE DEF text
  <2>3. Append(s.command, text) \in Seq(Seq(Int)) /\ size \in Nat
    BY <1>1, <2>1, <2>2 DEF text
  <2>4. TakeArgument(s) = [ok |-> TRUE, rest |-> AfterString(s.rest), size |-> size,
                           command |-> Append(s.command, text)]
    BY <1>2 DEF TakeArgument, argument, text
  <2> HIDE DEF size
  <2>5. TakeArgument(s) \in Decoding
    BY <2>1, <2>3, <2>4 DEF Decoding
  <2> QED BY <1>2, <2>4, <2>5 DEF argument, text, size
<1>3. CASE ~took
  <2>1. TakeArgument(s) = [s EXCEPT !.ok = FALSE]
    BY <1>3 DEF TakeArgument
  <2>2. [s EXCEPT !.ok = FALSE] \in Decoding /\ [s EXCEPT !.ok = FALSE].ok = FALSE
    BY DEF Decoding
  <2> QED BY <1>3, <2>1, <2>2
<1> QED BY <1>2, <1>3

(* The decoder's loop, as a function of the arguments taken.               *)
LEMMA TakenFacts ==
  ASSUME NEW rest \in Seq(Int), NEW count \in Nat
  PROVE  \E f \in [0..count -> Decoding] :
           /\ f[0] = Beginning(rest)
           /\ \A i \in 1..count : f[i] = TakeArgument(f[i - 1])
           /\ TakeCommand(rest, count) = f[count]
<1> DEFINE D(f) == f = [i \in 0..count |-> IF i = 0 THEN Beginning(rest) ELSE TakeArgument(f[i - 1])]
           step == [i \in 1..count |-> [s \in Decoding |-> TakeArgument(s)]]
<1>1. Beginning(rest) \in Decoding
  BY DEF Beginning, Decoding
<1>2. step \in [1..count -> [Decoding -> Decoding]]
  BY ArgumentFacts
<1>3. PICK g : Iterates(g, count, Decoding, Beginning(rest), step)
  <2> HIDE DEF step
  <2> QED BY <1>1, <1>2, Recursion
<1>4. g \in [0..count -> Decoding] /\ g[0] = Beginning(rest) /\ \A i \in 1..count : g[i] = step[i][g[i - 1]]
  BY <1>3 DEF Iterates
<1>5. ASSUME NEW i \in 0..count PROVE g[i] = IF i = 0 THEN Beginning(rest) ELSE TakeArgument(g[i - 1])
  <2>1. CASE i = 0
    BY <1>4, <2>1
  <2>2. CASE i # 0
    <3>1. i \in 1..count /\ i - 1 \in 0..count
      BY <2>2
    <3>2. g[i - 1] \in Decoding
      BY <1>4, <3>1
    <3> QED BY <1>4, <2>2, <3>1, <3>2
  <2> QED BY <2>1, <2>2
<1>6. D(g)
  <2> HIDE DEF step
  <2> QED BY <1>4, <1>5
<1> DEFINE f == CHOOSE f : D(f)
<1>7. D(f)
  BY <1>6
<1>8. TakeCommand(rest, count) = f[count]
  BY DEF TakeCommand, Beginning
<1> HIDE DEF f, step
<1>9. ASSUME NEW i \in 0..count PROVE f[i] = IF i = 0 THEN Beginning(rest) ELSE TakeArgument(f[i - 1])
  BY <1>7
<1>10. f[0] = Beginning(rest)
  <2>1. 0 \in 0..count
    OBVIOUS
  <2> QED BY <1>9, <2>1
<1>11. \A i \in 1..count : f[i] = TakeArgument(f[i - 1])
  <2> TAKE i \in 1..count
  <2>1. i \in 0..count /\ i # 0
    OBVIOUS
  <2> QED BY <1>9, <2>1
<1>12. \A i \in 0..count : f[i] \in Decoding
  <2> DEFINE T == {i \in 0..count : f[i] \in Decoding}
  <2>1. 0 \in T
    BY <1>1, <1>10
  <2>2. ASSUME NEW i \in 1..count, i - 1 \in T PROVE i \in T
    <3>1. i \in 0..count
      OBVIOUS
    <3>2. TakeArgument(f[i - 1]) \in Decoding
      BY <2>2, ArgumentFacts
    <3> QED BY <1>11, <3>1, <3>2
  <2> HIDE DEF T
  <2>3. 0..count \subseteq T
    BY <2>1, <2>2, BoundedInduction
  <2> QED BY <2>3 DEF T
<1>13. f \in [0..count -> Decoding]
  BY <1>7, <1>12
<1> QED BY <1>8, <1>10, <1>11, <1>13
(* The encoder's loop, as a function of the arguments pushed.                *)
LEMMA PushCommandFacts ==
  ASSUME NEW packet \in Seq(Int), NEW command \in Seq(Seq(Int))
  PROVE  \E f \in [0..Len(command) -> Seq(Int)] :
           /\ f[0] = packet \o <<Len(command)>>
           /\ \A i \in 1..Len(command) : f[i] = PushString(f[i - 1], command[i])
           /\ PushCommand(packet, command) = f[Len(command)]
<1> DEFINE n == Len(command)
           base == packet \o <<Len(command)>>
           D(f) == f = [i \in 0..n |-> IF i = 0 THEN base ELSE PushString(f[i - 1], command[i])]
           step == [i \in 1..n |-> [s \in Seq(Int) |-> PushString(s, command[i])]]
<1>1. n \in Nat /\ base \in Seq(Int) /\ \A i \in 1..n : command[i] \in Seq(Int)
  <2>1. n \in Nat /\ \A i \in 1..n : command[i] \in Seq(Int)
    BY LenProperties, ElementOfSeq
  <2>2. base \in Seq(Int)
    <3>1. <<n>> \in Seq(Int)
      BY <2>1
    <3> QED BY <3>1, ConcatProperties
  <2> QED BY <2>1, <2>2
<1>2. \A i \in 1..n : \A s \in Seq(Int) : PushString(s, command[i]) \in Seq(Int)
  BY <1>1, PushedFacts
<1>3. step \in [1..n -> [Seq(Int) -> Seq(Int)]]
  BY <1>2
<1>4. PICK g : Iterates(g, n, Seq(Int), base, step)
  <2> HIDE DEF step, n, base
  <2> QED BY <1>1, <1>3, Recursion
<1>5. g \in [0..n -> Seq(Int)] /\ g[0] = base /\ \A i \in 1..n : g[i] = step[i][g[i - 1]]
  BY <1>4 DEF Iterates
<1>6. ASSUME NEW i \in 0..n PROVE g[i] = IF i = 0 THEN base ELSE PushString(g[i - 1], command[i])
  <2> HIDE DEF n, base
  <2>1. CASE i = 0
    BY <1>5, <2>1
  <2>2. CASE i # 0
    <3>1. i \in 1..n /\ i - 1 \in 0..n
      BY <1>1, <2>2
    <3>2. g[i - 1] \in Seq(Int)
      BY <1>5, <3>1
    <3> QED BY <1>5, <2>2, <3>1, <3>2
  <2> QED BY <2>1, <2>2
<1>7. D(g)
  <2> HIDE DEF step, n, base
  <2> QED BY <1>5, <1>6
<1> DEFINE f == CHOOSE f : D(f)
<1>8. D(f)
  BY <1>7
<1>9. PushCommand(packet, command) = f[n]
  BY DEF PushCommand
<1> HIDE DEF f, step, n, base
<1>10. ASSUME NEW i \in 0..n PROVE f[i] = IF i = 0 THEN base ELSE PushString(f[i - 1], command[i])
  BY <1>8
<1>11. f[0] = base
  <2>1. 0 \in 0..n
    BY <1>1
  <2> QED BY <1>10, <2>1
<1>12. \A i \in 1..n : f[i] = PushString(f[i - 1], command[i])
  <2> TAKE i \in 1..n
  <2>1. i \in 0..n /\ i # 0
    BY <1>1
  <2> QED BY <1>10, <2>1
<1>13. \A i \in 0..n : f[i] \in Seq(Int)
  <2> DEFINE T == {i \in 0..n : f[i] \in Seq(Int)}
  <2>1. 0 \in T
    BY <1>1, <1>11
  <2>2. ASSUME NEW i \in 1..n, i - 1 \in T PROVE i \in T
    <3>1. i \in 0..n
      BY <1>1
    <3>2. f[i - 1] \in Seq(Int)
      BY <2>2
    <3>3. PushString(f[i - 1], command[i]) \in Seq(Int)
      BY <1>2, <3>2
    <3> QED BY <1>12, <3>1, <3>3
  <2> HIDE DEF T
  <2>3. 0..n \subseteq T
    BY <1>1, <2>1, <2>2, BoundedInduction
  <2> QED BY <2>3 DEF T
<1>14. f \in [0..n -> Seq(Int)]
  BY <1>8, <1>13
<1> QED BY <1>9, <1>11, <1>12, <1>14 DEF n, base

(* The size of a command, as a function of the arguments counted.            *)
LEMMA SizeFacts ==
  ASSUME NEW command \in Seq(Seq(Int))
  PROVE  \E f \in [0..Len(command) -> Nat] :
           /\ f[0] = 0
           /\ \A i \in 1..Len(command) : f[i] = f[i - 1] + Len(command[i])
           /\ CommandSize(command) = f[Len(command)]
<1> DEFINE n == Len(command)
           base == 0
           D(f) == f = [i \in 0..n |-> IF i = 0 THEN base ELSE f[i - 1] + Len(command[i])]
           step == [i \in 1..n |-> [s \in Nat |-> s + Len(command[i])]]
<1>1. n \in Nat /\ base \in Nat /\ \A i \in 1..n : command[i] \in Seq(Int)
  <2>1. n \in Nat /\ \A i \in 1..n : command[i] \in Seq(Int)
    BY LenProperties, ElementOfSeq
  <2>2. base \in Nat
    OBVIOUS
  <2> QED BY <2>1, <2>2
<1>2. \A i \in 1..n : \A s \in Nat : s + Len(command[i]) \in Nat
  BY <1>1, LenProperties
<1>3. step \in [1..n -> [Nat -> Nat]]
  BY <1>2
<1>4. PICK g : Iterates(g, n, Nat, base, step)
  <2> HIDE DEF step, n, base
  <2> QED BY <1>1, <1>3, Recursion
<1>5. g \in [0..n -> Nat] /\ g[0] = base /\ \A i \in 1..n : g[i] = step[i][g[i - 1]]
  BY <1>4 DEF Iterates
<1>6. ASSUME NEW i \in 0..n PROVE g[i] = IF i = 0 THEN base ELSE g[i - 1] + Len(command[i])
  <2> HIDE DEF n, base
  <2>1. CASE i = 0
    BY <1>5, <2>1
  <2>2. CASE i # 0
    <3>1. i \in 1..n /\ i - 1 \in 0..n
      BY <1>1, <2>2
    <3>2. g[i - 1] \in Nat
      BY <1>5, <3>1
    <3> QED BY <1>5, <2>2, <3>1, <3>2
  <2> QED BY <2>1, <2>2
<1>7. D(g)
  <2> HIDE DEF step, n, base
  <2> QED BY <1>5, <1>6
<1> DEFINE f == CHOOSE f : D(f)
<1>8. D(f)
  BY <1>7
<1>9. CommandSize(command) = f[n]
  BY DEF CommandSize
<1> HIDE DEF f, step, n, base
<1>10. ASSUME NEW i \in 0..n PROVE f[i] = IF i = 0 THEN base ELSE f[i - 1] + Len(command[i])
  BY <1>8
<1>11. f[0] = base
  <2>1. 0 \in 0..n
    BY <1>1
  <2> QED BY <1>10, <2>1
<1>12. \A i \in 1..n : f[i] = f[i - 1] + Len(command[i])
  <2> TAKE i \in 1..n
  <2>1. i \in 0..n /\ i # 0
    BY <1>1
  <2> QED BY <1>10, <2>1
<1>13. \A i \in 0..n : f[i] \in Nat
  <2> DEFINE T == {i \in 0..n : f[i] \in Nat}
  <2>1. 0 \in T
    BY <1>1, <1>11
  <2>2. ASSUME NEW i \in 1..n, i - 1 \in T PROVE i \in T
    <3>1. i \in 0..n
      BY <1>1
    <3>2. f[i - 1] \in Nat
      BY <2>2
    <3>3. f[i - 1] + Len(command[i]) \in Nat
      BY <1>2, <3>2
    <3> QED BY <1>12, <3>1, <3>3
  <2> HIDE DEF T
  <2>3. 0..n \subseteq T
    BY <1>1, <2>1, <2>2, BoundedInduction
  <2> QED BY <2>3 DEF T
<1>14. f \in [0..n -> Nat]
  BY <1>8, <1>13
<1> QED BY <1>9, <1>11, <1>12, <1>14 DEF n, base
-----------------------------------------------------------------------------
(* The two loops together. *)

(* A sequence of bytes all of which are UTF-8.                             *)
Clean(value) == \A i \in 1..Len(value) : value[i] # NotUtf8

(* What is read from such a sequence is one.                               *)
LEMMA TakenIsClean ==
  ASSUME NEW rest \in Seq(Int), HasString(rest), Clean(rest)
  PROVE  Clean(SshString(rest)) /\ Clean(AfterString(rest))
<1> DEFINE value == SshString(rest)
           after == AfterString(rest)
<1>1. /\ \A i \in 1..Len(value) : \E j \in 1..Len(rest) : value[i] = rest[j]
      /\ \A i \in 1..Len(after) : \E j \in 1..Len(rest) : after[i] = rest[j]
  BY TakenIsPushed
<1> HIDE DEF value, after
<1>2. Clean(value) /\ Clean(after)
  BY <1>1 DEF Clean
<1> QED BY <1>2 DEF value, after

(* What is pushed stays at the front: the packet of a command extends that *)
(* of each of its beginnings.                                              *)
LEMMA PushedExtends ==
  ASSUME NEW command \in Seq(Seq(Int)), NEW f \in [0..Len(command) -> Seq(Int)],
         \A i \in 1..Len(command) : f[i] = PushString(f[i - 1], command[i])
  PROVE  \A i \in 0..Len(command) : \E u \in Seq(Int) : f[Len(command)] = f[i] \o u
<1> DEFINE n == Len(command)
           Extends(i) == \E u \in Seq(Int) : f[n] = f[i] \o u
           T == {k \in 0..n : Extends(n - k)}
<1>1. n \in Nat /\ \A i \in 1..n : command[i] \in Seq(Int)
  BY LenProperties, ElementOfSeq
<1>2. 0 \in T
  <2>1. n - 0 = n /\ n \in 0..n /\ 0 \in 0..n
    BY <1>1
  <2>2. f[n] \in Seq(Int) /\ <<>> \in Seq(Int)
    BY <2>1
  <2>3. f[n] = f[n] \o <<>>
    BY <2>2, ConcatEmptySeq
  <2> HIDE DEF n
  <2>4. Extends(n)
    BY <2>2, <2>3
  <2> HIDE DEF Extends
  <2> QED BY <2>1, <2>4
<1> HIDE DEF n
<1>3. ASSUME NEW k \in 1..n, k - 1 \in T PROVE k \in T
  <2> DEFINE i == n - (k - 1)
  <2>1. i \in 1..n /\ i - 1 = n - k /\ i - 1 \in 0..n /\ k \in 0..n /\ i \in 0..n
    BY <1>1
  <2>2. Extends(i)
    BY <1>3
  <2> HIDE DEF i
  <2>3. PICK u \in Seq(Int) : f[n] = f[i] \o u
    BY <2>2
  <2>4. f[i - 1] \in Seq(Int) /\ command[i] \in Seq(Int)
    BY <1>1, <2>1 DEF n
  <2>5. f[i] = f[i - 1] \o Pushed(command[i]) /\ Pushed(command[i]) \in Seq(Int)
    BY <2>1, <2>4, PushedFacts DEF n
  <2> DEFINE v == Pushed(command[i]) \o u
  <2>6. v \in Seq(Int) /\ f[n] = f[i - 1] \o v
    <3> DEFINE a == f[i - 1]
               b == Pushed(command[i])
    <3>1. a \in Seq(Int) /\ b \in Seq(Int) /\ f[n] = (a \o b) \o u
      BY <2>3, <2>4, <2>5
    <3> HIDE DEF a, b
    <3>2. b \o u \in Seq(Int)
      BY <3>1, ConcatProperties
    <3>3. (a \o b) \o u = a \o (b \o u)
      BY <3>1, Regroup
    <3> QED BY <3>1, <3>2, <3>3 DEF a, b
  <2> HIDE DEF v
  <2>7. Extends(i - 1)
    BY <2>6
  <2> HIDE DEF Extends
  <2> QED BY <2>1, <2>7
<1> HIDE DEF T
<1>4. 0..n \subseteq T
  BY <1>1, <1>2, <1>3, BoundedInduction
<1>5. ASSUME NEW i \in 0..n PROVE Extends(i)
  <2>1. n - i \in 0..n /\ n - (n - i) = i
    BY <1>1
  <2> HIDE DEF Extends
  <2> QED BY <1>4, <2>1 DEF T
<1> QED BY <1>5 DEF n
(* An argument appended to the first ones.                                 *)
LEMMA AppendedFacts ==
  ASSUME NEW k \in Nat, NEW command \in Seq(Seq(Int)), NEW argument \in Seq(Int), Len(command) = k - 1
  PROVE  /\ Len(Append(command, argument)) = k
         /\ \A j \in 1..(k - 1) : Append(command, argument)[j] = command[j]
         /\ Append(command, argument)[k] = argument
<1>1. /\ Len(Append(command, argument)) = Len(command) + 1
      /\ \A i \in 1..Len(command) : Append(command, argument)[i] = command[i]
      /\ Append(command, argument)[Len(command) + 1] = argument
  BY AppendProperties
<1>2. Len(command) + 1 = k
  OBVIOUS
<1> QED BY <1>1, <1>2

(* The decoder reads back a command that the encoder wrote, all of it, and *)
(* stops exactly where the arguments together pass the limit.              *)
LEMMA CommandIsRead ==
  ASSUME NEW text \in Seq(Int), NEW command \in Seq(Seq(Int)),
         \A i \in 1..Len(command) : Clean(command[i])
  PROVE  \E u \in Seq(Int) :
           /\ PushCommand(text, command) = (text \o <<Len(command)>>) \o u
           /\ TakeCommand(u, Len(command)) \in Decoding
           /\ TakeCommand(u, Len(command)).ok <=> CommandSize(command) <= MaxCommandSize
           /\ TakeCommand(u, Len(command)).ok =>
                /\ TakeCommand(u, Len(command)).rest = <<>>
                /\ TakeCommand(u, Len(command)).command = command
<1> DEFINE n == Len(command)
<1>1. n \in Nat /\ \A i \in 1..n : command[i] \in Seq(Int) /\ Len(command[i]) \in Nat
  BY LenProperties, ElementOfSeq
<1>2. PICK p \in [0..n -> Seq(Int)] :
        /\ p[0] = text \o <<n>>
        /\ \A i \in 1..n : p[i] = PushString(p[i - 1], command[i])
        /\ PushCommand(text, command) = p[n]
  BY PushCommandFacts
<1>3. PICK z \in [0..n -> Nat] :
        /\ z[0] = 0
        /\ \A i \in 1..n : z[i] = z[i - 1] + Len(command[i])
        /\ CommandSize(command) = z[n]
  BY SizeFacts
<1>4. \A i \in 0..n : \E u \in Seq(Int) : p[n] = p[i] \o u
  BY <1>2, PushedExtends
<1>5. 0 \in 0..n /\ n \in 0..n
  BY <1>1
<1>6. PICK u \in Seq(Int) : p[n] = p[0] \o u
  BY <1>4, <1>5
<1>7. PICK t \in [0..n -> Decoding] :
        /\ t[0] = Beginning(u)
        /\ \A i \in 1..n : t[i] = TakeArgument(t[i - 1])
        /\ TakeCommand(u, n) = t[n]
  BY <1>1, TakenFacts
<1>8. \A i \in 1..n : Lossy(command[i]) = command[i]
  BY <1>1, LossyFacts DEF Clean
<1> HIDE DEF n
<1> DEFINE Good(i) ==
             /\ t[i].ok <=> z[i] <= MaxCommandSize
             /\ t[i].ok => /\ p[n] = p[i] \o t[i].rest
                           /\ t[i].size = z[i]
                           /\ Len(t[i].command) = i
                           /\ \A j \in 1..i : t[i].command[j] = command[j]
           T == {i \in 0..n : Good(i)}
<1>9. 0 \in T
  <2>1. t[0].ok = TRUE /\ t[0].rest = u /\ t[0].size = 0 /\ t[0].command = <<>>
    BY <1>7 DEF Beginning
  <2>2. MaxCommandSize \in Nat /\ Len(<<>>) = 0
    BY CodecAssumption
  <2>3. 0 <= MaxCommandSize
    BY <2>2
  <2>4. \A j \in 1..0 : t[0].command[j] = command[j]
    OBVIOUS
  <2>5. Good(0)
    BY <1>3, <1>6, <2>1, <2>2, <2>3, <2>4
  <2> HIDE DEF Good
  <2> QED BY <1>5, <2>5
<1>10. ASSUME NEW i \in 1..n, i - 1 \in T PROVE i \in T
  <2>1. i \in 0..n /\ i - 1 \in 0..n
    BY <1>1
  <2>2. Good(i - 1)
    BY <1>10
  <2> DEFINE s == t[i - 1]
             arg == command[i]
  <2>3. s \in Decoding /\ t[i] = TakeArgument(s) /\ arg \in Seq(Int) /\ Len(arg) \in Nat /\ p[i - 1] \in Seq(Int)
    BY <1>1, <1>2, <1>7, <2>1
  <2>4. s.rest \in Seq(Int) /\ s.command \in Seq(Seq(Int)) /\ s.ok \in BOOLEAN
    BY <2>3 DEF Decoding
  <2>5. z[i] = z[i - 1] + Len(arg) /\ z[i] \in Nat /\ z[i - 1] \in Nat
    BY <1>3, <2>1
  <2>6. MaxCommandSize \in Nat
    BY CodecAssumption
  <2>7. CASE ~s.ok
    <3>1. ~t[i].ok
      BY <2>3, <2>7, ArgumentFacts
    <3>2. z[i] > MaxCommandSize
      BY <2>2, <2>3, <2>5, <2>6, <2>7
    <3>3. Good(i)
      BY <2>5, <2>6, <3>1, <3>2
    <3> HIDE DEF Good
    <3> QED BY <2>1, <3>3
  <2>8. CASE s.ok
    <3>1. p[n] = p[i - 1] \o s.rest /\ s.size = z[i - 1] /\ Len(s.command) = i - 1
          /\ \A j \in 1..(i - 1) : s.command[j] = command[j]
      BY <2>2, <2>8
    <3>2. PICK v \in Seq(Int) : p[n] = p[i] \o v
      BY <1>4, <2>1
    <3>3. p[i] = p[i - 1] \o Pushed(arg) /\ Pushed(arg) \in Seq(Int)
      BY <1>2, <2>3, PushedFacts
    <3> HIDE DEF s, arg
    <3>4. s.rest = Pushed(arg) \o v
      <4> DEFINE w == Pushed(arg) \o v
                 a == p[i - 1]
                 b == Pushed(arg)
                 r == s.rest
      <4>1. /\ a \in Seq(Int) /\ b \in Seq(Int) /\ r \in Seq(Int)
            /\ p[n] = (a \o b) \o v /\ p[n] = a \o r
        BY <2>3, <2>4, <3>1, <3>2, <3>3
      <4> HIDE DEF a, b, r
      <4>2. b \o v \in Seq(Int)
        BY <4>1, ConcatProperties
      <4>3. (a \o b) \o v = a \o (b \o v)
        BY <4>1, Regroup
      <4>4. w = b \o v
        BY DEF b
      <4> HIDE DEF w
      <4>5. r \in Seq(Int) /\ w \in Seq(Int) /\ a \o r = a \o w
        BY <4>1, <4>2, <4>3, <4>4
      <4>6. r = w
        BY <4>1, <4>5, CancelLeft
      <4> QED BY <4>6 DEF w, r
    <3>5. HasString(s.rest) /\ SshString(s.rest) = arg /\ AfterString(s.rest) = v
      BY <2>3, <3>4, StringIsTaken
    <3>6. t[i].ok <=> z[i] <= MaxCommandSize
      BY <2>3, <2>5, <2>8, <3>1, <3>5, ArgumentFacts
    <3>7. t[i].ok => t[i].rest = v /\ t[i].size = z[i] /\ t[i].command = Append(s.command, arg)
      <4>1. Lossy(arg) = arg
        BY <1>8 DEF arg
      <4> QED BY <2>3, <2>5, <3>1, <3>5, <4>1, ArgumentFacts
    <3>8. /\ Len(Append(s.command, arg)) = i
          /\ \A j \in 1..(i - 1) : Append(s.command, arg)[j] = s.command[j]
          /\ Append(s.command, arg)[i] = arg
      BY <2>3, <2>4, <3>1, AppendedFacts
    <3>9. ASSUME NEW j \in 1..i PROVE Append(s.command, arg)[j] = command[j]
      <4>1. CASE j = i
        BY <3>8, <4>1 DEF arg
      <4>2. CASE j # i
        <5>1. j \in 1..(i - 1)
          BY <4>2
        <5> QED BY <3>1, <3>8, <5>1
      <4> QED BY <4>1, <4>2
    <3>10. Good(i)
      BY <3>2, <3>6, <3>7, <3>8, <3>9
    <3> HIDE DEF Good
    <3> QED BY <2>1, <3>10
  <2> QED BY <2>4, <2>7, <2>8
<1> HIDE DEF T
<1>11. 0..n \subseteq T
  BY <1>1, <1>9, <1>10, BoundedInduction
<1>12. Good(n)
  BY <1>5, <1>11 DEF T
<1>13. t[n] \in Decoding
  BY <1>5
<1>14. ASSUME t[n].ok PROVE t[n].rest = <<>> /\ t[n].command = command
  <2>1. t[n].rest \in Seq(Int) /\ t[n].command \in Seq(Seq(Int)) /\ p[n] \in Seq(Int)
    BY <1>5, <1>13 DEF Decoding
  <2>2. p[n] = p[n] \o t[n].rest
    BY <1>12, <1>14
  <2>3. t[n].rest = <<>>
    BY <2>1, <2>2, ConcatEqualIffEmpty
  <2>4. Len(t[n].command) = Len(command) /\ \A j \in 1..Len(t[n].command) : t[n].command[j] = command[j]
    BY <1>12, <1>14 DEF n
  <2>5. t[n].command = command
    BY <2>1, <2>4, SeqEqual
  <2> QED BY <2>3, <2>5
<1>15. PushCommand(text, command) = (text \o <<n>>) \o u
  BY <1>2, <1>6
<1>16. t[n].ok <=> CommandSize(command) <= MaxCommandSize
  BY <1>3, <1>12
<1> HIDE DEF Good
<1> QED BY <1>7, <1>13, <1>14, <1>15, <1>16 DEF n
(* What the decoder reads as a command is what the encoder would write of  *)
(* it, if all of it is UTF-8, and has the size that the encoder checks.    *)
LEMMA ReadIsCommand ==
  ASSUME NEW text \in Seq(Int), NEW rest \in Seq(Int), NEW count \in Nat, Clean(rest),
         TakeCommand(rest, count).ok
  PROVE  LET taken == TakeCommand(rest, count)
         IN  /\ taken \in Decoding
             /\ Len(taken.command) = count
             /\ (text \o <<count>>) \o rest = PushCommand(text, taken.command) \o taken.rest
             /\ CommandSize(taken.command) <= MaxCommandSize
<1>1. PICK t \in [0..count -> Decoding] :
        /\ t[0] = Beginning(rest)
        /\ \A i \in 1..count : t[i] = TakeArgument(t[i - 1])
        /\ TakeCommand(rest, count) = t[count]
  BY TakenFacts
<1>2. 0 \in 0..count /\ count \in 0..count
  OBVIOUS
<1> DEFINE command == t[count].command
           arg(i) == SshString(t[i - 1].rest)
           Good(i) ==
             t[i].ok => /\ Clean(t[i].rest)
                        /\ t[i].size <= MaxCommandSize
                        /\ Len(t[i].command) = i
                        /\ \A j \in 1..i : /\ t[j - 1].ok
                                           /\ HasString(t[j - 1].rest)
                                           /\ t[i].command[j] = arg(j)
           T == {i \in 0..count : Good(i)}
<1>3. 0 \in T
  <2>1. t[0].ok = TRUE /\ t[0].rest = rest /\ t[0].size = 0 /\ t[0].command = <<>>
    BY <1>1 DEF Beginning
  <2>2. MaxCommandSize \in Nat /\ Len(<<>>) = 0
    BY CodecAssumption
  <2>3. 0 <= MaxCommandSize
    BY <2>2
  <2>4. Good(0)
    BY <2>1, <2>2, <2>3
  <2> HIDE DEF Good
  <2> QED BY <1>2, <2>4
<1>4. ASSUME NEW i \in 1..count, i - 1 \in T PROVE i \in T
  <2>1. i \in 0..count /\ i - 1 \in 0..count
    OBVIOUS
  <2>2. Good(i - 1)
    BY <1>4
  <2> DEFINE s == t[i - 1]
             a == SshString(s.rest)
  <2>3. s \in Decoding /\ t[i] = TakeArgument(s)
    BY <1>1, <2>1
  <2>4. s.rest \in Seq(Int) /\ s.command \in Seq(Seq(Int)) /\ s.ok \in BOOLEAN
    BY <2>3 DEF Decoding
  <2>5. SUFFICES ASSUME t[i].ok PROVE Good(i)
    <3>1. Good(i)
      BY <2>5
    <3> HIDE DEF Good
    <3> QED BY <2>1, <3>1
  <2>6. /\ s.ok /\ HasString(s.rest) /\ s.size + Len(a) <= MaxCommandSize
        /\ t[i].rest = AfterString(s.rest) /\ t[i].size = s.size + Len(a)
        /\ t[i].command = Append(s.command, Lossy(a))
    BY <2>3, <2>5, ArgumentFacts
  <2>7. /\ Clean(s.rest) /\ Len(s.command) = i - 1
        /\ \A j \in 1..(i - 1) : t[j - 1].ok /\ HasString(t[j - 1].rest) /\ s.command[j] = arg(j)
    BY <2>2, <2>6
  <2>8. a \in Seq(Int)
    BY <2>4, <2>6, TakenType
  <2>9. Clean(a) /\ Clean(t[i].rest)
    BY <2>4, <2>6, <2>7, TakenIsClean
  <2> HIDE DEF s, a
  <2>10. Lossy(a) = a
    BY <2>8, <2>9, LossyFacts DEF Clean
  <2>11. /\ Len(t[i].command) = i
         /\ \A j \in 1..(i - 1) : t[i].command[j] = s.command[j]
         /\ t[i].command[i] = a
    BY <2>4, <2>6, <2>7, <2>8, <2>10, AppendedFacts
  <2>12. ASSUME NEW j \in 1..i
         PROVE  t[j - 1].ok /\ HasString(t[j - 1].rest) /\ t[i].command[j] = arg(j)
    <3>1. CASE j = i
      BY <2>6, <2>11, <3>1 DEF s, a
    <3>2. CASE j # i
      <4>1. j \in 1..(i - 1)
        BY <3>2
      <4> QED BY <2>7, <2>11, <4>1
    <3> QED BY <3>1, <3>2
  <2> QED BY <2>6, <2>9, <2>11, <2>12
<1> HIDE DEF T
<1>5. 0..count \subseteq T
  BY <1>3, <1>4, BoundedInduction
<1>6. Good(count) /\ t[count].ok /\ t[count] \in Decoding
  BY <1>1, <1>2, <1>5 DEF T
<1>7. /\ command \in Seq(Seq(Int)) /\ Len(command) = count /\ t[count].size <= MaxCommandSize
      /\ \A j \in 1..count : t[j - 1].ok /\ HasString(t[j - 1].rest) /\ command[j] = arg(j)
  BY <1>6 DEF Decoding
<1>8. \A i \in 1..count : t[i].ok
  <2> TAKE i \in 1..count
  <2>1. CASE i = count
    BY <1>6, <2>1
  <2>2. CASE i # count
    <3>1. i + 1 \in 1..count /\ (i + 1) - 1 = i
      BY <2>2
    <3> QED BY <1>7, <3>1
  <2> QED BY <2>1, <2>2
<1> HIDE DEF Good, command
<1>9. PICK p \in [0..count -> Seq(Int)] :
        /\ p[0] = text \o <<count>>
        /\ \A i \in 1..count : p[i] = PushString(p[i - 1], command[i])
        /\ PushCommand(text, command) = p[count]
  BY <1>7, PushCommandFacts
<1>10. PICK z \in [0..count -> Nat] :
        /\ z[0] = 0
        /\ \A i \in 1..count : z[i] = z[i - 1] + Len(command[i])
        /\ CommandSize(command) = z[count]
  BY <1>7, SizeFacts
<1> DEFINE whole == (text \o <<count>>) \o rest
           Same(i) == whole = p[i] \o t[i].rest /\ z[i] = t[i].size
           U == {i \in 0..count : Same(i)}
<1>11. 0 \in U
  <2>1. t[0].rest = rest /\ t[0].size = 0
    BY <1>1 DEF Beginning
  <2> QED BY <1>2, <1>9, <1>10, <2>1
<1> HIDE DEF whole
<1>12. ASSUME NEW i \in 1..count, i - 1 \in U PROVE i \in U
  <2>1. i \in 0..count /\ i - 1 \in 0..count
    OBVIOUS
  <2>2. Same(i - 1)
    BY <1>12
  <2> DEFINE s == t[i - 1]
             a == arg(i)
             q == p[i - 1]
             b == Pushed(a)
             v == AfterString(s.rest)
  <2>3. s \in Decoding /\ t[i] = TakeArgument(s) /\ s.rest \in Seq(Int) /\ q \in Seq(Int)
    BY <1>1, <2>1 DEF Decoding
  <2>4. t[i].rest = v /\ t[i].size = s.size + Len(a) /\ HasString(s.rest) /\ command[i] = a
    BY <1>7, <1>8, <2>3, ArgumentFacts
  <2>5. a \in Seq(Int) /\ v \in Seq(Int) /\ s.rest = b \o v
    BY <2>3, <2>4, TakenIsPushed
  <2>6. b \in Seq(Int) /\ p[i] = q \o b
    <3>1. p[i] = PushString(q, a)
      BY <1>9, <2>4
    <3> HIDE DEF q, a
    <3> QED BY <2>3, <2>5, <3>1, PushedFacts
  <2>7. whole = q \o s.rest /\ z[i - 1] = s.size
    BY <2>2
  <2>8. z[i] = t[i].size
    BY <1>10, <2>4, <2>7
  <2> HIDE DEF q, b, v, s, a
  <2>9. (q \o b) \o v = q \o (b \o v)
    <3>1. q \in Seq(Int) /\ b \in Seq(Int) /\ v \in Seq(Int)
      BY <2>3, <2>5, <2>6
    <3> QED BY <3>1, Regroup
  <2>10. Same(i)
    BY <2>4, <2>5, <2>6, <2>7, <2>8, <2>9
  <2> HIDE DEF Same
  <2> QED BY <2>1, <2>10
<1> HIDE DEF U
<1>13. 0..count \subseteq U
  BY <1>11, <1>12, BoundedInduction
<1>14. whole = p[count] \o t[count].rest /\ z[count] = t[count].size
  BY <1>2, <1>13 DEF U
<1>15. /\ whole = PushCommand(text, command) \o t[count].rest
       /\ CommandSize(command) <= MaxCommandSize
  BY <1>7, <1>9, <1>10, <1>14
<1> QED BY <1>1, <1>6, <1>7, <1>15 DEF whole, command
-----------------------------------------------------------------------------
(* Whole frames. *)

(* A cell before a sequence.                                               *)
LEMMA CellFirst ==
  ASSUME NEW x \in Int, NEW r \in Seq(Int)
  PROVE  /\ <<x>> \o r \in Seq(Int)
         /\ <<x>> \o r # <<>>
         /\ Head(<<x>> \o r) = x
         /\ Tail(<<x>> \o r) = r
         /\ Len(<<x>> \o r) = Len(r) + 1
         /\ \A i \in 1..Len(r) : (<<x>> \o r)[i + 1] = r[i]
<1> DEFINE one == <<x>>
<1>1. one \in Seq(Int) /\ Len(one) = 1 /\ one[1] = x /\ Len(r) \in Nat
  OBVIOUS
<1> HIDE DEF one
<1> DEFINE s == one \o r
<1>2. /\ s \in Seq(Int) /\ Len(s) = Len(one) + Len(r)
      /\ \A i \in 1..Len(one) : s[i] = one[i]
      /\ \A i \in 1..Len(r) : s[Len(one) + i] = r[i]
  BY <1>1, ConcatAt
<1> HIDE DEF s
<1>3. Len(s) = Len(r) + 1 /\ s[1] = x /\ \A i \in 1..Len(r) : s[i + 1] = r[i]
  BY <1>1, <1>2
<1>4. s # <<>> /\ Head(s) = x
  BY <1>1, <1>2, <1>3
<1>5. /\ Tail(s) \in Seq(Int) /\ Len(Tail(s)) = Len(s) - 1
      /\ \A i \in 1..Len(Tail(s)) : Tail(s)[i] = s[i + 1]
  BY <1>2, <1>4, HeadTailProperties
<1>6. Len(Tail(s)) = Len(r) /\ \A i \in 1..Len(Tail(s)) : Tail(s)[i] = r[i]
  BY <1>1, <1>3, <1>5
<1>7. Tail(s) = r
  BY <1>5, <1>6, SeqEqual
<1> QED BY <1>2, <1>3, <1>4, <1>7 DEF s, one

(* And a sequence that is not empty is one cell before another.            *)
LEMMA FirstCell ==
  ASSUME NEW s \in Seq(Int), s # <<>>
  PROVE  Head(s) \in Int /\ Tail(s) \in Seq(Int) /\ s = <<Head(s)>> \o Tail(s)
<1> DEFINE x == Head(s)
           r == Tail(s)
<1>1. /\ x \in Int /\ r \in Seq(Int) /\ Len(r) = Len(s) - 1
      /\ \A i \in 1..Len(r) : r[i] = s[i + 1]
  BY HeadTailProperties
<1>2. Len(s) \in Nat /\ Len(s) > 0 /\ s[1] = x
  OBVIOUS
<1> HIDE DEF x, r
<1> DEFINE t == <<x>> \o r
<1>3. /\ t \in Seq(Int) /\ t # <<>> /\ Head(t) = x /\ Len(t) = Len(r) + 1
      /\ \A i \in 1..Len(r) : t[i + 1] = r[i]
  BY <1>1, CellFirst
<1> HIDE DEF t
<1>4. Len(t) = Len(s) /\ t[1] = x
  BY <1>1, <1>2, <1>3
<1>5. ASSUME NEW i \in 1..Len(t) PROVE t[i] = s[i]
  <2>1. CASE i = 1
    BY <1>2, <1>4, <2>1
  <2>2. CASE i # 1
    <3>1. i - 1 \in 1..Len(r) /\ (i - 1) + 1 = i
      BY <1>1, <1>2, <1>4, <2>2
    <3> QED BY <1>1, <1>3, <3>1
  <2> QED BY <2>1, <2>2
<1>6. t = s
  BY <1>3, <1>4, <1>5, SeqEqual
<1> QED BY <1>1, <1>6 DEF t, x, r

(* A payload that begins with Prefix, taken apart.                         *)
LEMMA PrefixFacts ==
  ASSUME NEW group \in Seq(Int), NEW tail \in Seq(Int)
  PROVE  /\ Prefix(group) \in Seq(Int)
         /\ Prefix(group) \o tail =
              <<2>> \o (Pushed(ContextExtension) \o (<<1>> \o (Pushed(group) \o tail)))
<1> DEFINE a == <<2>>
           b == Pushed(ContextExtension)
           c == <<1>>
           d == Pushed(group)
<1>1. a \in Seq(Int) /\ c \in Seq(Int) /\ ContextExtension \in Seq(Int)
  BY DEF ContextExtension
<1>2. b \in Seq(Int) /\ d \in Seq(Int) /\ PushString(a, ContextExtension) = a \o b
  BY <1>1, PushedFacts
<1>3. a \o b \in Seq(Int)
  BY <1>1, <1>2, ConcatProperties
<1>4. (a \o b) \o c \in Seq(Int)
  BY <1>1, <1>3, ConcatProperties
<1>5. PushString((a \o b) \o c, group) = ((a \o b) \o c) \o d
  BY <1>4, PushedFacts
<1>6. Prefix(group) = ((a \o b) \o c) \o d
  BY <1>2, <1>5 DEF Prefix, ExtensionType, ContextVersion
<1> HIDE DEF a, b, c, d
<1>7. ((a \o b) \o c) \o d \in Seq(Int)
  BY <1>2, <1>4, ConcatProperties
<1>8. d \o tail \in Seq(Int)
  BY <1>2, ConcatProperties
<1>9. c \o (d \o tail) \in Seq(Int)
  BY <1>1, <1>8, ConcatProperties
<1>10. (((a \o b) \o c) \o d) \o tail = ((a \o b) \o c) \o (d \o tail)
  BY <1>2, <1>4, Regroup
<1>11. ((a \o b) \o c) \o (d \o tail) = (a \o b) \o (c \o (d \o tail))
  BY <1>1, <1>3, <1>8, Regroup
<1>12. (a \o b) \o (c \o (d \o tail)) = a \o (b \o (c \o (d \o tail)))
  <2> DEFINE w == c \o (d \o tail)
  <2>1. a \in Seq(Int) /\ b \in Seq(Int) /\ w \in Seq(Int)
    BY <1>1, <1>2, <1>9
  <2> HIDE DEF w
  <2>2. (a \o b) \o w = a \o (b \o w)
    BY <2>1, Regroup
  <2> QED BY <2>2 DEF w
<1> QED BY <1>6, <1>7, <1>10, <1>11, <1>12 DEF a, b, c, d
(* Every spelling of a group ID is read as that group and no other.        *)
LEMMA FormIsRead ==
  ASSUME NEW g \in Groups, NEW id \in Forms(g)
  PROVE  id \in Seq(Int) /\ GroupOf(id) = {g}
<1>1. PICK digit \in Digits(g) : id = <<digit>> \/ id = <<Control, digit>>
  BY DEF Forms
<1>2. digit \in Int /\ Lower(digit) = g /\ Control \in Int
  BY DEF Digits, Printable, Control
<1>3. id \in Seq(Int) /\ id[Len(id)] = digit
  <2>1. <<digit>> \in Seq(Int) /\ Len(<<digit>>) = 1 /\ <<digit>>[1] = digit
    BY <1>2
  <2>2. <<Control, digit>> \in Seq(Int) /\ Len(<<Control, digit>>) = 2 /\ <<Control, digit>>[2] = digit
    BY <1>2
  <2> QED BY <1>1, <2>1, <2>2
<1>4. ASSUME NEW h \in GroupOf(id) PROVE h = g
  <2>1. PICK other \in Digits(h) : id = <<other>> \/ id = <<Control, other>>
    BY <1>4 DEF GroupOf, Forms
  <2>2. id[Len(id)] = other
    <3>1. Len(<<other>>) = 1 /\ <<other>>[1] = other
      OBVIOUS
    <3>2. Len(<<Control, other>>) = 2 /\ <<Control, other>>[2] = other
      OBVIOUS
    <3> QED BY <2>1, <3>1, <3>2
  <2> QED BY <1>2, <1>3, <2>2 DEF Digits
<1> QED BY <1>3, <1>4 DEF GroupOf

(* The simple form is one of them.                                         *)
LEMMA SimpleIsForm ==
  ASSUME NEW g \in Groups
  PROVE  Simple(g) \in Forms(g)
<1>1. g \in Digits(g)
  BY DEF Groups, Digits, Printable, Lower
<1> QED BY <1>1 DEF Simple, Forms

(* A frame is what its payload says.                                       *)
LEMMA PayloadOfFrame ==
  ASSUME NEW payload \in Seq(Int)
  PROVE  PacketPayload(<<Len(payload)>> \o payload) = {payload}
<1> DEFINE packet == <<Len(payload)>> \o payload
<1>1. Len(payload) \in Int /\ Len(payload) \in Nat
  OBVIOUS
<1>2. packet # <<>> /\ Head(packet) = Len(payload) /\ Tail(packet) = payload /\ Len(packet) = Len(payload) + 1
  BY <1>1, CellFirst
<1> HIDE DEF packet
<1>3. PacketPayload(packet) = {payload}
  BY <1>1, <1>2 DEF PacketPayload
<1> QED BY <1>3 DEF packet

(* A frame with the prefix of a context is read as one.                    *)
LEMMA PrefixedIsContext ==
  ASSUME NEW group \in Seq(Int), NEW tail \in Seq(Int)
  PROVE  LET payload == Prefix(group) \o tail
         IN  Decode(<<Len(payload)>> \o payload) = DecodeContext(<<1>> \o (Pushed(group) \o tail))
<1> DEFINE payload == Prefix(group) \o tail
           x == <<1>> \o (Pushed(group) \o tail)
           y == Pushed(ContextExtension) \o x
<1>1. ContextExtension \in Seq(Int) /\ 1 \in Int /\ 2 \in Int
  BY DEF ContextExtension
<1>2. Pushed(group) \in Seq(Int)
  BY PushedFacts
<1>3. Pushed(group) \o tail \in Seq(Int)
  BY <1>2, ConcatProperties
<1>4. x \in Seq(Int)
  BY <1>1, <1>3, CellFirst
<1>5. payload = <<2>> \o y
  BY PrefixFacts
<1> HIDE DEF x
<1>6. y \in Seq(Int) /\ HasString(y) /\ SshString(y) = ContextExtension /\ AfterString(y) = x
  BY <1>1, <1>4, StringIsTaken
<1> HIDE DEF y, payload
<1>7. payload \in Seq(Int) /\ payload # <<>> /\ Head(payload) = 2 /\ Tail(payload) = y
  BY <1>1, <1>5, <1>6, CellFirst
<1>8. PacketPayload(<<Len(payload)>> \o payload) = {payload}
  BY <1>7, PayloadOfFrame
<1>9. ~IsOther(payload) /\ HasString(Tail(payload))
  BY <1>6, <1>7 DEF IsOther, ExtensionType
<1>10. Decode(<<Len(payload)>> \o payload) = DecodeContext(x)
  BY <1>6, <1>7, <1>8, <1>9 DEF Decode
<1> QED BY <1>10 DEF payload, x

(* The fields of a context, read in their order.                           *)
LEMMA FieldsAreRead ==
  ASSUME NEW g \in Groups, NEW id \in Forms(g), NEW reason \in Seq(Int), NEW n \in Nat, NEW u \in Seq(Int)
  PROVE  LET tail == Pushed(reason) \o (<<n>> \o u)
             decoded == TakeCommand(u, n)
         IN  /\ tail \in Seq(Int)
             /\ DecodeContext(<<1>> \o (Pushed(id) \o tail)) =
                  IF /\ IsText(reason, MaxReasonSize) /\ n \in 1..MaxCommandArguments
                     /\ decoded.ok /\ decoded.rest = <<>>
                  THEN {[group |-> g, reason |-> reason, command |-> decoded.command]}
                  ELSE {}
<1> DEFINE count == <<n>> \o u
           tail == Pushed(reason) \o count
           group == Pushed(id) \o tail
           rest == <<1>> \o group
<1>1. n \in Int /\ 1 \in Int
  OBVIOUS
<1>2. count \in Seq(Int) /\ count # <<>> /\ Head(count) = n /\ Tail(count) = u
  BY <1>1, CellFirst
<1> HIDE DEF count
<1>3. tail \in Seq(Int) /\ HasString(tail) /\ SshString(tail) = reason /\ AfterString(tail) = count
  BY <1>2, StringIsTaken
<1>4. id \in Seq(Int) /\ GroupOf(id) = {g}
  BY FormIsRead
<1> HIDE DEF tail
<1>5. group \in Seq(Int) /\ HasString(group) /\ SshString(group) = id /\ AfterString(group) = tail
  BY <1>3, <1>4, StringIsTaken
<1> HIDE DEF group
<1>6. rest \in Seq(Int) /\ rest # <<>> /\ Head(rest) = 1 /\ Tail(rest) = group
  BY <1>1, <1>5, CellFirst
<1> HIDE DEF rest
<1> DEFINE decoded == TakeCommand(u, n)
           valid == /\ IsText(reason, MaxReasonSize) /\ n \in 1..MaxCommandArguments
                    /\ decoded.ok /\ decoded.rest = <<>>
<1>7. DecodeContext(rest) =
        {[group |-> h, reason |-> reason, command |-> decoded.command] : h \in IF valid THEN {g} ELSE {}}
  BY <1>2, <1>3, <1>4, <1>5, <1>6 DEF DecodeContext, ContextVersion, Finished
<1> HIDE DEF decoded, valid
<1>8. DecodeContext(rest) = IF valid THEN {[group |-> g, reason |-> reason, command |-> decoded.command]} ELSE {}
  BY <1>7
<1> QED BY <1>3, <1>8 DEF rest, group, tail, count, decoded, valid

(* What `write-context` puts together, taken apart.                        *)
LEMMA FrameIsFields ==
  ASSUME NEW g \in Groups, NEW id \in Forms(g), NEW reason \in Seq(Int), NEW n \in Nat, NEW u \in Seq(Int)
  PROVE  /\ PushString(Prefix(id), reason) \in Seq(Int)
         /\ (PushString(Prefix(id), reason) \o <<n>>) \o u =
              Prefix(id) \o (Pushed(reason) \o (<<n>> \o u))
<1> DEFINE p == Prefix(id)
           r == Pushed(reason)
           c == <<n>>
<1>1. id \in Seq(Int) /\ <<>> \in Seq(Int)
  BY FormIsRead
<1>2. p \in Seq(Int)
  BY <1>1, PrefixFacts
<1>3. c \in Seq(Int)
  OBVIOUS
<1> HIDE DEF p
<1>4. r \in Seq(Int) /\ PushString(p, reason) = p \o r
  BY <1>2, PushedFacts
<1> HIDE DEF r, c
<1>5. p \o r \in Seq(Int)
  BY <1>2, <1>4, ConcatProperties
<1>6. c \o u \in Seq(Int)
  BY <1>3, ConcatProperties
<1>7. ((p \o r) \o c) \o u = (p \o r) \o (c \o u)
  BY <1>3, <1>5, Regroup
<1>8. (p \o r) \o (c \o u) = p \o (r \o (c \o u))
  BY <1>2, <1>4, <1>6, Regroup
<1> QED BY <1>4, <1>5, <1>7, <1>8 DEF p, r, c
-----------------------------------------------------------------------------
(* Encode and decode. *)

(* The contexts `write-context` can be asked for, of any length.           *)
AnyContext == [group : Groups, reason : Seq(Text), command : Seq(Seq(Text))]

(* Text is made of cells that are UTF-8.                                   *)
LEMMA TextFacts ==
  ASSUME NEW value \in Seq(Text)
  PROVE  value \in Seq(Int) /\ Clean(value)
<1>1. Text \subseteq Int /\ NotUtf8 \notin Text
  BY DEF Text, Cell, Control, Printable, NotUtf8
<1>2. \A i \in 1..Len(value) : value[i] \in Text
  OBVIOUS
<1>3. value \in Seq(Int)
  BY <1>1, SeqMonotonic
<1> QED BY <1>1, <1>2, <1>3 DEF Clean

(* The decoder's answer to a frame, however it spells the group ID: the    *)
(* context itself if its fields are within the limits that the encoder     *)
(* checks, an error if one is not.                                         *)
THEOREM DecodeOfFrame ==
  ASSUME NEW context \in AnyContext, NEW id \in Forms(context.group)
  PROVE  Decode(FrameWith(id, context)) = IF Encodable(context) THEN {context} ELSE {}
<1> DEFINE g == context.group
           reason == context.reason
           command == context.command
           n == Len(command)
           text == PushString(Prefix(id), reason)
<1>1. g \in Groups /\ id \in Forms(g) /\ id \in Seq(Int) /\ reason \in Seq(Text) /\ command \in Seq(Seq(Text))
      /\ context = [group |-> g, reason |-> reason, command |-> command]
  BY FormIsRead DEF AnyContext
<1>2. reason \in Seq(Int)
  BY <1>1, TextFacts
<1>3. command \in Seq(Seq(Int)) /\ n \in Nat /\ \A i \in 1..Len(command) : Clean(command[i])
  <2> HIDE DEF command
  <2>1. \A i \in 1..Len(command) : command[i] \in Seq(Text)
    BY <1>1
  <2>2. Len(command) \in Nat
    BY <1>1
  <2>3. Seq(Text) \subseteq Seq(Int)
    BY TextFacts
  <2>4. command \in Seq(Seq(Int))
    BY <1>1, <2>3, SeqMonotonic
  <2> QED BY <2>1, <2>2, <2>4, TextFacts
<1>4. FrameWith(id, context) = <<Len(PushCommand(text, command))>> \o PushCommand(text, command)
  BY DEF FrameWith
<1>5. Encodable(context) <=> /\ IsText(reason, MaxReasonSize) /\ n \in 1..MaxCommandArguments
                             /\ CommandSize(command) <= MaxCommandSize
  BY DEF Encodable
<1> HIDE DEF g, reason, command
<1>6. <<>> \in Seq(Int) /\ 0 \in Nat
  OBVIOUS
<1>7. text \in Seq(Int)
  BY <1>1, <1>2, <1>6, FrameIsFields
<1> HIDE DEF text
<1>8. PICK u \in Seq(Int) :
        /\ PushCommand(text, command) = (text \o <<n>>) \o u
        /\ TakeCommand(u, n).ok <=> CommandSize(command) <= MaxCommandSize
        /\ TakeCommand(u, n).ok => /\ TakeCommand(u, n).rest = <<>>
                                   /\ TakeCommand(u, n).command = command
  BY <1>3, <1>7, CommandIsRead
<1> HIDE DEF n
<1> DEFINE tail == Pushed(reason) \o (<<n>> \o u)
           payload == Prefix(id) \o tail
           decoded == TakeCommand(u, n)
<1>9. PushCommand(text, command) = payload
  <2>1. g \in Groups /\ id \in Forms(g) /\ reason \in Seq(Int) /\ n \in Nat /\ u \in Seq(Int)
    BY <1>1, <1>2, <1>3, <1>8
  <2>2. (PushString(Prefix(id), reason) \o <<n>>) \o u = Prefix(id) \o (Pushed(reason) \o (<<n>> \o u))
    BY <2>1, FrameIsFields
  <2> QED BY <1>8, <2>2 DEF text
<1>11. /\ tail \in Seq(Int)
       /\ DecodeContext(<<1>> \o (Pushed(id) \o tail)) =
            IF /\ IsText(reason, MaxReasonSize) /\ n \in 1..MaxCommandArguments
               /\ decoded.ok /\ decoded.rest = <<>>
            THEN {[group |-> g, reason |-> reason, command |-> decoded.command]}
            ELSE {}
  BY <1>1, <1>2, <1>3, FieldsAreRead
<1> HIDE DEF tail
<1>12. Decode(<<Len(payload)>> \o payload) = DecodeContext(<<1>> \o (Pushed(id) \o tail))
  BY <1>1, <1>11, PrefixedIsContext
<1>13. Decode(FrameWith(id, context)) = DecodeContext(<<1>> \o (Pushed(id) \o tail))
  BY <1>4, <1>9, <1>12
<1> HIDE DEF payload
<1>14. CASE Encodable(context)
  <2>1. decoded.ok /\ decoded.rest = <<>> /\ decoded.command = command
    BY <1>5, <1>8, <1>14
  <2> QED BY <1>1, <1>5, <1>11, <1>13, <1>14, <2>1
<1>15. CASE ~Encodable(context)
  BY <1>5, <1>8, <1>11, <1>13, <1>15
<1> QED BY <1>14, <1>15
(* The parts of a packet that is decoded as a context, front to back.      *)
Parts(packet, context, name, group, fields, reason, count, u) ==
  /\ packet \in Seq(Int) /\ packet # <<>> /\ name \in Seq(Int) /\ group \in Seq(Int) /\ fields \in Seq(Int)
  /\ packet = <<Len(Tail(packet))>> \o (<<2>> \o name)
  /\ name = Pushed(ContextExtension) \o group
  /\ group = <<1>> \o fields
  /\ HasString(fields) /\ context.group \in GroupOf(SshString(fields))
  /\ reason = AfterString(fields) /\ reason \in Seq(Int)
  /\ HasString(reason) /\ context.reason = SshString(reason) /\ IsText(context.reason, MaxReasonSize)
  /\ count = AfterString(reason) /\ count \in Seq(Int) /\ count # <<>>
  /\ u = Tail(count) /\ u \in Seq(Int) /\ count = <<Head(count)>> \o u
  /\ Head(count) \in 1..MaxCommandArguments
  /\ TakeCommand(u, Head(count)).ok /\ TakeCommand(u, Head(count)).rest = <<>>
  /\ context.command = TakeCommand(u, Head(count)).command

(* Every packet that is decoded as a context has those parts, and is clean *)
(* in each of them if it is clean.                                         *)
LEMMA DecodedHasParts ==
  ASSUME NEW packet \in Seq(Int), NEW context \in Decode(packet)
  PROVE  \E name, group, fields, reason, count, u :
           /\ Parts(packet, context, name, group, fields, reason, count, u)
           /\ Clean(packet) => Clean(u)
<1>1. PICK payload \in PacketPayload(packet) :
        /\ payload # <<>> /\ ~IsOther(payload) /\ HasString(Tail(payload))
        /\ context \in DecodeContext(AfterString(Tail(payload)))
  BY DEF Decode
<1>2. packet # <<>> /\ Head(packet) = Len(packet) - 1 /\ payload = Tail(packet)
  BY <1>1 DEF PacketPayload
<1> DEFINE name == Tail(payload)
           group == AfterString(name)
           fields == Tail(group)
           reason == AfterString(fields)
           count == AfterString(reason)
           u == Tail(count)
<1>3. /\ payload \in Seq(Int) /\ packet = <<Head(packet)>> \o payload
      /\ Head(packet) = Len(payload)
  <2>1. Head(packet) \in Int /\ payload \in Seq(Int) /\ packet = <<Head(packet)>> \o payload
    BY <1>2, FirstCell
  <2>2. Len(payload) = Len(packet) - 1
    BY <1>2, HeadTailProperties
  <2> QED BY <1>2, <2>1, <2>2
<1>4. Head(payload) = 2 /\ SshString(name) = ContextExtension
  BY <1>1 DEF IsOther, ExtensionType
<1>5. name \in Seq(Int) /\ payload = <<2>> \o name
  BY <1>1, <1>3, <1>4, FirstCell
<1> HIDE DEF name
<1>6. group \in Seq(Int) /\ name = Pushed(ContextExtension) \o group
  BY <1>1, <1>4, <1>5, TakenIsPushed DEF name
<1>7. /\ group # <<>> /\ Head(group) = 1
      /\ HasString(fields) /\ context.group \in GroupOf(SshString(fields))
      /\ HasString(reason) /\ context.reason = SshString(reason) /\ IsText(SshString(reason), MaxReasonSize)
      /\ count # <<>> /\ Head(count) \in 1..MaxCommandArguments
      /\ TakeCommand(u, Head(count)).ok /\ TakeCommand(u, Head(count)).rest = <<>>
      /\ context.command = TakeCommand(u, Head(count)).command
  <2>1. context \in DecodeContext(group)
    BY <1>1 DEF name
  <2> HIDE DEF group
  <2> QED BY <2>1 DEF DecodeContext, ContextVersion, Finished
<1> HIDE DEF group
<1>8. fields \in Seq(Int) /\ group = <<1>> \o fields
  BY <1>6, <1>7, FirstCell
<1> HIDE DEF fields
<1>9. reason \in Seq(Int)
  BY <1>7, <1>8, TakenType
<1> HIDE DEF reason
<1>10. count \in Seq(Int)
  BY <1>7, <1>9, TakenType
<1> HIDE DEF count
<1>11. u \in Seq(Int) /\ count = <<Head(count)>> \o u
  BY <1>7, <1>10, FirstCell
<1>12. Parts(packet, context, name, group, fields, reason, count, u)
  <2>1. packet = <<Len(Tail(packet))>> \o (<<2>> \o name)
    BY <1>2, <1>3, <1>5
  <2>2. reason = AfterString(fields) /\ count = AfterString(reason)
    BY DEF reason, count
  <2> QED BY <1>2, <1>5, <1>6, <1>7, <1>8, <1>9, <1>10, <1>11, <2>1, <2>2 DEF Parts
<1>13. ASSUME Clean(packet) PROVE Clean(u)
  <2>1. ASSUME NEW s \in Seq(Int), s # <<>>, Clean(s) PROVE Clean(Tail(s))
    <3> DEFINE r == Tail(s)
    <3>1. /\ r \in Seq(Int) /\ Len(r) = Len(s) - 1
          /\ \A i \in 1..Len(r) : r[i] = s[i + 1]
      BY <2>1, HeadTailProperties
    <3>2. Len(s) \in Nat
      OBVIOUS
    <3> HIDE DEF r
    <3>3. ASSUME NEW i \in 1..Len(r) PROVE r[i] # NotUtf8
      <4>1. i + 1 \in 1..Len(s)
        BY <3>1, <3>2
      <4> QED BY <2>1, <3>1, <4>1 DEF Clean
    <3> QED BY <3>3 DEF Clean, r
  <2>2. Clean(payload)
    BY <1>2, <1>13, <2>1
  <2>3. Clean(name)
    BY <1>1, <1>3, <2>1, <2>2 DEF name
  <2>4. Clean(group)
    BY <1>1, <1>5, <2>3, TakenIsClean DEF name, group
  <2>5. Clean(fields)
    BY <1>6, <1>7, <2>1, <2>4 DEF fields
  <2>6. Clean(reason)
    BY <1>7, <1>8, <2>5, TakenIsClean DEF reason
  <2>7. Clean(count)
    BY <1>7, <1>9, <2>6, TakenIsClean DEF count
  <2> QED BY <1>7, <1>10, <2>1, <2>7
<1> QED BY <1>12, <1>13
(* Conversely, what the daemon takes as a context is the frame of it with  *)
(* some spelling of the group ID, and within the limits under which        *)
(* `write-context` makes one: no packet of any length has another reading  *)
(* or slack, unless something in it is not UTF-8.                          *)
THEOREM FrameOfDecoded ==
  ASSUME NEW packet \in Seq(Int), NEW context \in Decode(packet), NotUtf8 \notin Range(packet)
  PROVE  Encodable(context) /\ \E text \in Forms(context.group) : packet = FrameWith(text, context)
<1>1. Clean(packet)
  BY DEF Clean, Range
<1>2. PICK name, group, fields, reason, count, u :
        Parts(packet, context, name, group, fields, reason, count, u) /\ Clean(u)
  BY <1>1, DecodedHasParts
<1> DEFINE n == Head(count)
           g == context.group
           id == SshString(fields)
           decoded == TakeCommand(u, n)
<1>3. /\ packet = <<Len(Tail(packet))>> \o (<<2>> \o name) /\ name = Pushed(ContextExtension) \o group
      /\ name \in Seq(Int) /\ group \in Seq(Int) /\ fields \in Seq(Int) /\ packet # <<>>
      /\ group = <<1>> \o fields
      /\ HasString(fields) /\ g \in GroupOf(id)
      /\ reason = AfterString(fields) /\ reason \in Seq(Int)
  BY <1>2 DEF Parts
<1>4. /\ HasString(reason) /\ context.reason = SshString(reason) /\ IsText(context.reason, MaxReasonSize)
      /\ count = AfterString(reason) /\ count \in Seq(Int) /\ u \in Seq(Int) /\ count = <<n>> \o u
      /\ n \in 1..MaxCommandArguments /\ decoded.ok /\ decoded.rest = <<>> /\ context.command = decoded.command
  BY <1>2 DEF Parts
<1>5. n \in Nat
  BY <1>4, CodecAssumption
<1>6. g \in Groups /\ id \in Forms(g) /\ id \in Seq(Int)
  BY <1>3, FormIsRead DEF GroupOf
<1> HIDE DEF id
<1> HIDE DEF g, n
<1> DEFINE why == context.reason
           text == PushString(Prefix(id), why)
           tail == Pushed(why) \o (<<n>> \o u)
<1>7. why \in Seq(Int) /\ reason = tail
  <2>1. SshString(reason) \in Seq(Int) /\ reason = Pushed(SshString(reason)) \o AfterString(reason)
    BY <1>3, <1>4, TakenIsPushed
  <2>2. why = SshString(reason) /\ AfterString(reason) = <<n>> \o u
    BY <1>4
  <2> QED BY <2>1, <2>2
<1> HIDE DEF why
<1>8. text \in Seq(Int) /\ (text \o <<n>>) \o u = Prefix(id) \o tail
  <2>1. g \in Groups /\ id \in Forms(g) /\ why \in Seq(Int) /\ n \in Nat /\ u \in Seq(Int)
    BY <1>4, <1>5, <1>6, <1>7
  <2>2. /\ PushString(Prefix(id), why) \in Seq(Int)
        /\ (PushString(Prefix(id), why) \o <<n>>) \o u = Prefix(id) \o (Pushed(why) \o (<<n>> \o u))
    BY <2>1, FrameIsFields
  <2> QED BY <2>2
<1>9. /\ decoded \in Decoding /\ Len(decoded.command) = n
      /\ (text \o <<n>>) \o u = PushCommand(text, decoded.command) \o decoded.rest
      /\ CommandSize(decoded.command) <= MaxCommandSize
  <2> HIDE DEF text
  <2> QED BY <1>2, <1>4, <1>5, <1>8, ReadIsCommand
<1> HIDE DEF text, tail, decoded
<1> DEFINE payload == PushCommand(text, context.command)
<1>10. payload \in Seq(Int) /\ payload = Prefix(id) \o tail
  <2>1. context.command \in Seq(Seq(Int))
    BY <1>4, <1>9 DEF Decoding
  <2>2. payload \in Seq(Int)
    <3> DEFINE c == context.command
    <3> HIDE DEF c
    <3>1. c \in Seq(Seq(Int)) /\ Len(c) \in 0..Len(c)
      <4>1. c \in Seq(Seq(Int))
        BY <2>1 DEF c
      <4> QED BY <4>1
    <3>2. PICK f \in [0..Len(c) -> Seq(Int)] : PushCommand(text, c) = f[Len(c)]
      BY <1>8, <3>1, PushCommandFacts
    <3> QED BY <3>1, <3>2 DEF c
  <2>3. payload \o <<>> = payload
    BY <2>2, ConcatEmptySeq
  <2> QED BY <1>4, <1>8, <1>9, <2>2, <2>3
<1> HIDE DEF payload
<1>11. payload = <<2>> \o name
  <2>1. id \in Seq(Int)
    BY <1>6
  <2>2. tail \in Seq(Int)
    BY <1>3, <1>7
  <2>3. Prefix(id) \o tail = <<2>> \o (Pushed(ContextExtension) \o (<<1>> \o (Pushed(id) \o tail)))
    BY <2>1, <2>2, PrefixFacts
  <2>4. fields = Pushed(id) \o tail
    <3>1. fields = Pushed(SshString(fields)) \o AfterString(fields)
      BY <1>3, TakenIsPushed
    <3> QED BY <1>3, <1>7, <3>1 DEF id
  <2> QED BY <1>3, <1>10, <2>3, <2>4
<1>12. Tail(packet) = payload /\ packet = <<Len(payload)>> \o payload
  <2> DEFINE x == Len(Tail(packet))
  <2>1. x \in Int /\ packet = <<x>> \o payload
    <3>1. Tail(packet) \in Seq(Int)
      BY <1>3, HeadTailProperties
    <3>2. x \in Int
      BY <3>1
    <3> HIDE DEF x
    <3> QED BY <1>3, <1>11, <3>2 DEF x
  <2> HIDE DEF x
  <2>2. Tail(packet) = payload
    BY <1>10, <2>1, CellFirst
  <2> QED BY <2>1, <2>2 DEF x
<1>13. FrameWith(id, context) = packet
  BY <1>12 DEF FrameWith, payload, text, why
<1>14. Encodable(context)
  BY <1>4, <1>9 DEF Encodable
<1> QED BY <1>6, <1>13, <1>14 DEF g

(* The router's own packets are no packets of the SSH protocol that it     *)
(* answers or watches for: whatever it does not leave to another reader is *)
(* neither a request for identities nor a session binding.                 *)
THEOREM ContextIsNoOther ==
  ASSUME NEW packet, Class(packet) # "other"
  PROVE  ~IsIdentityRequest(packet) /\ ~IsSessionBindRequest(packet)
<1>1. PICK payload \in PacketPayload(packet) : ~IsOther(payload)
  BY DEF Class
<1>2. \A p \in PacketPayload(packet) : p = payload
  BY <1>1 DEF PacketPayload
<1>3. ~IsIdentityRequest(packet)
  <2>1. <<1>> # <<>> /\ Head(<<1>>) = 1
    OBVIOUS
  <2>2. IsOther(<<1>>)
    BY <2>1 DEF IsOther, ExtensionType
  <2>3. payload # <<1>>
    BY <1>1, <2>2
  <2> QED BY <1>2, <2>3 DEF IsIdentityRequest, RequestIdentitiesType
<1>4. ~IsSessionBindRequest(packet)
  <2>1. SessionBindExtension # ContextExtension
    <3>1. <<2>>[1] = 2 /\ <<1>>[1] = 1
      OBVIOUS
    <3> QED BY <3>1 DEF SessionBindExtension, ContextExtension
  <2> QED BY <1>1, <1>2, <2>1 DEF IsSessionBindRequest, IsOther
<1> QED BY <1>3, <1>4

-----------------------------------------------------------------------------
(* The specification. *)

(* Where the packet on its way comes from.                                 *)
Sent ==
  \/ meant = {} /\ \A packet \in wire : packet \in Seq(Int)
  \/ \E context \in AnyContext : meant = {context} /\ wire = Encode(context)

(* Strings of any bound are sequences.                                     *)
LEMMA StringsAreSequences ==
  ASSUME NEW S, NEW n \in Nat, NEW value \in Strings(S, n)
  PROVE  value \in Seq(S)
<1>1. PICK k \in 0..n : value \in [1..k -> S]
  BY DEF Strings
<1> QED BY <1>1

(* A sequence of cells is one of integers.                                 *)
LEMMA CellsAreIntegers ==
  ASSUME NEW value \in Seq(Cell)
  PROVE  value \in Seq(Int)
<1>1. Cell \subseteq Int
  BY DEF Cell, Control, NotUtf8, Printable
<1> QED BY <1>1, SeqMonotonic

(* The contexts and packets of the model are among those of the theorems.  *)
LEMMA InputsAreGeneral ==
  Contexts \subseteq AnyContext /\ Packets \subseteq Seq(Int)
<1>1. MaxReasonSize + 1 \in Nat /\ MaxCommandSize \in Nat /\ MaxCommandArguments + 1 \in Nat
  BY CodecAssumption
<1>2. ASSUME NEW context \in Contexts PROVE context \in AnyContext
  <2> DEFINE Arguments == Strings({Control, 2}, MaxCommandSize)
  <2>1. /\ context.group \in Groups /\ context.reason \in Strings(Text, MaxReasonSize + 1)
        /\ context.command \in Strings(Arguments, MaxCommandArguments + 1)
        /\ context = [group |-> context.group, reason |-> context.reason, command |-> context.command]
    BY DEF Contexts
  <2>2. context.reason \in Seq(Text)
    BY <1>1, <2>1, StringsAreSequences
  <2>3. Arguments \subseteq Seq({Control, 2})
    BY <1>1, StringsAreSequences
  <2>4. {Control, 2} \subseteq Text
    BY DEF Text, Cell, Printable, Control, NotUtf8
  <2>5. Seq({Control, 2}) \subseteq Seq(Text)
    BY <2>4, SeqMonotonic
  <2> HIDE DEF Arguments
  <2>6. context.command \in Seq(Arguments)
    BY <1>1, <2>1, StringsAreSequences
  <2>7. Arguments \subseteq Seq(Text)
    BY <2>3, <2>5
  <2>8. context.command \in Seq(Seq(Text))
    BY <2>6, <2>7, SeqMonotonic
  <2> QED BY <2>1, <2>2, <2>8 DEF AnyContext
<1>3. ASSUME NEW k \in Nat, NEW value \in Strings(Cell, k) PROVE value \in Seq(Int)
  BY StringsAreSequences, CellsAreIntegers
<1>4. ASSUME NEW payload \in Seq(Int) PROVE <<Len(payload)>> \o payload \in Seq(Int)
  <2>1. Len(payload) \in Int
    OBVIOUS
  <2> QED BY <2>1, CellFirst
<1>5. ASSUME NEW group \in GroupTexts, NEW tail \in Strings(Cell, 7)
      PROVE  Prefix(group) \o tail \in Seq(Int)
  <2>1. group \in Seq(Int)
    <3>1. Control \in Int /\ NotUtf8 \in Int /\ 2 \in Int /\ 3 \in Int
      BY DEF Control, NotUtf8
    <3>2. /\ Simple(2) \in Seq(Int) /\ <<3>> \in Seq(Int)
          /\ <<Control, 3>> \in Seq(Int) /\ <<NotUtf8>> \in Seq(Int)
      BY <3>1 DEF Simple
    <3> QED BY <3>2 DEF GroupTexts
  <2>2. tail \in Seq(Int)
    BY <1>3
  <2>3. Prefix(group) \in Seq(Int)
    BY <2>1, <2>2, PrefixFacts
  <2> QED BY <2>2, <2>3, ConcatProperties
<1>6. ASSUME NEW packet \in Packets PROVE packet \in Seq(Int)
  <2>1. PICK payload \in Strings(Cell, 5) \cup Prefixed : packet = <<Len(payload)>> \o payload
    BY DEF Packets
  <2>2. payload \in Seq(Int)
    <3>1. CASE payload \in Strings(Cell, 5)
      BY <1>3, <3>1
    <3>2. CASE payload \in Prefixed
      <4>1. PICK group \in GroupTexts, tail \in Strings(Cell, 7) :
              payload = Prefix(group) \o tail
        BY <3>2 DEF Prefixed
      <4> QED BY <1>5, <4>1
    <3> QED BY <2>1, <3>1, <3>2
  <2> QED BY <1>4, <2>1, <2>2
<1> QED BY <1>2, <1>6

(* Sent is an invariant.                                                   *)
THEOREM SentInvariant == CodecSpec => []Sent
<1>1. CodecInit => Sent
  BY DEF CodecInit, Sent
<1>2. Sent /\ [CodecNext]_codecVars => Sent'
  <2> SUFFICES ASSUME Sent, [CodecNext]_codecVars PROVE Sent'
    OBVIOUS
  <2>1. ASSUME NEW context \in Contexts, WriteContext(context) PROVE Sent'
    <3>1. context \in AnyContext
      BY InputsAreGeneral
    <3> QED BY <2>1, <3>1 DEF WriteContext, Sent
  <2>2. ASSUME NEW packet \in Packets, CodecInit, SendPacket(packet) PROVE Sent'
    <3>1. packet \in Seq(Int)
      BY InputsAreGeneral
    <3> QED BY <2>2, <3>1 DEF SendPacket, CodecInit, Sent
  <2>3. CASE Consume
    BY <2>3 DEF Consume, Sent
  <2>4. CASE UNCHANGED codecVars
    BY <2>4 DEF codecVars, Sent
  <2> QED BY <2>1, <2>2, <2>3, <2>4 DEF CodecNext
<1> QED BY <1>1, <1>2, PTL DEF CodecSpec

(* RoundTrip: encode and decode have the same limits, and a context that   *)
(* is sent arrives unchanged.                                              *)
THEOREM RoundTripHolds == CodecSpec => []RoundTrip
<1>1. Sent => RoundTrip
  <2> SUFFICES ASSUME Sent, NEW context \in meant
               PROVE  /\ wire = {} <=> Decode(ContextFrame(context)) = {}
                      /\ \A packet \in wire : Decode(packet) = {context}
    BY DEF RoundTrip
  <2>1. context \in AnyContext /\ wire = Encode(context)
    BY DEF Sent
  <2>2. context.group \in Groups /\ Simple(context.group) \in Forms(context.group)
    BY <2>1, SimpleIsForm DEF AnyContext
  <2>3. Decode(ContextFrame(context)) = IF Encodable(context) THEN {context} ELSE {}
    BY <2>1, <2>2, DecodeOfFrame DEF ContextFrame
  <2> QED BY <2>1, <2>3 DEF Encode
<1> QED BY <1>1, SentInvariant, PTL

(* OneReading: a packet that the daemon takes as a context is the frame of *)
(* it but for the spelling of the group ID, and it takes no packet of the  *)
(* SSH protocol for one.                                                   *)
THEOREM OneReadingHolds == CodecSpec => []OneReading
<1>1. Sent => OneReading
  <2> SUFFICES ASSUME Sent, NEW packet \in wire
               PROVE  /\ Class(packet) # "other" => ~IsIdentityRequest(packet) /\ ~IsSessionBindRequest(packet)
                      /\ \A context \in Decode(packet) :
                           \/ /\ Encodable(context)
                              /\ \E text \in Forms(context.group) : packet = FrameWith(text, context)
                           \/ NotUtf8 \in Range(packet)
    BY DEF OneReading
  <2>1. Class(packet) # "other" => ~IsIdentityRequest(packet) /\ ~IsSessionBindRequest(packet)
    BY ContextIsNoOther
  <2>2. ASSUME NEW context \in Decode(packet), NotUtf8 \notin Range(packet)
        PROVE  Encodable(context) /\ \E text \in Forms(context.group) : packet = FrameWith(text, context)
    <3>1. CASE packet \in Seq(Int)
      BY <2>2, <3>1, FrameOfDecoded
    <3>2. CASE \E c \in AnyContext : wire = Encode(c)
      <4>1. PICK c \in AnyContext : wire = Encode(c)
        BY <3>2
      <4>2. Encodable(c) /\ packet = FrameWith(Simple(c.group), c)
        BY <4>1 DEF Encode, ContextFrame
      <4>3. Simple(c.group) \in Forms(c.group)
        BY <4>1, SimpleIsForm DEF AnyContext
      <4>4. Decode(packet) = {c}
        BY <4>2, <4>3, DecodeOfFrame
      <4> QED BY <2>2, <4>2, <4>3, <4>4
    <3> QED BY <3>1, <3>2 DEF Sent
  <2> QED BY <2>1, <2>2
<1> QED BY <1>1, SentInvariant, PTL
=============================================================================
