---------------------------- MODULE IdSeqTheorems ----------------------------
(* What appending, concatenating and taking the tail do to the elements of *)
(* a sequence of ids and to its order; every proof about a queue, a list   *)
(* or a connection uses these instead of indices.                          *)
EXTENDS IdSeqs, FiniteSetTheorems, TLAPS

(* An empty queue holds nothing and is in order.                           *)
LEMMA EmptyQueue == Elements(<<>>) = {} /\ Increasing(<<>>)
  BY DEF Elements, Increasing

(* Every element of a sequence over S is in S.                             *)
LEMMA ElementsIn ==
  ASSUME NEW S, NEW s \in Seq(S)
  PROVE  Elements(s) \subseteq S
  BY DEF Elements

(* A queue that is not empty has elements.                                 *)
LEMMA HeadIn ==
  ASSUME NEW S, NEW s \in Seq(S), s # <<>>
  PROVE  Head(s) \in Elements(s) /\ Head(s) \in S
  BY DEF Elements

(* Push adds one element.                                                  *)
LEMMA AppendElements ==
  ASSUME NEW S, NEW s \in Seq(S), NEW e \in S
  PROVE  /\ Append(s, e) \in Seq(S)
         /\ Elements(Append(s, e)) = Elements(s) \cup {e}
<1> DEFINE t == Append(s, e)
<1>1. /\ t \in Seq(S)
      /\ Len(t) = Len(s) + 1
      /\ t[Len(s) + 1] = e
      /\ \A i \in 1..Len(s) : t[i] = s[i]
  OBVIOUS
<1>2. DOMAIN t = 1..(Len(s) + 1) /\ DOMAIN s = 1..Len(s) /\ Len(s) \in Nat
  BY <1>1
<1>3. Elements(t) \subseteq Elements(s) \cup {e}
  BY <1>1, <1>2 DEF Elements
<1>4. Elements(s) \subseteq Elements(t)
  BY <1>1, <1>2 DEF Elements
<1>5. e \in Elements(t)
  BY <1>1, <1>2 DEF Elements
<1> QED
  BY <1>1, <1>3, <1>4, <1>5

(* .. and keeps the order when it is larger than all the others.           *)
LEMMA AppendIncreasing ==
  ASSUME NEW s \in Seq(Int), NEW e \in Int, Increasing(s),
         \A x \in Elements(s) : x < e
  PROVE  Increasing(Append(s, e))
<1> DEFINE t == Append(s, e)
<1>1. /\ Len(t) = Len(s) + 1
      /\ t[Len(s) + 1] = e
      /\ \A i \in 1..Len(s) : t[i] = s[i] /\ s[i] \in Elements(s)
  BY DEF Elements
<1>2. DOMAIN t = 1..(Len(s) + 1) /\ DOMAIN s = 1..Len(s) /\ Len(s) \in Nat
  BY <1>1
<1>3. ASSUME NEW i \in DOMAIN t, NEW j \in DOMAIN t, i < j
      PROVE  t[i] < t[j]
  <2>1. CASE j = Len(s) + 1
    BY <1>1, <1>2, <1>3, <2>1
  <2>2. CASE j \in 1..Len(s)
    BY <1>1, <1>2, <1>3, <2>2 DEF Increasing
  <2> QED
    BY <1>2, <2>1, <2>2
<1> QED
  BY <1>3 DEF Increasing

(* One queue sent after another.                                           *)
LEMMA ConcatElements ==
  ASSUME NEW S, NEW s \in Seq(S), NEW t \in Seq(S)
  PROVE  /\ s \o t \in Seq(S)
         /\ Elements(s \o t) = Elements(s) \cup Elements(t)
<1> DEFINE c == s \o t
<1>1. /\ c \in Seq(S)
      /\ Len(c) = Len(s) + Len(t)
      /\ \A i \in 1..Len(s) : c[i] = s[i]
      /\ \A i \in 1..Len(t) : c[Len(s) + i] = t[i]
  OBVIOUS
<1>2. /\ DOMAIN c = 1..(Len(s) + Len(t)) /\ DOMAIN s = 1..Len(s)
      /\ DOMAIN t = 1..Len(t) /\ Len(s) \in Nat /\ Len(t) \in Nat
  BY <1>1
<1>3. ASSUME NEW i \in DOMAIN c PROVE c[i] \in Elements(s) \cup Elements(t)
  <2>1. CASE i \in 1..Len(s)
    BY <1>1, <1>2, <2>1 DEF Elements
  <2>2. CASE i \notin 1..Len(s)
    <3>1. i - Len(s) \in 1..Len(t) /\ i = Len(s) + (i - Len(s))
      BY <1>2, <2>2
    <3> QED
      BY <1>1, <1>2, <3>1 DEF Elements
  <2> QED
    BY <2>1, <2>2
<1>4. Elements(c) \subseteq Elements(s) \cup Elements(t)
  BY <1>3 DEF Elements
<1>5. Elements(s) \subseteq Elements(c)
  BY <1>1, <1>2 DEF Elements
<1>6. ASSUME NEW i \in DOMAIN t PROVE t[i] \in Elements(c)
  <2>1. Len(s) + i \in DOMAIN c /\ c[Len(s) + i] = t[i]
    BY <1>1, <1>2
  <2> QED
    BY <2>1 DEF Elements
<1>7. Elements(t) \subseteq Elements(c)
  BY <1>6 DEF Elements
<1> QED
  BY <1>1, <1>4, <1>5, <1>7

(* .. is in order when both are and the first is below the second.         *)
LEMMA ConcatIncreasing ==
  ASSUME NEW s \in Seq(Int), NEW t \in Seq(Int), Increasing(s), Increasing(t),
         \A x \in Elements(s), y \in Elements(t) : x < y
  PROVE  Increasing(s \o t)
<1> DEFINE c == s \o t
<1>1. /\ Len(c) = Len(s) + Len(t)
      /\ \A i \in 1..Len(s) : c[i] = s[i] /\ s[i] \in Elements(s)
      /\ \A i \in 1..Len(t) : c[Len(s) + i] = t[i] /\ t[i] \in Elements(t)
  BY DEF Elements
<1>2. /\ DOMAIN c = 1..(Len(s) + Len(t)) /\ DOMAIN s = 1..Len(s)
      /\ DOMAIN t = 1..Len(t) /\ Len(s) \in Nat /\ Len(t) \in Nat
  BY <1>1
<1>3. ASSUME NEW i \in DOMAIN c, i \notin 1..Len(s)
      PROVE  /\ i - Len(s) \in 1..Len(t)
             /\ c[i] = t[i - Len(s)] /\ c[i] \in Elements(t)
  <2>1. i - Len(s) \in 1..Len(t) /\ i = Len(s) + (i - Len(s))
    BY <1>2, <1>3
  <2> QED
    BY <1>1, <2>1
<1>4. ASSUME NEW i \in DOMAIN c, NEW j \in DOMAIN c, i < j
      PROVE  c[i] < c[j]
  <2>1. CASE i \in 1..Len(s) /\ j \in 1..Len(s)
    BY <1>1, <1>2, <1>4, <2>1 DEF Increasing
  <2>2. CASE i \in 1..Len(s) /\ j \notin 1..Len(s)
    <3>1. c[i] \in Elements(s) /\ c[j] \in Elements(t)
      BY <1>1, <1>3, <2>2
    <3> QED
      BY <3>1
  <2>3. CASE i \notin 1..Len(s)
    <3>1. j \notin 1..Len(s)
      BY <1>2, <1>4, <2>3
    <3>2. i - Len(s) < j - Len(s)
      BY <1>2, <1>4
    <3> QED
      BY <1>2, <1>3, <2>3, <3>1, <3>2 DEF Increasing
  <2> QED
    BY <2>1, <2>2, <2>3
<1> QED
  BY <1>4 DEF Increasing

(* Taking the head off.                                                    *)
LEMMA TailElements ==
  ASSUME NEW S, NEW s \in Seq(S), s # <<>>
  PROVE  /\ Tail(s) \in Seq(S)
         /\ Elements(s) = {Head(s)} \cup Elements(Tail(s))
<1> DEFINE t == Tail(s)
<1>1. /\ t \in Seq(S)
      /\ Len(s) \in Nat \ {0}
      /\ Len(t) = Len(s) - 1
      /\ \A i \in 1..Len(t) : t[i] = s[i + 1]
      /\ Head(s) = s[1]
  OBVIOUS
<1>2. /\ DOMAIN s = 1..Len(s) /\ DOMAIN t = 1..(Len(s) - 1)
  BY <1>1
<1>3. ASSUME NEW i \in DOMAIN s PROVE s[i] \in {Head(s)} \cup Elements(t)
  <2>1. CASE i = 1
    BY <1>1, <2>1
  <2>2. CASE i # 1
    <3>1. i - 1 \in DOMAIN t /\ t[i - 1] = s[i]
      BY <1>1, <1>2, <2>2
    <3> QED
      BY <3>1 DEF Elements
  <2> QED
    BY <2>1, <2>2
<1>4. ASSUME NEW i \in DOMAIN t PROVE t[i] \in Elements(s)
  BY <1>1, <1>2 DEF Elements
<1>5. Head(s) \in Elements(s)
  BY <1>1, <1>2 DEF Elements
<1>6. Elements(s) \subseteq {Head(s)} \cup Elements(t)
  BY <1>3 DEF Elements
<1>7. Elements(t) \subseteq Elements(s)
  BY <1>4 DEF Elements
<1> QED
  BY <1>1, <1>5, <1>6, <1>7

(* .. leaves an ordered queue ordered, above what was taken.               *)
LEMMA TailIncreasing ==
  ASSUME NEW s \in Seq(Int), s # <<>>, Increasing(s)
  PROVE  /\ Increasing(Tail(s))
         /\ \A x \in Elements(Tail(s)) : Head(s) < x
<1> DEFINE t == Tail(s)
<1>1. /\ Len(s) \in Nat \ {0}
      /\ Len(t) = Len(s) - 1
      /\ \A i \in 1..Len(t) : t[i] = s[i + 1]
      /\ Head(s) = s[1]
  OBVIOUS
<1>2. /\ DOMAIN s = 1..Len(s) /\ DOMAIN t = 1..(Len(s) - 1)
  BY <1>1
<1>3. ASSUME NEW i \in DOMAIN t, NEW j \in DOMAIN t, i < j
      PROVE  t[i] < t[j]
  BY <1>1, <1>2, <1>3 DEF Increasing
<1>4. ASSUME NEW i \in DOMAIN t PROVE Head(s) < t[i]
  BY <1>1, <1>2 DEF Increasing
<1> QED
  BY <1>3, <1>4 DEF Increasing, Elements

(* A sequence over a set is one over every larger set.                     *)
LEMMA SeqOverMore ==
  ASSUME NEW S, NEW T, S \subseteq T, NEW s \in Seq(S)
  PROVE  s \in Seq(T)
<1>1. Len(s) \in Nat /\ s \in [1..Len(s) -> S]
  OBVIOUS
<1>2. s \in [1..Len(s) -> T]
  BY <1>1
<1> QED
  BY <1>1, <1>2

(* A result set is a sequence of its rows.                                 *)
LEMMA InIdOrderIsSeq ==
  ASSUME NEW S, IsFiniteSet(S), NEW s \in InIdOrder(S)
  PROVE  s \in Seq(S) /\ Elements(s) = S /\ Increasing(s)
<1>1. Cardinality(S) \in Nat
  BY FS_CardinalityType
<1> QED
  BY <1>1 DEF InIdOrder
=============================================================================
