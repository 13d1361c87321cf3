----------------------------- MODULE OrderLemmas -----------------------------
(***************************************************************************)
(* Sequences whose elements are in order: what a queue that hands on its   *)
(* head, is emptied or loses elements does to the order and to the set of  *)
(* what it holds.  An order is a set of pairs.                             *)
(***************************************************************************)
EXTENDS SequencesExt, SequenceTheorems, TLAPS

\* Every element comes before all those that follow it.
InOrder(s, R) == \A j, k \in DOMAIN s : j < k => <<s[j], s[k]>> \in R

\* Every element of A comes before every element of B.
AllBefore(A, B, R) == \A x \in A, y \in B : <<x, y>> \in R

\* Every element of A comes before x.
BeforeOne(A, x, R) == \A y \in A : <<y, x>> \in R

\* Nothing comes before itself.
Strict(R) == \A p \in R : p[1] # p[2]

LEMMA ToSetOfEmpty == ToSet(<<>>) = {}
  BY DEF ToSet

LEMMA ToSetType ==
  ASSUME NEW S, NEW s \in Seq(S)
  PROVE  ToSet(s) \subseteq S
BY DEF ToSet

\* Where the elements of a concatenation come from.
LEMMA ConcatElements ==
  ASSUME NEW S, NEW s \in Seq(S), NEW t \in Seq(S)
  PROVE  /\ Len(s) \in Nat /\ Len(t) \in Nat /\ Len(s \o t) = Len(s) + Len(t)
         /\ DOMAIN s = 1 .. Len(s) /\ DOMAIN t = 1 .. Len(t)
         /\ DOMAIN (s \o t) = 1 .. Len(s) + Len(t)
         /\ \A i \in 1 .. Len(s) : (s \o t)[i] = s[i]
         /\ \A i \in 1 .. Len(t) : (s \o t)[i + Len(s)] = t[i]
<1> DEFINE u == s \o t
<1>1. /\ u \in Seq(S) /\ Len(u) = Len(s) + Len(t)
      /\ Len(s) \in Nat /\ Len(t) \in Nat
      /\ DOMAIN u = 1 .. Len(u) /\ DOMAIN s = 1 .. Len(s) /\ DOMAIN t = 1 .. Len(t)
  BY ConcatProperties, LenProperties
<1>2. \A i \in 1 .. Len(s) + Len(t) : u[i] = IF i <= Len(s) THEN s[i] ELSE t[i - Len(s)]
  BY ConcatProperties
<1> HIDE DEF u
<1>3. \A i \in 1 .. Len(s) : u[i] = s[i]
  BY <1>1, <1>2
<1>4. ASSUME NEW i \in 1 .. Len(t) PROVE u[i + Len(s)] = t[i]
  <2>1. /\ i + Len(s) \in 1 .. Len(s) + Len(t)
        /\ ~(i + Len(s) <= Len(s)) /\ (i + Len(s)) - Len(s) = i
    BY <1>1
  <2> QED
    BY <1>2, <2>1
<1> QED
  BY <1>1, <1>3, <1>4 DEF u

LEMMA ToSetConcat ==
  ASSUME NEW S, NEW s \in Seq(S), NEW t \in Seq(S)
  PROVE  ToSet(s \o t) = ToSet(s) \union ToSet(t)
<1> DEFINE u == s \o t
<1>1. /\ Len(s) \in Nat /\ Len(t) \in Nat /\ Len(u) = Len(s) + Len(t)
      /\ DOMAIN u = 1 .. Len(u) /\ DOMAIN s = 1 .. Len(s) /\ DOMAIN t = 1 .. Len(t)
  BY ConcatElements
<1>2. /\ \A i \in 1 .. Len(s) : u[i] = s[i]
      /\ \A i \in 1 .. Len(t) : u[i + Len(s)] = t[i]
  BY ConcatElements
<1> HIDE DEF u
<1>3. ASSUME NEW x \in ToSet(u) PROVE x \in ToSet(s) \union ToSet(t)
  <2>1. PICK i \in 1 .. Len(u) : x = u[i]
    BY <1>1 DEF ToSet
  <2>2. CASE i <= Len(s)
    BY <1>1, <1>2, <2>1, <2>2 DEF ToSet
  <2>3. CASE ~(i <= Len(s))
    <3>1. i - Len(s) \in 1 .. Len(t) /\ (i - Len(s)) + Len(s) = i
      BY <1>1, <2>3
    <3>2. u[i] = t[i - Len(s)]
      BY <1>2, <3>1
    <3> QED
      BY <1>1, <2>1, <3>1, <3>2 DEF ToSet
  <2> QED
    BY <2>2, <2>3
<1>4. ASSUME NEW x \in ToSet(s) PROVE x \in ToSet(u)
  <2>1. PICK i \in 1 .. Len(s) : x = s[i]
    BY <1>1 DEF ToSet
  <2>2. i \in 1 .. Len(u) /\ u[i] = x
    BY <1>1, <1>2, <2>1
  <2> QED
    BY <1>1, <2>2 DEF ToSet
<1>5. ASSUME NEW x \in ToSet(t) PROVE x \in ToSet(u)
  <2>1. PICK i \in 1 .. Len(t) : x = t[i]
    BY <1>1 DEF ToSet
  <2>2. i + Len(s) \in 1 .. Len(u) /\ u[i + Len(s)] = x
    BY <1>1, <1>2, <2>1
  <2> QED
    BY <1>1, <2>2 DEF ToSet
<1> QED
  BY <1>3, <1>4, <1>5 DEF u

LEMMA ToSetSingle == ASSUME NEW x PROVE ToSet(<<x>>) = {x}
  BY DEF ToSet

LEMMA ToSetAppend ==
  ASSUME NEW S, NEW s \in Seq(S), NEW x \in S
  PROVE  ToSet(Append(s, x)) = ToSet(s) \union {x}
<1> DEFINE one == <<x>>
<1>1. Append(s, x) = s \o one /\ one \in Seq(S) /\ ToSet(one) = {x}
  BY AppendIsConcat, ToSetSingle
<1> HIDE DEF one
<1>2. ToSet(s \o one) = ToSet(s) \union ToSet(one)
  BY <1>1, ToSetConcat
<1> QED
  BY <1>1, <1>2

\* A concatenation is in order when its parts are, one before the other.
LEMMA InOrderConcat ==
  ASSUME NEW S, NEW s \in Seq(S), NEW t \in Seq(S), NEW R
  PROVE  InOrder(s \o t, R) <=>
           InOrder(s, R) /\ InOrder(t, R) /\ AllBefore(ToSet(s), ToSet(t), R)
<1> DEFINE u == s \o t
<1>1. /\ Len(s) \in Nat /\ Len(t) \in Nat /\ Len(u) = Len(s) + Len(t)
      /\ DOMAIN u = 1 .. Len(u) /\ DOMAIN s = 1 .. Len(s) /\ DOMAIN t = 1 .. Len(t)
  BY ConcatElements
<1>2. /\ \A i \in 1 .. Len(s) : u[i] = s[i]
      /\ \A i \in 1 .. Len(t) : u[i + Len(s)] = t[i]
  BY ConcatElements
<1> HIDE DEF u
<1>3. ASSUME InOrder(u, R)
      PROVE  InOrder(s, R) /\ InOrder(t, R) /\ AllBefore(ToSet(s), ToSet(t), R)
  <2>1. InOrder(s, R)
    <3> SUFFICES ASSUME NEW j \in 1 .. Len(s), NEW k \in 1 .. Len(s), j < k
                 PROVE  <<s[j], s[k]>> \in R
      BY <1>1 DEF InOrder
    <3>1. j \in 1 .. Len(u) /\ k \in 1 .. Len(u) /\ u[j] = s[j] /\ u[k] = s[k]
      BY <1>1, <1>2
    <3> QED
      BY <1>1, <1>3, <3>1 DEF InOrder
  <2>2. InOrder(t, R)
    <3> SUFFICES ASSUME NEW j \in 1 .. Len(t), NEW k \in 1 .. Len(t), j < k
                 PROVE  <<t[j], t[k]>> \in R
      BY <1>1 DEF InOrder
    <3>1. /\ j + Len(s) \in 1 .. Len(u) /\ k + Len(s) \in 1 .. Len(u)
          /\ j + Len(s) < k + Len(s)
          /\ u[j + Len(s)] = t[j] /\ u[k + Len(s)] = t[k]
      BY <1>1, <1>2
    <3> QED
      BY <1>1, <1>3, <3>1 DEF InOrder
  <2>3. AllBefore(ToSet(s), ToSet(t), R)
    <3> SUFFICES ASSUME NEW j \in 1 .. Len(s), NEW k \in 1 .. Len(t)
                 PROVE  <<s[j], t[k]>> \in R
      BY <1>1 DEF AllBefore, ToSet
    <3>1. /\ j \in 1 .. Len(u) /\ k + Len(s) \in 1 .. Len(u) /\ j < k + Len(s)
          /\ u[j] = s[j] /\ u[k + Len(s)] = t[k]
      BY <1>1, <1>2
    <3> QED
      BY <1>1, <1>3, <3>1 DEF InOrder
  <2> QED
    BY <2>1, <2>2, <2>3
<1>4. ASSUME InOrder(s, R), InOrder(t, R), AllBefore(ToSet(s), ToSet(t), R)
      PROVE  InOrder(u, R)
  <2> SUFFICES ASSUME NEW j \in 1 .. Len(u), NEW k \in 1 .. Len(u), j < k
               PROVE  <<u[j], u[k]>> \in R
    BY <1>1 DEF InOrder
  <2>1. CASE k <= Len(s)
    <3>1. j \in 1 .. Len(s) /\ k \in 1 .. Len(s) /\ u[j] = s[j] /\ u[k] = s[k]
      BY <1>1, <1>2, <2>1
    <3> QED
      BY <1>1, <1>4, <3>1 DEF InOrder
  <2>2. CASE j > Len(s)
    <3>1. /\ j - Len(s) \in 1 .. Len(t) /\ k - Len(s) \in 1 .. Len(t)
          /\ j - Len(s) < k - Len(s)
          /\ (j - Len(s)) + Len(s) = j /\ (k - Len(s)) + Len(s) = k
      BY <1>1, <2>2
    <3>2. u[j] = t[j - Len(s)] /\ u[k] = t[k - Len(s)]
      BY <1>2, <3>1
    <3> QED
      BY <1>1, <1>4, <3>1, <3>2 DEF InOrder
  <2>3. CASE j <= Len(s) /\ k > Len(s)
    <3>1. /\ j \in 1 .. Len(s) /\ k - Len(s) \in 1 .. Len(t)
          /\ (k - Len(s)) + Len(s) = k
      BY <1>1, <2>3
    <3>2. u[j] = s[j] /\ u[k] = t[k - Len(s)]
      BY <1>2, <3>1
    <3> QED
      BY <1>1, <1>4, <3>1, <3>2 DEF AllBefore, ToSet
  <2> QED
    BY <1>1, <2>1, <2>2, <2>3
<1> QED
  BY <1>3, <1>4 DEF u

LEMMA InOrderShort ==
  ASSUME NEW R, NEW x
  PROVE  InOrder(<<>>, R) /\ InOrder(<<x>>, R)
BY DEF InOrder

\* Taking the head of a queue to the end of another leaves the two together as
\* they were.
LEMMA HeadAndTail ==
  ASSUME NEW S, NEW s \in Seq(S), s # <<>>
  PROVE  <<Head(s)>> \o Tail(s) = s
<1>1. /\ Head(s) \in S /\ Tail(s) \in Seq(S) /\ Len(Tail(s)) = Len(s) - 1
      /\ \A i \in 1 .. Len(Tail(s)) : Tail(s)[i] = s[i + 1]
  BY HeadTailProperties
<1>2. Head(s) = s[1]
  OBVIOUS
<1>3. /\ <<Head(s)>> \in Seq(S) /\ Len(<<Head(s)>>) = 1 /\ <<Head(s)>>[1] = Head(s)
  BY <1>1
<1>4. Len(s) \in Nat \ {0}
  BY EmptySeq
<1> DEFINE u == <<Head(s)>> \o Tail(s)
<1>5. /\ u \in Seq(S) /\ Len(u) = Len(s)
      /\ \A i \in 1 .. Len(s) : u[i] = IF i <= 1 THEN Head(s) ELSE Tail(s)[i - 1]
  BY <1>1, <1>3, <1>4, ConcatProperties
<1>6. \A i \in 1 .. Len(s) : u[i] = s[i]
  BY <1>1, <1>2, <1>4, <1>5
<1> HIDE DEF u
<1>7. u = s
  BY <1>5, <1>6, SeqEqual
<1> QED
  BY <1>7 DEF u

LEMMA ToSetHeadTail ==
  ASSUME NEW S, NEW s \in Seq(S), s # <<>>
  PROVE  ToSet(s) = {Head(s)} \union ToSet(Tail(s))
<1> DEFINE one == <<Head(s)>>
<1>1. Head(s) \in S /\ Tail(s) \in Seq(S)
  BY HeadTailProperties
<1>2. one \o Tail(s) = s /\ one \in Seq(S) /\ ToSet(one) = {Head(s)}
  BY <1>1, HeadAndTail, ToSetSingle
<1> HIDE DEF one
<1>3. ToSet(one \o Tail(s)) = ToSet(one) \union ToSet(Tail(s))
  <2>1. one \in Seq(S) /\ Tail(s) \in Seq(S)
    BY <1>1, <1>2
  <2> QED
    BY <2>1, ToSetConcat, ZenonT(60)
<1> QED
  BY <1>2, <1>3

LEMMA HeadMoves ==
  ASSUME NEW S, NEW s \in Seq(S), NEW t \in Seq(S), t # <<>>
  PROVE  Append(s, Head(t)) \o Tail(t) = s \o t
<1>1. Head(t) \in S /\ Tail(t) \in Seq(S)
  BY HeadTailProperties
<1>2. Append(s, Head(t)) = s \o <<Head(t)>> /\ <<Head(t)>> \in Seq(S)
  BY <1>1, AppendIsConcat
<1>3. (s \o <<Head(t)>>) \o Tail(t) = s \o (<<Head(t)>> \o Tail(t))
  BY <1>1, <1>2, ConcatAssociative
<1> QED
  BY <1>2, <1>3, HeadAndTail

LEMMA LastArrives ==
  ASSUME NEW S, NEW s \in Seq(S), NEW t \in Seq(S), NEW x \in S
  PROVE  s \o Append(t, x) = Append(s \o t, x)
<1>1. s \o t \in Seq(S) /\ <<x>> \in Seq(S)
  BY ConcatProperties
<1>2. Append(t, x) = t \o <<x>> /\ Append(s \o t, x) = (s \o t) \o <<x>>
  BY <1>1, AppendIsConcat
<1> QED
  BY <1>1, <1>2, ConcatAssociative

\* A pipeline of four queues can be cut after the first.
CanBeCut(a, b, c, d) == a \o b \o c \o d = a \o (b \o (c \o d))

LEMMA ConcatOfFour ==
  ASSUME NEW S, NEW a \in Seq(S), NEW b \in Seq(S), NEW c \in Seq(S), NEW d \in Seq(S)
  PROVE  CanBeCut(a, b, c, d)
<1> DEFINE ab == a \o b
           cd == c \o d
<1>1. ab \in Seq(S) /\ cd \in Seq(S)
  BY ConcatProperties
<1>2. ab \o cd = a \o (b \o cd)
  <2>1. cd \in Seq(S)
    BY <1>1
  <2> HIDE DEF cd
  <2> QED
    BY <2>1, ConcatAssociative, SMTT(40)
<1>3. (ab \o c) \o d = ab \o cd
  <2>1. ab \in Seq(S)
    BY <1>1
  <2> HIDE DEF ab
  <2> QED
    BY <2>1, ConcatAssociative, SMTT(40)
<1> QED
  BY <1>2, <1>3 DEF CanBeCut

\* Something drops out of the middle: the rest stays in order, and what has dropped
\* out is not there any more when nothing comes before itself.
LEMMA MiddleDropsOut ==
  ASSUME NEW S, NEW a \in Seq(S), NEW b \in Seq(S), NEW c \in Seq(S), NEW R,
         InOrder(a \o b \o c, R), Strict(R)
  PROVE  /\ InOrder(a \o c, R)
         /\ ToSet(a \o b \o c) = ToSet(a \o c) \union ToSet(b)
         /\ ToSet(a \o c) \intersect ToSet(b) = {}
<1>1. a \o b \in Seq(S)
  BY ConcatProperties
<1>2. /\ ToSet(a \o b) = ToSet(a) \union ToSet(b)
      /\ ToSet((a \o b) \o c) = ToSet(a \o b) \union ToSet(c)
      /\ ToSet(a \o c) = ToSet(a) \union ToSet(c)
  <2>1. ToSet(a \o b) = ToSet(a) \union ToSet(b)
    BY ToSetConcat
  <2>2. ToSet((a \o b) \o c) = ToSet(a \o b) \union ToSet(c)
    BY <1>1, ToSetConcat, ZenonT(60)
  <2>3. ToSet(a \o c) = ToSet(a) \union ToSet(c)
    BY ToSetConcat
  <2> QED
    BY <2>1, <2>2, <2>3
<1>3. InOrder(a \o b, R) /\ InOrder(c, R) /\ AllBefore(ToSet(a \o b), ToSet(c), R)
  BY <1>1, InOrderConcat
<1>4. InOrder(a, R) /\ AllBefore(ToSet(a), ToSet(b), R)
  BY <1>3, InOrderConcat
<1>5. AllBefore(ToSet(a), ToSet(c), R) /\ AllBefore(ToSet(b), ToSet(c), R)
  BY <1>2, <1>3 DEF AllBefore
<1>6. InOrder(a \o c, R)
  BY <1>3, <1>4, <1>5, InOrderConcat
<1>7. \A x : <<x, x>> \notin R
  BY DEF Strict
<1>8. ToSet(a \o c) \intersect ToSet(b) = {}
  BY <1>2, <1>4, <1>5, <1>7 DEF AllBefore
<1> QED
  BY <1>2, <1>6, <1>8

\* A newcomer that comes after everything else.
LEMMA NewcomerLast ==
  ASSUME NEW S, NEW s \in Seq(S), NEW x \in S, NEW R, InOrder(s, R),
         BeforeOne(ToSet(s), x, R)
  PROVE  InOrder(Append(s, x), R) /\ ToSet(Append(s, x)) = ToSet(s) \union {x}
<1>1. Append(s, x) = s \o <<x>> /\ <<x>> \in Seq(S)
  BY AppendIsConcat
<1>2. InOrder(<<x>>, R) /\ ToSet(<<x>>) = {x}
  BY InOrderShort, ToSetSingle
<1>3. AllBefore(ToSet(s), ToSet(<<x>>), R)
  BY <1>2 DEF AllBefore, BeforeOne
<1>4. InOrder(s \o <<x>>, R)
  BY <1>1, <1>2, <1>3, InOrderConcat
<1>5. ToSet(s \o <<x>>) = ToSet(s) \union ToSet(<<x>>)
  BY <1>1, ToSetConcat, ZenonT(60)
<1> QED
  BY <1>1, <1>2, <1>4, <1>5

=============================================================================
