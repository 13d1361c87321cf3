---------------------- MODULE IntermediateReceiverProofs ---------------------
(***************************************************************************)
(* The intermediate receiver, for queues of any size and any number of     *)
(* messages: types, the order of what it relays, what it drops where, and  *)
(* how many messages it sends on after an interrupt.                       *)
(***************************************************************************)
EXTENDS IntermediateReceiver, OrderLemmas

-----------------------------------------------------------------------------
(* Types *)

LEMMA TypeInit == Init => TypeOK
<1> SUFFICES ASSUME Init PROVE TypeOK
  OBVIOUS
<1>1. \A s \in {subscriber, next, publisher, received} : s \in Seq(1 .. arrived) /\ Len(s) = 0
  BY EmptySeq DEF Init
<1>2. {g_done, connected, subscribed, interrupted} \subseteq BOOLEAN
  BY DEF Init
<1>3. 0 <= HWM /\ arrived \in 0 .. MaxMessages
  BY HWMAssumption, BoundAssumption DEF Init
<1>4. pc = "test" /\ sockets = {"publisher", "subscriber"} /\ late = 0
  BY DEF Init
<1> QED
  BY <1>1, <1>2, <1>3, <1>4 DEF TypeOK, Looping

LEMMA TypeStep == TypeOK /\ [Next]_vars => TypeOK'
<1> SUFFICES ASSUME TypeOK, [Next]_vars PROVE TypeOK'
  OBVIOUS
<1> USE HWMAssumption, BoundAssumption DEF TypeOK, Looping
<1>1. CASE Arrive
  <2>1. arrived' = arrived + 1 /\ arrived' \in 0 .. MaxMessages
    BY <1>1 DEF Arrive
  <2>2. \A s \in Seq(1 .. arrived) : s \in Seq(1 .. arrived')
    BY <2>1, SeqMonotonic
  <2>3. subscriber' \in Seq(1 .. arrived') /\ Len(subscriber') <= HWM
    <3>1. CASE Len(subscriber) < HWM
      <4>1. subscriber' = Append(subscriber, arrived')
        BY <1>1, <3>1 DEF Arrive
      <4>2. subscriber \in Seq(1 .. arrived') /\ arrived' \in 1 .. arrived'
        BY <2>1, <2>2
      <4>3. Len(subscriber) \in Nat
        BY LenProperties
      <4> QED
        BY <3>1, <4>1, <4>2, <4>3, AppendProperties
    <3>2. CASE ~(Len(subscriber) < HWM)
      BY <1>1, <2>2, <3>2 DEF Arrive
    <3> QED
      BY <3>1, <3>2
  <2>5. /\ next' \in Seq(1 .. arrived') /\ publisher' \in Seq(1 .. arrived')
        /\ received' \in Seq(1 .. arrived')
    BY <1>1, <2>2 DEF Arrive, linkVars
  <2> QED
    BY <1>1, <2>1, <2>3, <2>5 DEF Arrive, linkVars, history
<1>2. CASE Connect
  BY <1>2 DEF Connect, queueVars, history
<1>3. CASE Disconnect
  <2>1. PICK k \in 0 .. Len(publisher) : publisher' = SubSeq(publisher, k + 1, Len(publisher))
    BY <1>3 DEF Disconnect
  <2>2. Len(publisher) \in Nat /\ \A i \in 1 .. Len(publisher) : publisher[i] \in 1 .. arrived
    BY LenProperties, ElementOfSeq
  <2>3. publisher' \in Seq(1 .. arrived) /\ Len(publisher') <= HWM
    BY <2>1, <2>2, SubSeqProperties
  <2> QED
    BY <1>3, <2>3 DEF Disconnect, history
<1>4. CASE Subscribe
  BY <1>4 DEF Subscribe, queueVars, history
<1>5. CASE Transmit
  <2>1. /\ Head(publisher) \in 1 .. arrived /\ Tail(publisher) \in Seq(1 .. arrived)
        /\ Len(Tail(publisher)) = Len(publisher) - 1 /\ Len(publisher) \in Nat
    BY <1>5, HeadTailProperties, LenProperties DEF Transmit
  <2>2. Append(received, Head(publisher)) \in Seq(1 .. arrived)
    BY <2>1, AppendProperties
  <2> QED
    BY <1>5, <2>1, <2>2 DEF Transmit, history
<1>6. CASE HandleInterrupt
  <2>1. pc' \in {pc, "test", "exited"} /\ (pc' = "send" <=> pc = "send")
    BY <1>6 DEF HandleInterrupt
  <2>2. publisher' \in Seq(1 .. arrived) /\ Len(publisher') <= HWM
    BY <1>6, EmptySeq DEF HandleInterrupt
  <2>4. g_done' \in BOOLEAN /\ connected' \in BOOLEAN /\ interrupted' \in BOOLEAN
    BY <1>6 DEF HandleInterrupt
  <2> QED
    BY <1>6, <2>1, <2>2, <2>4 DEF HandleInterrupt
<1>7. CASE Throw
  BY <1>7, EmptySeq DEF Throw, linkVars, history
<1>8. CASE LoopTest
  BY <1>8 DEF LoopTest, queueVars, linkVars, history
<1>9. CASE Wait
  BY <1>9 DEF Wait, queueVars, linkVars, history
<1>10. CASE Receive
  <2>1. /\ Head(subscriber) \in 1 .. arrived /\ Tail(subscriber) \in Seq(1 .. arrived)
        /\ Len(Tail(subscriber)) = Len(subscriber) - 1 /\ Len(subscriber) \in Nat
    BY <1>10, HeadTailProperties, LenProperties DEF Receive
  <2>2. <<Head(subscriber)>> \in Seq(1 .. arrived) /\ Len(<<Head(subscriber)>>) = 1
    BY <2>1
  <2> QED
    BY <1>10, <2>1, <2>2 DEF Receive, linkVars, history
<1>11. CASE Send
  <2>1. Len(next) = 1 /\ Len(publisher) \in Nat
    BY <1>11, LenProperties DEF Send
  <2>2. publisher \o next \in Seq(1 .. arrived) /\ Len(publisher \o next) = Len(publisher) + 1
    BY <2>1, ConcatProperties, ZenonT(60)
  <2>3. publisher' \in Seq(1 .. arrived) /\ Len(publisher') <= HWM
    <3>1. CASE subscribed /\ Len(publisher) < HWM
      <4>1. publisher' = publisher \o next
        BY <1>11, <3>1 DEF Send
      <4>2. Len(publisher) + 1 <= HWM
        BY <2>1, <3>1
      <4> QED
        BY <2>2, <4>1, <4>2
    <3>2. CASE ~(subscribed /\ Len(publisher) < HWM)
      BY <1>11, <3>2 DEF Send
    <3> QED
      BY <3>1, <3>2
  <2>5. late' \in 0 .. 2
    BY <1>11 DEF Send
  <2>6. next' \in Seq(1 .. arrived) /\ Len(next') = 0
    BY <1>11, EmptySeq DEF Send
  <2> QED
    BY <1>11, <2>3, <2>5, <2>6 DEF Send, linkVars
<1>12. CASE Unpack
  BY <1>12 DEF Unpack, queueVars, linkVars, history
<1>13. CASE CloseSockets
  <2>2. subscriber' \in Seq(1 .. arrived) /\ Len(subscriber') <= HWM
    BY <1>13, EmptySeq DEF CloseSockets
  <2> QED
    BY <1>13, <2>2 DEF CloseSockets, linkVars, history
<1>14. CASE DestroyContext
  BY <1>14 DEF DestroyContext, queueVars, linkVars, history
<1>15. CASE Exit
  BY <1>15 DEF Exit, queueVars, history
<1>16. CASE UNCHANGED vars
  BY <1>16 DEF vars, queueVars, linkVars, history
<1> QED
  BY <1>1, <1>2, <1>3, <1>4, <1>5, <1>6, <1>7, <1>8, <1>9, <1>10, <1>11, <1>12, <1>13,
     <1>14, <1>15, <1>16 DEF Next, Link, main

\* Whatever the size of the queues, none of them ever holds more than that, and the
\* relay holds a message exactly between Message::receive and Message::send.
THEOREM RelayTypes == Spec => []TypeOK
BY TypeInit, TypeStep, PTL DEF Spec

-----------------------------------------------------------------------------
(* Order *)

Less == {p \in Nat \X Nat : p[1] < p[2]}

\* RelayOrdered in terms of the lemmas.
OrderInv == InOrder(InTransit, Less)

LEMMA LessIsStrict == Strict(Less)
  BY DEF Strict, Less

\* Most actions move messages along and leave the whole as it is.
LEMMA MovedAlong ==
  ASSUME OrderInv, InTransit' = InTransit
  PROVE  OrderInv'
BY DEF OrderInv

\* Some drop a stretch of it.
LEMMA Dropped ==
  ASSUME OrderInv, NEW S \in SUBSET Nat,
         NEW a \in Seq(S), NEW b \in Seq(S), NEW c \in Seq(S),
         InTransit = a \o b \o c, InTransit' = a \o c
  PROVE  OrderInv'
<1>1. InOrder(a \o b \o c, Less)
  BY DEF OrderInv
<1>2. InOrder(a \o c, Less)
  BY <1>1, LessIsStrict, MiddleDropsOut
<1> QED
  BY <1>2 DEF OrderInv

LEMMA OrderInit == Init => OrderInv
<1> SUFFICES ASSUME Init PROVE OrderInv
  OBVIOUS
<1>1. received = <<>> /\ publisher = <<>> /\ next = <<>> /\ subscriber = <<>>
  BY DEF Init
<1>2. <<>> \in Seq(Nat) /\ <<>> \o <<>> = <<>>
  BY EmptySeq, ConcatEmptySeq
<1>3. InTransit = <<>>
  BY <1>1, <1>2 DEF InTransit
<1> QED
  BY <1>3, InOrderShort DEF OrderInv

LEMMA OrderStep == TypeOK /\ OrderInv /\ [Next]_vars => OrderInv'
<1> SUFFICES ASSUME TypeOK, OrderInv, [Next]_vars PROVE OrderInv'
  OBVIOUS
<1> DEFINE S == 1 .. arrived
           front == received \o publisher
           back == next \o subscriber
<1>1. /\ received \in Seq(S) /\ publisher \in Seq(S) /\ next \in Seq(S)
      /\ subscriber \in Seq(S) /\ <<>> \in Seq(S) /\ S \in SUBSET Nat
  BY EmptySeq DEF TypeOK
<1> HIDE DEF S
<1>2. front \in Seq(S) /\ front \o next \in Seq(S) /\ back \in Seq(S)
  BY <1>1, ConcatProperties
<1>3. InTransit \in Seq(S)
  BY <1>1, <1>2, ConcatProperties DEF InTransit
<1>4. InTransit = front \o next \o subscriber
  BY DEF InTransit
<1>5. InTransit = front \o back
  BY <1>1, <1>2, ConcatAssociative, SMTT(40) DEF InTransit
\* Parentheses move to the right.
<1>regroup. ASSUME NEW x \in Seq(S), NEW y \in Seq(S)
            PROVE  x \o y \o next \o subscriber = x \o (y \o next \o subscriber)
  <2>1. next \in Seq(S) /\ y \o next \in Seq(S)
    BY <1>1, ConcatProperties
  <2>2. (x \o y) \o next = x \o (y \o next)
    BY <2>1, ConcatAssociative
  <2>3. (x \o (y \o next)) \o subscriber = x \o ((y \o next) \o subscriber)
    <3>1. subscriber \in Seq(S)
      BY <1>1
    <3> QED
      BY <2>1, <3>1, ConcatAssociative, SMTT(40)
  <2> QED
    BY <2>2, <2>3
<1>6. CASE Arrive
  <2>1. arrived \in Nat /\ arrived' = arrived + 1
    BY <1>6 DEF Arrive, TypeOK
  <2>3. received' = received /\ publisher' = publisher /\ next' = next
    BY <1>6 DEF Arrive, linkVars
  <2>4. ToSet(InTransit) \subseteq S
    BY <1>3, ToSetType
  <2>5. CASE Len(subscriber) < HWM
    <3>1. subscriber' = Append(subscriber, arrived')
      BY <1>6, <2>5 DEF Arrive
    <3>2. S \subseteq Nat /\ arrived' \in Nat
      BY <1>1, <2>1
    <3>3. front \o next \in Seq(Nat) /\ subscriber \in Seq(Nat) /\ InTransit \in Seq(Nat)
      BY <1>1, <1>2, <1>3, <3>2, SeqMonotonic
    <3>4. InTransit' = Append(InTransit, arrived')
      <4>1. front \o next \in Seq(Nat) /\ subscriber \in Seq(Nat)
        BY <3>3
      <4> HIDE DEF front
      <4>2. (front \o next) \o Append(subscriber, arrived')
              = Append((front \o next) \o subscriber, arrived')
        BY <3>2, <4>1, LastArrives
      <4> QED
        BY <2>3, <3>1, <4>2 DEF InTransit, front
    <3>5. BeforeOne(ToSet(InTransit), arrived', Less)
      <4>1. \A y \in S : y \in Nat /\ y < arrived'
        BY <2>1 DEF S
      <4> QED
        BY <2>4, <3>2, <4>1 DEF BeforeOne, Less
    <3>6. InOrder(Append(InTransit, arrived'), Less)
      <4>1. InOrder(InTransit, Less)
        BY DEF OrderInv
      <4>2. InTransit \in Seq(Nat)
        BY <3>3
      <4> QED
        BY <3>2, <3>5, <4>1, <4>2, NewcomerLast
    <3> QED
      BY <3>4, <3>6 DEF OrderInv
  <2>6. CASE ~(Len(subscriber) < HWM)
    <3>1. subscriber' = subscriber
      BY <1>6, <2>6 DEF Arrive
    <3>2. InTransit' = InTransit
      BY <2>3, <3>1 DEF InTransit
    <3> QED
      BY <3>2, MovedAlong
  <2> QED
    BY <2>5, <2>6
<1>7. CASE Transmit
  <2>1. /\ received' = Append(received, Head(publisher)) /\ publisher' = Tail(publisher)
        /\ publisher # <<>> /\ UNCHANGED <<next, subscriber>>
    BY <1>7 DEF Transmit
  <2>2. received' \o publisher' = front
    BY <1>1, <2>1, HeadMoves
  <2> QED
    BY <2>1, <2>2, MovedAlong DEF InTransit
<1>8. CASE Disconnect
  <2>1. PICK k \in 0 .. Len(publisher) : publisher' = SubSeq(publisher, k + 1, Len(publisher))
    BY <1>8 DEF Disconnect
  <2>2. UNCHANGED <<received, next, subscriber>>
    BY <1>8 DEF Disconnect
  <2> DEFINE taken == SubSeq(publisher, 1, k)
             rest == SubSeq(publisher, k + 1, Len(publisher))
  <2>3. Len(publisher) \in Nat /\ \A i \in 1 .. Len(publisher) : publisher[i] \in S
    BY <1>1, LenProperties, ElementOfSeq
  <2>4. taken \in Seq(S) /\ rest \in Seq(S)
    BY <2>3, SubSeqProperties
  <2>5. taken \o rest = SubSeq(publisher, 1, Len(publisher))
    <3>1. /\ 1 \in 1 .. Len(publisher) + 1 /\ k \in 1 - 1 .. Len(publisher)
          /\ Len(publisher) \in k .. Len(publisher)
      BY <2>3
    <3> QED
      BY <1>1, <3>1, ConcatAdjacentSubSeq
  <2>6. publisher = taken \o rest
    BY <1>1, <2>5, SubSeqFull
  <2> HIDE DEF taken, rest
  <2>7. rest \o next \in Seq(S)
    BY <1>1, <2>4, ConcatProperties
  <2>8. rest \o next \o subscriber \in Seq(S)
    BY <1>1, <2>7, ConcatProperties
  <2>9. InTransit = received \o taken \o (rest \o next \o subscriber)
    <3>1. received \o (taken \o rest) = received \o taken \o rest
      <4>1. received \in Seq(S)
        BY <1>1
      <4> QED
        BY <4>1, <2>4, ConcatAssociative, SMTT(40)
    <3>2. received \o taken \in Seq(S)
      BY <1>1, <2>4, ConcatProperties
    <3>3. (received \o taken) \o rest \o next \o subscriber
            = (received \o taken) \o (rest \o next \o subscriber)
      BY <2>4, <3>2, <1>regroup
    <3> QED
      BY <2>6, <3>1, <3>3 DEF InTransit
  <2>10. InTransit' = received \o (rest \o next \o subscriber)
    <3>1. InTransit' = received \o rest \o next \o subscriber
      BY <2>1, <2>2 DEF InTransit, rest
    <3>2. received \in Seq(S) /\ rest \in Seq(S)
      BY <1>1, <2>4
    <3> QED
      BY <3>1, <3>2, <1>regroup
  <2> QED
    BY <1>1, <2>4, <2>8, <2>9, <2>10, Dropped
<1>9. CASE HandleInterrupt
  <2>1. UNCHANGED <<received, next, subscriber>>
    BY <1>9 DEF HandleInterrupt
  <2>2. CASE pc' = "exited"
    <3>1. publisher' = <<>>
      BY <1>9, <2>2 DEF HandleInterrupt
    <3>2. InTransit' = received \o back
      <4>1. InTransit' = received \o <<>> \o next \o subscriber
        BY <2>1, <3>1 DEF InTransit
      <4>2. received \o <<>> = received
        BY <1>1, ConcatEmptySeq
      <4> QED
        BY <1>1, <4>1, <4>2, ConcatAssociative
    <3> QED
      BY <1>1, <1>2, <1>5, <3>2, Dropped
  <2>3. CASE pc' # "exited"
    <3>1. publisher' = publisher
      BY <1>9, <2>3 DEF HandleInterrupt
    <3> QED
      BY <2>1, <3>1, MovedAlong DEF InTransit
  <2> QED
    BY <2>2, <2>3
\* What Send refuses and what Throw loses is what was held between the queues.
<1>10. ASSUME next' = <<>>, UNCHANGED <<received, publisher, subscriber>>
       PROVE  OrderInv'
  <2>1. front \o <<>> = front
    BY <1>2, ConcatEmptySeq
  <2>2. InTransit' = front \o subscriber
    BY <1>10, <2>1 DEF InTransit
  <2> QED
    BY <1>1, <1>2, <1>4, <2>2, Dropped
<1>11. CASE Throw
  BY <1>10, <1>11 DEF Throw, linkVars
<1>12. CASE Receive
  <2>1. /\ next' = <<Head(subscriber)>> /\ subscriber' = Tail(subscriber)
        /\ subscriber # <<>> /\ UNCHANGED <<received, publisher>>
    BY <1>12 DEF Receive, linkVars
  <2>2. next = <<>>
    <3>1. Len(next) = 0
      BY <1>12 DEF Receive, TypeOK
    <3> QED
      BY <1>1, <3>1, EmptySeq
  <2>3. next' \o subscriber' = back
    <3>1. next' \o subscriber' = subscriber
      BY <1>1, <2>1, HeadAndTail
    <3>2. <<>> \o subscriber = subscriber
      BY <1>1, ConcatEmptySeq
    <3> QED
      BY <2>2, <3>1, <3>2
  <2>4. InTransit' = front \o (next' \o subscriber')
    <3>1. next' \in Seq(S) /\ subscriber' \in Seq(S)
      BY <1>1, <2>1, HeadTailProperties
    <3>2. front \o next' \o subscriber' = front \o (next' \o subscriber')
      <4>1. front \in Seq(S)
        BY <1>2
      <4> HIDE DEF front
      <4> QED
        BY <3>1, <4>1, ConcatAssociative
    <3> QED
      BY <2>1, <3>2 DEF InTransit
  <2> QED
    BY <1>5, <2>1, <2>3, <2>4, MovedAlong
<1>13. CASE Send
  <2>1. next' = <<>> /\ UNCHANGED <<received, subscriber>>
    BY <1>13 DEF Send, linkVars
  <2>2. CASE subscribed /\ Len(publisher) < HWM
    <3>1. publisher' = publisher \o next
      BY <1>13, <2>2 DEF Send
    <3>2. received \o (publisher \o next) = front \o next
      BY <1>1, ConcatAssociative
    <3>3. (front \o next) \o <<>> = front \o next
      BY <1>2, ConcatEmptySeq
    <3>4. InTransit' = InTransit
      BY <2>1, <3>1, <3>2, <3>3 DEF InTransit
    <3> QED
      BY <3>4, MovedAlong
  <2>3. CASE ~(subscribed /\ Len(publisher) < HWM)
    BY <1>10, <1>13, <2>1, <2>3 DEF Send
  <2> QED
    BY <2>2, <2>3
<1>14. CASE CloseSockets
  <2>1. subscriber' = <<>> /\ UNCHANGED <<received, publisher, next>>
    BY <1>14 DEF CloseSockets, linkVars
  <2>2. InTransit = (front \o next) \o subscriber \o <<>>
    BY <1>3, <1>4, ConcatEmptySeq
  <2>3. InTransit' = (front \o next) \o <<>>
    BY <2>1 DEF InTransit
  <2> QED
    BY <1>1, <1>2, <2>2, <2>3, Dropped
<1>15. CASE Connect \/ Subscribe \/ LoopTest \/ Wait \/ Unpack \/ DestroyContext \/ Exit
              \/ UNCHANGED vars
  <2>1. UNCHANGED <<received, queueVars>>
    BY <1>15 DEF Connect, Subscribe, LoopTest, Wait, Unpack, DestroyContext, Exit, vars,
                 linkVars
  <2> QED
    BY <2>1, MovedAlong DEF InTransit, queueVars
<1> QED
  BY <1>6, <1>7, <1>8, <1>9, <1>11, <1>12, <1>13, <1>14, <1>15 DEF Next, Link, main

\* Through full queues, collectors that come and go, exceptions and the shutdown, no
\* message overtakes another one or is sent on twice (Message::receive, Message::send).
THEOREM RelayKeepsOrder == Spec => []RelayOrdered
<1>1. TypeOK /\ OrderInv => RelayOrdered
  BY DEF OrderInv, InOrder, Less, RelayOrdered
<1> QED
  BY TypeInit, TypeStep, OrderInit, OrderStep, <1>1, PTL DEF Spec

-----------------------------------------------------------------------------
(* Drops *)

\* A process that has ended is connected to nobody.
Ended == pc = "exited" => ~connected

LEMMA EndedInit == Init => Ended
BY DEF Init, Ended

LEMMA EndedStep == Ended /\ [Next]_vars => Ended'
<1> SUFFICES ASSUME Ended, [Next]_vars PROVE Ended'
  OBVIOUS
<1> USE DEF Ended, linkVars
<1>1. CASE UNCHANGED <<pc, connected>>
  BY <1>1
<1>2. CASE Connect \/ Disconnect \/ HandleInterrupt
  BY <1>2 DEF Connect, Disconnect, HandleInterrupt
<1>3. CASE Throw \/ main
  BY <1>3 DEF Throw, main, LoopTest, Wait, Receive, Send, Unpack, CloseSockets,
              DestroyContext, Exit
<1> QED
  BY <1>1, <1>2, <1>3 DEF Next, Link, Arrive, Subscribe, Transmit, vars

LEMMA DropStep == TypeOK /\ Ended /\ [Next]_vars => [DropHasACause]_vars
<1> SUFFICES ASSUME TypeOK, Ended, Next PROVE DropHasACause
  OBVIOUS
<1>1. /\ subscriber \in Seq(1 .. arrived) /\ next \in Seq(1 .. arrived)
      /\ publisher \in Seq(1 .. arrived) /\ received \in Seq(1 .. arrived)
  BY DEF TypeOK
\* What a step keeps is not dropped.
<1>2. ASSUME Kept' = Kept, arrived' = arrived PROVE DropHasACause
  BY <1>2 DEF DropHasACause
<1>3. CASE Arrive
  <2>1. arrived \in Nat /\ arrived' = arrived + 1
    BY <1>3 DEF Arrive, TypeOK
  <2>2. arrived' \in (1 .. arrived') \ (1 .. arrived)
    BY <2>1
  <2>3. /\ received' = received /\ publisher' = publisher /\ next' = next /\ pc' = pc
        /\ Looping' = Looping
    BY <1>3 DEF Arrive, linkVars, Looping
  <2>4. CASE Len(subscriber) < HWM
    <3>1. subscriber' = Append(subscriber, arrived')
      BY <1>3, <2>4 DEF Arrive
    <3>2. subscriber \in Seq(Nat) /\ arrived' \in Nat
      <4>1. 1 .. arrived \subseteq Nat
        OBVIOUS
      <4> QED
        BY <1>1, <2>1, <4>1, SeqMonotonic
    <3>3. ToSet(subscriber') = ToSet(subscriber) \union {arrived'}
      BY <3>1, <3>2, ToSetAppend
    <3>4. Kept' = Kept \union (IF Looping THEN {arrived'} ELSE {})
      BY <2>3, <3>3 DEF Kept
    <3> QED
      BY <2>2, <3>4 DEF DropHasACause
  <2>5. CASE ~(Len(subscriber) < HWM)
    <3>1. subscriber' = subscriber
      BY <1>3, <2>5 DEF Arrive
    <3>2. Kept' = Kept
      BY <2>3, <3>1 DEF Kept
    <3> QED
      BY <2>5, <3>2 DEF DropHasACause
  <2> QED
    BY <2>4, <2>5
<1>4. CASE Transmit
  <2>1. /\ received' = Append(received, Head(publisher)) /\ publisher' = Tail(publisher)
        /\ publisher # <<>> /\ UNCHANGED <<next, subscriber, pc, arrived>>
    BY <1>4 DEF Transmit
  <2>2. pc # "exited"
    BY <1>4 DEF Transmit, Ended
  <2>3. Head(publisher) \in 1 .. arrived
    BY <1>1, <2>1, HeadTailProperties
  <2>4. ToSet(received') = ToSet(received) \union {Head(publisher)}
    BY <1>1, <2>1, <2>3, ToSetAppend
  <2>5. ToSet(publisher) = {Head(publisher)} \union ToSet(publisher')
    BY <1>1, <2>1, ToSetHeadTail
  <2>6. Kept' = Kept
    BY <2>1, <2>2, <2>4, <2>5 DEF Kept, Looping
  <2> QED
    BY <1>2, <2>1, <2>6
<1>5. CASE Disconnect
  <2>1. PICK k \in 0 .. Len(publisher) : publisher' = SubSeq(publisher, k + 1, Len(publisher))
    BY <1>5 DEF Disconnect
  <2>2. /\ UNCHANGED <<received, next, subscriber, pc, arrived>>
        /\ connected /\ ~connected'
    BY <1>5 DEF Disconnect
  <2>3. ToSet(publisher') \subseteq ToSet(publisher)
    <3>1. Len(publisher) \in Nat
      BY <1>1, LenProperties
    <3>2. /\ Len(publisher') = Len(publisher) - k /\ DOMAIN publisher' = 1 .. Len(publisher) - k
          /\ \A i \in 1 .. Len(publisher) - k : publisher'[i] = publisher[k + i]
      BY <1>1, <2>1, <3>1
    <3>3. \A i \in 1 .. Len(publisher) - k : k + i \in 1 .. Len(publisher)
      BY <3>1
    <3>4. DOMAIN publisher = 1 .. Len(publisher)
      BY <1>1, LenProperties
    <3> QED
      BY <3>2, <3>3, <3>4 DEF ToSet
  <2>4. Kept' \subseteq Kept /\ Kept \ Kept' \subseteq ToSet(publisher)
    BY <2>2, <2>3 DEF Kept, Looping
  <2> QED
    BY <2>2, <2>4 DEF DropHasACause, DroppedFor
<1>6. CASE HandleInterrupt
  <2>1. UNCHANGED <<received, next, subscriber, arrived>>
    BY <1>6 DEF HandleInterrupt
  <2>2. CASE pc = "terminating"
    <3>1. pc' = "exited" /\ publisher' = <<>>
      BY <1>6, <2>2 DEF HandleInterrupt
    <3>2. Kept' \subseteq Kept /\ Kept \ Kept' \subseteq ToSet(publisher)
      BY <2>1, <2>2, <3>1 DEF Kept, Looping
    <3> QED
      BY <1>6, <2>1, <2>2, <3>2 DEF DropHasACause, DroppedFor
  <2>3. CASE pc # "terminating"
    <3>1. /\ publisher' = publisher /\ pc' # "exited" /\ pc # "exited"
          /\ pc' = pc \/ (pc = "waiting" /\ pc' = "test")
      BY <1>6, <2>3 DEF HandleInterrupt
    <3>2. Kept' = Kept
      BY <2>1, <3>1 DEF Kept, Looping
    <3> QED
      BY <1>2, <2>1, <3>2
  <2> QED
    BY <2>2, <2>3
<1>7. CASE Throw
  <2>1. /\ next' = <<>> /\ g_done' = TRUE /\ pc' = "test" /\ pc \in {"send", "print"}
        /\ UNCHANGED <<received, publisher, subscriber, arrived>>
    BY <1>7 DEF Throw, linkVars
  <2>2. Kept' \subseteq Kept /\ Kept \ Kept' \subseteq ToSet(next)
    BY <2>1, ToSetOfEmpty DEF Kept, Looping
  <2> QED
    BY <2>1, <2>2 DEF DropHasACause, DroppedFor
<1>8. CASE LoopTest
  <2>1. UNCHANGED <<received, publisher, next, subscriber, g_done, arrived>> /\ pc = "test"
    BY <1>8 DEF LoopTest, queueVars, linkVars
  <2>2. CASE ~g_done
    <3>1. Kept' = Kept
      BY <1>8, <2>1, <2>2 DEF LoopTest, Kept, Looping
    <3> QED
      BY <1>2, <2>1, <3>1
  <2>3. CASE g_done
    <3>1. pc' = "close"
      BY <1>8, <2>3 DEF LoopTest
    <3>2. next = <<>>
      <4>1. Len(next) = 0
        BY <2>1 DEF TypeOK
      <4> QED
        BY <1>1, <4>1, EmptySeq
    <3>3. Kept' \subseteq Kept /\ Kept \ Kept' \subseteq ToSet(subscriber)
      BY <2>1, <3>1, <3>2, ToSetOfEmpty DEF Kept, Looping
    <3> QED
      BY <2>1, <2>3, <3>1, <3>3 DEF DropHasACause, DroppedFor
  <2> QED
    BY <2>2, <2>3
<1>9. CASE Receive
  <2>1. /\ next' = <<Head(subscriber)>> /\ subscriber' = Tail(subscriber)
        /\ subscriber # <<>> /\ pc \in {"receive", "waiting"} /\ pc' = "send"
        /\ UNCHANGED <<received, publisher, arrived>>
    BY <1>9 DEF Receive, linkVars
  <2>2. next = <<>>
    <3>1. Len(next) = 0
      BY <2>1 DEF TypeOK
    <3> QED
      BY <1>1, <3>1, EmptySeq
  <2>3. ToSet(subscriber) = {Head(subscriber)} \union ToSet(subscriber')
    BY <1>1, <2>1, ToSetHeadTail
  <2>4. ToSet(next') = {Head(subscriber)} /\ ToSet(next) = {}
    BY <2>1, <2>2, ToSetSingle, ToSetOfEmpty
  <2>5. Kept' = Kept
    BY <2>1, <2>3, <2>4 DEF Kept, Looping
  <2> QED
    BY <1>2, <2>1, <2>5
<1>10. CASE Send
  <2>1. /\ next' = <<>> /\ pc = "send" /\ pc' = "print"
        /\ UNCHANGED <<received, subscriber, arrived>>
    BY <1>10 DEF Send, linkVars
  <2>2. ToSet(next') = {}
    BY <2>1, ToSetOfEmpty
  <2>3. CASE subscribed /\ Len(publisher) < HWM
    <3>1. publisher' = publisher \o next
      BY <1>10, <2>3 DEF Send
    <3>2. ToSet(publisher') = ToSet(publisher) \union ToSet(next)
      <4>1. publisher \in Seq(1 .. arrived) /\ next \in Seq(1 .. arrived)
        BY <1>1
      <4> QED
        BY <3>1, <4>1, ToSetConcat
    <3>3. Kept' = Kept
      BY <2>1, <2>2, <3>2 DEF Kept, Looping
    <3> QED
      BY <1>2, <2>1, <3>3
  <2>4. CASE ~(subscribed /\ Len(publisher) < HWM)
    <3>1. publisher' = publisher
      BY <1>10, <2>4 DEF Send
    <3>2. ~subscribed \/ Len(publisher) = HWM
      <4>1. Len(publisher) \in Nat /\ HWM \in Nat /\ Len(publisher) <= HWM
        BY <1>1, LenProperties, HWMAssumption DEF TypeOK
      <4> QED
        BY <2>4, <4>1
    <3>3. Kept' \subseteq Kept /\ Kept \ Kept' \subseteq ToSet(next)
      BY <2>1, <2>2, <3>1 DEF Kept, Looping
    <3> QED
      BY <2>1, <3>2, <3>3 DEF DropHasACause, DroppedFor
  <2> QED
    BY <2>3, <2>4
<1>11. CASE CloseSockets
  <2>1. /\ pc = "close" /\ pc' = "destroy" /\ UNCHANGED <<received, publisher, arrived>>
    BY <1>11 DEF CloseSockets, linkVars
  <2>2. Kept' = Kept
    BY <2>1 DEF Kept, Looping
  <2> QED
    BY <1>2, <2>1, <2>2
<1>12. CASE Exit
  <2>1. /\ pc = "terminating" /\ pc' = "exited" /\ publisher = <<>>
        /\ UNCHANGED <<received, publisher, arrived>>
    BY <1>12 DEF Exit, queueVars
  <2>2. Kept' = Kept
    BY <2>1, ToSetOfEmpty DEF Kept, Looping
  <2> QED
    BY <1>2, <2>1, <2>2
<1>13. CASE Connect \/ Subscribe
  <2>1. UNCHANGED <<received, queueVars, pc, arrived>>
    BY <1>13 DEF Connect, Subscribe
  <2>2. Kept' = Kept
    BY <2>1 DEF Kept, Looping, queueVars
  <2> QED
    BY <1>2, <2>1, <2>2
<1>14. CASE Wait \/ Unpack \/ DestroyContext
  <2>1. /\ UNCHANGED <<received, queueVars, arrived>>
        /\ pc # "exited" /\ pc' # "exited" /\ Looping' = Looping
    BY <1>14 DEF Wait, Unpack, DestroyContext, linkVars, Looping
  <2>2. Kept' = Kept
    BY <2>1 DEF Kept, queueVars
  <2> QED
    BY <1>2, <2>1, <2>2
<1> QED
  BY <1>3, <1>4, <1>5, <1>6, <1>7, <1>8, <1>9, <1>10, <1>11, <1>12, <1>13, <1>14
  DEF Next, Link, main

\* A message is dropped by a full or unsubscribed socket, by a throw before it is sent
\* on, by a broken connection, by the end of the loop before it is received, or by a
\* signal during zmq_ctx_destroy, and at no other step of main(): above all not by
\* zmq_close or by the exit.
THEOREM RelayAccountsForAll == Spec => DropsHaveACause
BY TypeInit, TypeStep, EndedInit, EndedStep, DropStep, PTL DEF Spec, DropsHaveACause

-----------------------------------------------------------------------------
(* After an interrupt *)

\* After an interrupt the flag is set, and when a message has been sent on since,
\* main() is past the send and has only the test of the flag before it.
StopInv ==
  /\ late \in {0, 1}
  /\ interrupted => g_done
  /\ late = 1 => interrupted /\ pc \notin {"receive", "waiting", "send"}

LEMMA StopInvInit == Init => StopInv
  BY DEF Init, StopInv

LEMMA StopInvStep == StopInv /\ [Next]_vars => StopInv'
<1> SUFFICES ASSUME StopInv, [Next]_vars PROVE StopInv'
  OBVIOUS
<1> USE DEF StopInv
<1>1. CASE Arrive
  BY <1>1 DEF Arrive, linkVars, history
<1>2. CASE Connect
  BY <1>2 DEF Connect, queueVars, history
<1>3. CASE Disconnect
  BY <1>3 DEF Disconnect, history
<1>4. CASE Link
  BY <1>4 DEF Link, Subscribe, Transmit, queueVars, history
<1>5. CASE HandleInterrupt
  <2>1. g_done' /\ late' = late
    BY <1>5 DEF HandleInterrupt
  <2>2. pc' \in {pc, "test", "exited"}
    BY <1>5 DEF HandleInterrupt
  <2>3. interrupted'
    BY <1>5 DEF HandleInterrupt
  <2> QED
    BY <2>1, <2>2, <2>3
<1>6. CASE Throw
  BY <1>6 DEF Throw, history
<1>7. CASE main
  <2>1. CASE LoopTest
    BY <2>1 DEF LoopTest, history
  <2>2. CASE Wait
    BY <2>2 DEF Wait, history
  <2>3. CASE Receive
    BY <2>3 DEF Receive, history
  \* The one step that counts: before it nothing has been counted.
  <2>4. CASE Send
    <3>1. late = 0
      BY <2>4 DEF Send
    <3>2. late' = IF interrupted THEN 1 ELSE 0
      BY <2>4, <3>1 DEF Send
    <3> QED
      BY <2>4, <3>2 DEF Send
  <2>5. CASE Unpack
    BY <2>5 DEF Unpack, history
  <2>6. CASE CloseSockets
    BY <2>6 DEF CloseSockets, history
  <2>7. CASE DestroyContext
    BY <2>7 DEF DestroyContext, history
  <2>8. CASE Exit
    BY <2>8 DEF Exit, history
  <2> QED
    BY <1>7, <2>1, <2>2, <2>3, <2>4, <2>5, <2>6, <2>7, <2>8 DEF main
<1>8. CASE UNCHANGED vars
  BY <1>8 DEF vars, history
<1> QED
  BY <1>1, <1>2, <1>3, <1>4, <1>5, <1>6, <1>7, <1>8 DEF Next

\* Whatever the size of the queues and however many messages come, a relay that was
\* told to stop (handle_interrupt) sends at most one more message.
THEOREM OneMoreAtMost == Spec => []AtMostOneMore
<1>1. StopInv => AtMostOneMore
  BY DEF StopInv, AtMostOneMore
<1> QED
  BY StopInvInit, StopInvStep, <1>1, PTL DEF Spec

=============================================================================
