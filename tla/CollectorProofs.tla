--------------------------- MODULE CollectorProofs ---------------------------
(***************************************************************************)
(* The collector, for queues, buffers and pipes of any size and any number *)
(* of messages: types, order, what is lost where, and what is left in the  *)
(* stdio buffer.                                                           *)
(***************************************************************************)
EXTENDS Collector, OrderLemmas

-----------------------------------------------------------------------------
(* Types and control *)

\* The messages there have been so far, and the lines made of them.
Arrived == [n : 1 .. arrived, kind : Kind]
ArrivedLine == [n : 1 .. arrived, i : 1 .. LinesPerUpdate,
                kind : {"servers", "term_instance"}]

QueueTypes ==
  /\ subscriber \in Seq(Arrived) /\ Len(subscriber) <= HWM
  /\ next \in Seq(Arrived) /\ Len(next) <= 1
  /\ sock \in Seq(Arrived) /\ Len(sock) <= HWM

LineTypes ==
  /\ todo \in Seq(ArrivedLine)
  /\ buffer \in Seq(ArrivedLine) /\ Len(buffer) <= BufferSize
  /\ pipe \in Seq(ArrivedLine) /\ Len(pipe) <= PipeSize
  /\ done \in Seq(ArrivedLine)

ControlTypes ==
  /\ arrived \in 0 .. MaxMessages
  /\ mainPc \in {"receive", "send", "terminate", "join", "destroy", "pclose",
                 "exited", "killed"}
  /\ m_shutdown \in BOOLEAN
  /\ sigpipe \in {"default", "ignored"}
  /\ subscribed \in BOOLEAN
  /\ sockOpen \in BOOLEAN
  /\ updaterPc \in {"popen", "poll", "print", "flush", "returned", "killed"}
  /\ child \in {"none", "running", "raised", "ended"}

\* What a thread holds at which of its statements.
Holds ==
  /\ mainPc = "send" => next # <<>>
  /\ mainPc \notin {"send", "killed"} => next = <<>>
  /\ updaterPc = "print" => todo # <<>>
  /\ updaterPc \in {"popen", "poll", "returned"} => todo = <<>>
  /\ updaterPc = "popen" => child = "none"

TypeInv == QueueTypes /\ LineTypes /\ ControlTypes /\ Holds

LEMMA TypeInvGivesTypeOK == TypeInv => TypeOK
<1> SUFFICES ASSUME TypeInv PROVE TypeOK
  OBVIOUS
<1>1. arrived \in Nat
  BY BoundAssumption DEF TypeInv, ControlTypes
<1>2. Arrived \subseteq Message /\ ArrivedLine \subseteq Line
  BY <1>1 DEF Arrived, ArrivedLine, Message, Line
<1>3. /\ subscriber \in Seq(Message) /\ next \in Seq(Message) /\ sock \in Seq(Message)
      /\ todo \in Seq(Line) /\ buffer \in Seq(Line) /\ pipe \in Seq(Line) /\ done \in Seq(Line)
  BY <1>2, SeqMonotonic DEF TypeInv, QueueTypes, LineTypes
<1> QED
  BY <1>3 DEF TypeInv, QueueTypes, LineTypes, ControlTypes, Holds, TypeOK

LEMMA LinesType ==
  ASSUME NEW m \in Arrived
  PROVE  /\ Lines(m) \in Seq(ArrivedLine)
         /\ \A l \in ToSet(Lines(m)) : l.n = m.n
<1>1. m.n \in 1 .. arrived /\ m.kind \in Kind
  BY DEF Arrived
<1>2. /\ LineCount(m.kind) \in 0 .. LinesPerUpdate
      /\ m.kind = "no_domains" => LineCount(m.kind) = 0
  BY <1>1, SizeAssumption DEF LineCount, Kind
<1> DEFINE count == LineCount(m.kind)
<1>3. /\ count \in Nat /\ 1 .. count \subseteq 1 .. LinesPerUpdate
      /\ \A i \in 1 .. count : m.kind \in {"servers", "term_instance"}
  BY <1>1, <1>2, SizeAssumption DEF Kind
<1> HIDE DEF count
<1>4. Lines(m) = [i \in 1 .. count |-> [n |-> m.n, i |-> i, kind |-> m.kind]]
  BY DEF Lines, count
<1>5. Lines(m) \in [1 .. count -> ArrivedLine]
  BY <1>1, <1>3, <1>4 DEF ArrivedLine
<1>6. Lines(m) \in Seq(ArrivedLine)
  BY <1>3, <1>5, SeqDef
<1> QED
  BY <1>4, <1>6 DEF ToSet

LEMMA TypeInit == Init => TypeInv
<1> SUFFICES ASSUME Init PROVE TypeInv
  OBVIOUS
<1>1. \A S : <<>> \in Seq(S) /\ Len(<<>>) = 0
  BY EmptySeq
<1>2. 0 <= HWM /\ 0 <= BufferSize /\ 0 <= PipeSize
  BY SizeAssumption
<1>3. QueueTypes
  BY <1>1, <1>2 DEF Init, QueueTypes
<1>4. LineTypes
  BY <1>1, <1>2 DEF Init, LineTypes
<1>5. ControlTypes
  <2>1. arrived \in 0 .. MaxMessages /\ sigpipe \in {"default", "ignored"}
    BY BoundAssumption DEF Init
  <2>2. /\ m_shutdown = FALSE /\ subscribed = FALSE /\ sockOpen = FALSE
        /\ mainPc = "receive" /\ updaterPc = "popen" /\ child = "none"
    BY DEF Init
  <2> QED
    BY <2>1, <2>2 DEF ControlTypes
<1>6. Holds
  BY DEF Init, Holds
<1> QED
  BY <1>3, <1>4, <1>5, <1>6 DEF TypeInv

LEMMA TypeStep == TypeInv /\ [Next]_vars => TypeInv'
<1> SUFFICES ASSUME TypeInv, [Next]_vars PROVE TypeInv'
  OBVIOUS
<1> USE DEF TypeInv, messageVars, mainVars, relayVars, updaterVars, childVars
<1>1. /\ HWM \in Nat /\ BufferSize \in Nat /\ PipeSize \in Nat /\ arrived \in Nat
      /\ Len(subscriber) \in Nat /\ Len(next) \in Nat /\ Len(sock) \in Nat
      /\ Len(buffer) \in Nat /\ Len(pipe) \in Nat
  BY SizeAssumption, BoundAssumption, LenProperties DEF QueueTypes, LineTypes, ControlTypes
\* The sets of messages and lines grow with Arrive only.
<1>2. ASSUME arrived' = arrived PROVE Arrived' = Arrived /\ ArrivedLine' = ArrivedLine
  BY <1>2 DEF Arrived, ArrivedLine
<1>3. CASE Arrive
  <2>1. arrived' = arrived + 1 /\ arrived' \in 0 .. MaxMessages
    BY <1>1, <1>3, BoundAssumption DEF Arrive
  <2>2. Arrived \subseteq Arrived' /\ ArrivedLine \subseteq ArrivedLine'
    BY <1>1, <2>1 DEF Arrived, ArrivedLine
  <2>3. /\ \A s \in Seq(Arrived) : s \in Seq(Arrived')
        /\ \A s \in Seq(ArrivedLine) : s \in Seq(ArrivedLine')
    BY <2>2, SeqMonotonic
  <2>4. PICK kind \in Kind :
          IF Len(subscriber) < HWM
          THEN subscriber' = Append(subscriber, [n |-> arrived', kind |-> kind])
          ELSE UNCHANGED subscriber
    BY <1>3 DEF Arrive
  <2>5. UNCHANGED <<mainVars, relayVars, updaterVars, buffer, pipe, childVars>>
    BY <1>3 DEF Arrive
  <2>6. subscriber' \in Seq(Arrived') /\ Len(subscriber') <= HWM
    <3>1. CASE Len(subscriber) < HWM
      <4>1. [n |-> arrived', kind |-> kind] \in Arrived'
        BY <1>1, <2>1 DEF Arrived
      <4>2. subscriber \in Seq(Arrived')
        BY <2>3 DEF QueueTypes
      <4>3. subscriber' = Append(subscriber, [n |-> arrived', kind |-> kind])
        BY <2>4, <3>1
      <4> QED
        BY <1>1, <3>1, <4>1, <4>2, <4>3, AppendProperties
    <3>2. CASE ~(Len(subscriber) < HWM)
      BY <2>3, <2>4, <3>2 DEF QueueTypes
    <3> QED
      BY <3>1, <3>2
  <2>8. QueueTypes'
    BY <2>3, <2>5, <2>6 DEF QueueTypes
  <2>9. LineTypes'
    BY <2>3, <2>5 DEF LineTypes
  <2>10. ControlTypes'
    BY <2>1, <2>5 DEF ControlTypes
  <2>11. Holds'
    BY <2>5 DEF Holds
  <2> QED
    BY <2>8, <2>9, <2>10, <2>11
\* The process dies: nothing else happens.
<1>4. ASSUME Die PROVE TypeInv'
  BY <1>2, <1>4 DEF Die, QueueTypes, LineTypes, ControlTypes, Holds
<1>5. CASE Interrupt
  BY <1>4, <1>5 DEF Interrupt
<1>6. ASSUME subscriber # <<>>
      PROVE  /\ Head(subscriber) \in Arrived /\ Tail(subscriber) \in Seq(Arrived)
             /\ Len(Tail(subscriber)) = Len(subscriber) - 1
  BY <1>6, HeadTailProperties DEF QueueTypes
<1>7. CASE Receive
  <2>1. UNCHANGED <<arrived, m_shutdown, sigpipe, relayVars, updaterVars, buffer, pipe, childVars>>
    BY <1>7 DEF Receive
  <2>2. <<Head(subscriber)>> \in Seq(Arrived) /\ Len(<<Head(subscriber)>>) = 1
    BY <1>6, <1>7 DEF Receive
  <2>3. QueueTypes'
    <3>1. subscriber' \in Seq(Arrived) /\ Len(subscriber') <= HWM
      BY <1>1, <1>6, <1>7 DEF Receive, QueueTypes
    <3>2. next' \in Seq(Arrived) /\ Len(next') <= 1
      BY <1>7, <2>2 DEF Receive
    <3> QED
      BY <1>2, <2>1, <3>1, <3>2 DEF QueueTypes
  <2>4. LineTypes'
    BY <1>2, <2>1 DEF LineTypes
  <2>5. ControlTypes'
    BY <1>7, <2>1 DEF Receive, ControlTypes
  <2>6. Holds'
    BY <1>7, <2>1 DEF Receive, Holds
  <2> QED
    BY <2>3, <2>4, <2>5, <2>6
<1>8. CASE ReceiveError
  <2>1. /\ UNCHANGED <<arrived, next, m_shutdown, sigpipe, relayVars, updaterVars, buffer,
                        pipe, childVars>>
        /\ mainPc = "receive" /\ mainPc' = "terminate"
    BY <1>8 DEF ReceiveError
  <2>2. CASE UNCHANGED subscriber
    BY <1>2, <2>1, <2>2 DEF QueueTypes, LineTypes, ControlTypes, Holds
  <2>3. CASE subscriber # <<>> /\ subscriber' = Tail(subscriber)
    <3>1. subscriber' \in Seq(Arrived) /\ Len(subscriber') <= HWM
      BY <1>1, <1>6, <2>3 DEF QueueTypes
    <3>2. QueueTypes' /\ LineTypes'
      BY <1>2, <2>1, <3>1 DEF QueueTypes, LineTypes
    <3> QED
      BY <2>1, <3>2 DEF ControlTypes, Holds
  <2> QED
    BY <1>8, <2>2, <2>3 DEF ReceiveError
<1>9. CASE Send
  <2>1. /\ UNCHANGED <<messageVars, m_shutdown, sigpipe, subscribed, updaterVars, buffer, pipe,
                        childVars>>
        /\ mainPc = "send" /\ mainPc' = "receive" /\ next' = <<>>
    BY <1>9 DEF Send
  <2>2. Len(next) = 1 /\ next[1] \in Arrived
    <3>1. Len(next) \in Nat \ {0}
      BY <2>1, EmptySeq DEF QueueTypes, Holds
    <3>2. Len(next) <= 1
      BY DEF QueueTypes
    <3>3. next \in Seq(Arrived)
      BY DEF QueueTypes
    <3>4. Len(next) = 1 /\ 1 \in 1 .. Len(next)
      <4>1. \A k \in Nat \ {0} : k <= 1 => k = 1 /\ 1 \in 1 .. k
        OBVIOUS
      <4> QED
        BY <3>1, <3>2, <4>1
    <3> QED
      BY <3>3, <3>4, ElementOfSeq
  <2>3. sock' \in Seq(Arrived) /\ Len(sock') <= HWM
    <3>1. CASE subscribed /\ Len(sock) < HWM
      <4>1. sock' = sock \o next
        BY <1>9, <3>1 DEF Send
      <4>2. sock \o next \in Seq(Arrived) /\ Len(sock \o next) = Len(sock) + 1
        <5>1. sock \in Seq(Arrived) /\ next \in Seq(Arrived)
          BY DEF QueueTypes
        <5> QED
          BY <2>2, <5>1, ConcatProperties
      <4>3. Len(sock) + 1 <= HWM
        BY <1>1, <3>1
      <4> QED
        BY <4>1, <4>2, <4>3
    <3>2. CASE ~(subscribed /\ Len(sock) < HWM)
      BY <1>9, <3>2 DEF Send, QueueTypes
    <3> QED
      BY <3>1, <3>2
  <2>5. next' \in Seq(Arrived) /\ Len(next') <= 1
    BY <2>1, EmptySeq
  <2>6. QueueTypes'
    BY <1>2, <2>1, <2>3, <2>5 DEF QueueTypes
  <2>7. LineTypes'
    BY <1>2, <2>1 DEF LineTypes
  <2>8. ControlTypes'
    BY <2>1 DEF ControlTypes
  <2>9. Holds'
    BY <2>1 DEF Holds
  <2> QED
    BY <2>6, <2>7, <2>8, <2>9
<1>10. CASE Terminate \/ Join \/ (\E interrupted \in BOOLEAN : DestroyContext(interrupted)) \/ Exit
  <2>1. /\ UNCHANGED <<messageVars, next, sigpipe, relayVars, updaterVars, buffer, pipe, childVars>>
        /\ mainPc # "send" /\ mainPc # "killed"
        /\ mainPc' \in {"join", "destroy", "pclose", "exited"} /\ m_shutdown' \in BOOLEAN
    BY <1>10 DEF Terminate, Join, DestroyContext, Exit, ControlTypes
  <2>2. QueueTypes' /\ LineTypes'
    BY <1>2, <2>1 DEF QueueTypes, LineTypes
  <2>3. ControlTypes' /\ Holds'
    BY <2>1 DEF ControlTypes, Holds
  <2> QED
    BY <2>2, <2>3
<1>11. CASE Run
  <2>1. CASE Die
    BY <1>4, <2>1
  <2>2. CASE ~Die
    <3>1. /\ updaterPc = "popen" /\ child' = "running" /\ sockOpen' = TRUE /\ updaterPc' = "poll"
          /\ UNCHANGED <<messageVars, mainVars, relayVars, todo, buffer, pipe, done>>
      BY <1>11, <2>2 DEF Run
    <3>2. QueueTypes' /\ LineTypes'
      BY <1>2, <3>1 DEF QueueTypes, LineTypes
    <3>3. ControlTypes' /\ Holds'
      BY <3>1 DEF ControlTypes, Holds
    <3> QED
      BY <3>2, <3>3
  <2> QED
    BY <2>1, <2>2
<1>12. CASE Subscribe
  BY <1>2, <1>12 DEF Subscribe, QueueTypes, LineTypes, ControlTypes, Holds
<1>13. CASE Poll
  <2>1. /\ UNCHANGED <<messageVars, mainVars, subscribed, sockOpen, buffer, pipe, childVars>>
        /\ updaterPc' = NextLine(todo')
        /\ sock # <<>> /\ sock' = Tail(sock) /\ todo' = Lines(Head(sock))
    BY <1>13 DEF Poll
  <2>2. /\ Head(sock) \in Arrived /\ sock' \in Seq(Arrived)
        /\ Len(sock') = Len(sock) - 1
    BY <2>1, HeadTailProperties DEF QueueTypes
  <2>3. /\ todo' \in Seq(ArrivedLine)
        /\ updaterPc' \in {"print", "poll"}
        /\ updaterPc' = "print" => todo' # <<>>
        /\ updaterPc' = "poll" => todo' = <<>>
    BY <2>1, <2>2, LinesType DEF NextLine
  <2>4. QueueTypes'
    BY <1>1, <1>2, <2>1, <2>2 DEF QueueTypes
  <2>5. LineTypes'
    BY <1>2, <2>1, <2>3 DEF LineTypes
  <2>6. ControlTypes' /\ Holds'
    BY <2>1, <2>3 DEF ControlTypes, Holds
  <2> QED
    BY <2>4, <2>5, <2>6
<1>14. CASE Return
  BY <1>2, <1>14 DEF Return, QueueTypes, LineTypes, ControlTypes, Holds
<1>15. CASE PrintLine
  <2>1. /\ UNCHANGED <<messageVars, mainVars, relayVars, sockOpen, pipe, childVars>>
        /\ updaterPc = "print" /\ Len(buffer) < BufferSize
        /\ buffer' = Append(buffer, Head(todo)) /\ todo' = Tail(todo)
    BY <1>15 DEF PrintLine
  <2>2. /\ Head(todo) \in ArrivedLine /\ todo' \in Seq(ArrivedLine)
    BY <2>1, HeadTailProperties DEF LineTypes, Holds
  <2>3. buffer' \in Seq(ArrivedLine) /\ Len(buffer') = Len(buffer) + 1
    BY <2>1, <2>2, AppendProperties DEF LineTypes
  <2>4. /\ updaterPc' \in {"flush", "poll", "print"}
        /\ updaterPc' = "print" => todo' # <<>>
        /\ updaterPc' = "poll" => todo' = <<>>
    BY <1>15 DEF PrintLine, NextLine
  <2>5. QueueTypes' /\ LineTypes'
    BY <1>1, <1>2, <2>1, <2>2, <2>3 DEF QueueTypes, LineTypes
  <2>6. ControlTypes' /\ Holds'
    BY <2>1, <2>4 DEF ControlTypes, Holds
  <2> QED
    BY <2>5, <2>6
<1>16. CASE MakeRoom
  BY <1>2, <1>16 DEF MakeRoom, QueueTypes, LineTypes, ControlTypes, Holds
<1>17. ASSUME WriteLine PROVE TypeInv'
  <2>1. CASE Die
    BY <1>4, <2>1
  <2>2. CASE /\ buffer # <<>> /\ Len(pipe) < PipeSize
             /\ pipe' = Append(pipe, Head(buffer)) /\ buffer' = Tail(buffer)
             /\ Written
             /\ UNCHANGED <<messageVars, mainVars, relayVars, sockOpen, todo, childVars>>
    <3>1. /\ Head(buffer) \in ArrivedLine /\ buffer' \in Seq(ArrivedLine)
          /\ Len(buffer') = Len(buffer) - 1
      BY <2>2, HeadTailProperties DEF LineTypes
    <3>2. pipe' \in Seq(ArrivedLine) /\ Len(pipe') = Len(pipe) + 1
      BY <2>2, <3>1, AppendProperties DEF LineTypes
    <3>3. Len(pipe') <= PipeSize
      BY <1>1, <2>2, <3>2
    <3>4. QueueTypes' /\ LineTypes'
      BY <1>1, <1>2, <2>2, <3>1, <3>2, <3>3 DEF QueueTypes, LineTypes
    <3>5. ControlTypes' /\ Holds'
      BY <2>2 DEF ControlTypes, Holds, Written, NextLine
    <3> QED
      BY <3>4, <3>5
  <2>3. CASE /\ buffer' = <<>>
             /\ Written
             /\ UNCHANGED <<messageVars, mainVars, relayVars, sockOpen, todo, pipe, childVars>>
    <3>1. buffer' \in Seq(ArrivedLine) /\ Len(buffer') <= BufferSize
      BY <1>1, <2>3, EmptySeq
    <3>2. QueueTypes' /\ LineTypes'
      BY <1>2, <2>3, <3>1 DEF QueueTypes, LineTypes
    <3>3. ControlTypes' /\ Holds'
      BY <2>3 DEF ControlTypes, Holds, Written, NextLine
    <3> QED
      BY <3>2, <3>3
  <2> QED
    BY <1>17, <2>1, <2>2, <2>3 DEF WriteLine
<1>18. CASE ProcessCmd
  <2>1. /\ UNCHANGED <<messageVars, mainVars, relayVars, updaterVars, buffer>>
        /\ child = "running" /\ pipe # <<>> /\ pipe' = Tail(pipe)
        /\ \/ done' = Append(done, Head(pipe)) /\ child' = child
           \/ done' = done /\ child' = "raised"
    BY <1>18 DEF ProcessCmd, UpdateFile, TerminateInstance
  <2>2. /\ Head(pipe) \in ArrivedLine /\ pipe' \in Seq(ArrivedLine)
        /\ Len(pipe') = Len(pipe) - 1
    BY <2>1, HeadTailProperties DEF LineTypes
  <2>3. done' \in Seq(ArrivedLine)
    <3>1. done \in Seq(ArrivedLine)
      BY DEF LineTypes
    <3>2. Append(done, Head(pipe)) \in Seq(ArrivedLine)
      BY <2>2, <3>1, AppendProperties
    <3> QED
      BY <2>1, <3>1, <3>2
  <2>4. QueueTypes' /\ LineTypes'
    BY <1>1, <1>2, <2>1, <2>2, <2>3 DEF QueueTypes, LineTypes
  <2>5. ControlTypes' /\ Holds'
    BY <2>1 DEF ControlTypes, Holds
  <2> QED
    BY <2>4, <2>5
<1>19. CASE EndChild
  BY <1>2, <1>19 DEF EndChild, QueueTypes, LineTypes, ControlTypes, Holds
<1>20. CASE UNCHANGED vars
  BY <1>2, <1>20 DEF vars, QueueTypes, LineTypes, ControlTypes, Holds
<1> QED
  BY <1>3, <1>5, <1>7, <1>8, <1>9, <1>10, <1>11, <1>12, <1>13, <1>14, <1>15, <1>16, <1>17,
     <1>18, <1>19, <1>20
  DEF Next, MainThread, UpdaterThread, Child, Flush, FlushOnClose

\* The queues, the stdio buffer and the pipe respect their capacity, whatever it is,
\* and the threads hold a message or a line where they use one (receive and send in
\* main(), update_immediate()).
THEOREM CollectorTypes == Spec => []TypeOK
BY TypeInit, TypeStep, TypeInvGivesTypeOK, PTL DEF Spec

-----------------------------------------------------------------------------
(* What a step does to the messages and lines under way, taken as a whole. *)

Rests == UNCHANGED <<Lined, Unread, arrived>>

Arrives ==
  /\ arrived' = arrived + 1
  /\ \E m \in Arrived' : m.n = arrived' /\ Unread' = Append(Unread, m)
  /\ UNCHANGED Lined

Refused ==
  /\ arrived' = arrived + 1
  /\ UNCHANGED <<Lined, Unread>>

Loses ==
  /\ \E a \in Seq(Arrived), b \in Seq(Arrived), m \in Arrived :
       /\ Unread = a \o <<m>> \o b
       /\ Unread' = a \o b
  /\ UNCHANGED <<Lined, arrived>>

MakesLines ==
  /\ \E m \in Arrived :
       /\ Unread' \in Seq(Arrived)
       /\ Unread = <<m>> \o Unread'
       /\ Lined' = Lined \o Lines(m)
  /\ UNCHANGED arrived

\* The line at which the child raises, or the buffer that cannot be written.
LosesLines ==
  /\ \E a \in Seq(ArrivedLine), c \in Seq(ArrivedLine), b \in Seq(ArrivedLine) :
       Lined = a \o c \o b /\ Lined' = a \o b
  /\ UNCHANGED <<Unread, arrived>>

LEMMA FlowTypes ==
  TypeInv => /\ Unread \in Seq(Arrived) /\ sock \o next \in Seq(Arrived)
             /\ Lined \in Seq(ArrivedLine) /\ done \o pipe \in Seq(ArrivedLine)
             /\ done \o pipe \o buffer \in Seq(ArrivedLine)
<1> SUFFICES ASSUME TypeInv
             PROVE  /\ Unread \in Seq(Arrived) /\ sock \o next \in Seq(Arrived)
                    /\ Lined \in Seq(ArrivedLine) /\ done \o pipe \in Seq(ArrivedLine)
                    /\ done \o pipe \o buffer \in Seq(ArrivedLine)
  OBVIOUS
<1>1. sock \o next \in Seq(Arrived)
  BY ConcatProperties DEF TypeInv, QueueTypes
<1>2. Unread \in Seq(Arrived)
  BY <1>1, ConcatProperties DEF Unread, TypeInv, QueueTypes
<1>3. done \o pipe \in Seq(ArrivedLine)
  BY ConcatProperties DEF TypeInv, LineTypes
<1>4. (done \o pipe) \o buffer \in Seq(ArrivedLine)
  <2>1. buffer \in Seq(ArrivedLine)
    BY DEF TypeInv, LineTypes
  <2> QED
    BY <1>3, <2>1, ConcatProperties
<1>5. Lined \in Seq(ArrivedLine)
  <2>1. todo \in Seq(ArrivedLine)
    BY DEF TypeInv, LineTypes
  <2> QED
    BY <1>4, <2>1, ConcatProperties DEF Lined
<1> QED
  BY <1>1, <1>2, <1>3, <1>4, <1>5

\* A line goes from the buffer to the pipe, the buffer is forgotten, or the process
\* dies.
LEMMA WritingMovesAlong == TypeInv /\ WriteLine => Rests \/ LosesLines
<1> SUFFICES ASSUME TypeInv, WriteLine PROVE Rests \/ LosesLines
  OBVIOUS
<1> USE DEF messageVars, mainVars, relayVars, updaterVars, childVars
<1>1. /\ pipe \in Seq(ArrivedLine) /\ buffer \in Seq(ArrivedLine)
      /\ done \in Seq(ArrivedLine) /\ todo \in Seq(ArrivedLine)
  BY DEF TypeInv, LineTypes
<1>2. CASE Die
  BY <1>2 DEF Die, Rests, Lined, Unread
<1>3. CASE /\ buffer # <<>> /\ pipe' = Append(pipe, Head(buffer)) /\ buffer' = Tail(buffer)
           /\ UNCHANGED <<messageVars, mainVars, relayVars, todo, done>>
  <2>1. pipe \in Seq(ArrivedLine) /\ buffer \in Seq(ArrivedLine)
    BY <1>1
  <2>2. pipe' \o buffer' = pipe \o buffer
    BY <1>3, <2>1, HeadMoves
  <2>3. pipe' \in Seq(ArrivedLine) /\ buffer' \in Seq(ArrivedLine)
    BY <1>3, <2>1, HeadTailProperties, AppendProperties
  <2>4. done \in Seq(ArrivedLine)
    BY <1>1
  <2>5. done \o pipe' \o buffer' = done \o (pipe' \o buffer')
    BY <2>3, <2>4, ConcatAssociative
  <2>6. done \o pipe \o buffer = done \o (pipe \o buffer)
    BY <2>1, <2>4, ConcatAssociative
  <2>7. done' = done /\ todo' = todo
    BY <1>3
  <2>8. Lined' = Lined
    BY <2>2, <2>5, <2>6, <2>7 DEF Lined
  <2> QED
    BY <1>3, <2>8 DEF Rests, Unread
<1>4. CASE buffer' = <<>> /\ UNCHANGED <<messageVars, mainVars, relayVars, todo, pipe, done>>
  <2> DEFINE front == done \o pipe
  <2>1. front \in Seq(ArrivedLine)
    BY FlowTypes
  <2>2. Lined = front \o buffer \o todo
    BY DEF Lined
  <2>3. Lined' = front \o <<>> \o todo
    BY <1>4 DEF Lined
  <2> HIDE DEF front
  <2>4. front \o <<>> = front
    BY <2>1, ConcatEmptySeq
  <2>5. Lined' = front \o todo
    BY <2>3, <2>4
  <2>6. UNCHANGED <<Unread, arrived>>
    BY <1>4 DEF Unread
  <2> QED
    BY <1>1, <2>1, <2>2, <2>5, <2>6 DEF LosesLines
<1> QED
  BY <1>2, <1>3, <1>4 DEF WriteLine

LEMMA WhatAStepDoes ==
  TypeInv /\ [Next]_vars =>
    Rests \/ Arrives \/ Refused \/ Loses \/ MakesLines \/ LosesLines
<1> SUFFICES ASSUME TypeInv, [Next]_vars
             PROVE  Rests \/ Arrives \/ Refused \/ Loses \/ MakesLines \/ LosesLines
  OBVIOUS
<1> USE DEF messageVars, mainVars, relayVars, updaterVars, childVars
<1>1. /\ subscriber \in Seq(Arrived) /\ next \in Seq(Arrived) /\ sock \in Seq(Arrived)
  BY DEF TypeInv, QueueTypes
<1>2. /\ todo \in Seq(ArrivedLine) /\ buffer \in Seq(ArrivedLine)
      /\ pipe \in Seq(ArrivedLine) /\ done \in Seq(ArrivedLine)
  BY DEF TypeInv, LineTypes
<1>3. sock \o next \in Seq(Arrived)
  BY FlowTypes
<1>4. ASSUME next = <<>> PROVE sock \o next = sock
  <2>1. sock \in Seq(Arrived)
    BY <1>1
  <2> QED
    BY <1>4, <2>1, ConcatEmptySeq
<1>5. arrived \in Nat
  BY BoundAssumption DEF TypeInv, ControlTypes
<1>6. CASE Arrive
  <2>1. UNCHANGED <<sock, next, done, pipe, buffer, todo>> /\ arrived' = arrived + 1
    BY <1>6 DEF Arrive
  <2>2. Lined' = Lined
    BY <2>1 DEF Lined
  <2>3. CASE Len(subscriber) < HWM
    <3>1. PICK kind \in Kind :
            subscriber' = Append(subscriber, [n |-> arrived', kind |-> kind])
      BY <1>6, <2>3 DEF Arrive
    <3> DEFINE m == [n |-> arrived', kind |-> kind]
    <3>2. m \in Arrived' /\ m.n = arrived'
      BY <1>5, <2>1 DEF Arrived
    <3>3. Arrived \subseteq Arrived'
      BY <1>5, <2>1 DEF Arrived
    <3>4. sock \o next \in Seq(Arrived') /\ subscriber \in Seq(Arrived')
      BY <1>1, <1>3, <3>3, SeqMonotonic
    <3> HIDE DEF m
    <3>5. (sock \o next) \o Append(subscriber, m) = Append((sock \o next) \o subscriber, m)
      BY <3>2, <3>4, LastArrives
    <3>6. Unread' = Append(Unread, m)
      BY <2>1, <3>1, <3>5 DEF Unread, m
    <3> QED
      BY <2>1, <2>2, <3>1, <3>2, <3>6 DEF Arrives
  <2>4. CASE ~(Len(subscriber) < HWM)
    <3>1. subscriber' = subscriber
      BY <1>6, <2>4 DEF Arrive
    <3> QED
      BY <2>1, <2>2, <3>1 DEF Refused, Unread
  <2> QED
    BY <2>3, <2>4
<1>7. CASE Receive
  <2>1. /\ next' = <<Head(subscriber)>> /\ subscriber' = Tail(subscriber) /\ subscriber # <<>>
        /\ UNCHANGED <<arrived, sock, done, pipe, buffer, todo>> /\ next = <<>>
    BY <1>7 DEF Receive, TypeInv, Holds
  <2>2. next' \o subscriber' = subscriber
    BY <1>1, <2>1, HeadAndTail
  <2>3. next' \in Seq(Arrived) /\ subscriber' \in Seq(Arrived)
    BY <1>1, <2>1, HeadTailProperties
  <2>4. sock \o next' \o subscriber' = sock \o (next' \o subscriber')
    <3>1. sock \in Seq(Arrived)
      BY <1>1
    <3> QED
      BY <2>3, <3>1, ConcatAssociative
  <2>5. Unread' = Unread
    BY <1>4, <2>1, <2>2, <2>4 DEF Unread
  <2> QED
    BY <2>1, <2>5 DEF Rests, Lined
<1>8. CASE ReceiveError
  <2>1. UNCHANGED <<arrived, next, sock, done, pipe, buffer, todo>>
    BY <1>8 DEF ReceiveError
  <2>2. CASE UNCHANGED subscriber
    BY <2>1, <2>2 DEF Rests, Lined, Unread
  <2>3. CASE subscriber # <<>> /\ subscriber' = Tail(subscriber)
    <3> DEFINE m == Head(subscriber)
    <3>1. m \in Arrived /\ subscriber' \in Seq(Arrived) /\ <<m>> \in Seq(Arrived)
      BY <1>1, <2>3, HeadTailProperties
    <3>2. <<m>> \o subscriber' = subscriber
      BY <1>1, <2>3, HeadAndTail
    <3> HIDE DEF m
    <3>3. (sock \o next) \o <<m>> \o subscriber' = (sock \o next) \o (<<m>> \o subscriber')
      BY <1>3, <3>1, ConcatAssociative
    <3>4. Unread = (sock \o next) \o <<m>> \o subscriber'
      BY <3>2, <3>3 DEF Unread
    <3>5. Unread' = (sock \o next) \o subscriber'
      BY <2>1 DEF Unread
    <3> QED
      BY <1>3, <2>1, <3>1, <3>4, <3>5 DEF Loses, Lined
  <2> QED
    BY <1>8, <2>2, <2>3 DEF ReceiveError
<1>9. CASE Send
  <2>1. /\ UNCHANGED <<arrived, subscriber, done, pipe, buffer, todo>>
        /\ next' = <<>> /\ next # <<>>
    BY <1>9 DEF Send, TypeInv, Holds
  <2>2. CASE subscribed /\ Len(sock) < HWM
    <3>1. sock' = sock \o next
      BY <1>9, <2>2 DEF Send
    <3>2. sock' \o next' = sock \o next
      BY <1>3, <2>1, <3>1, ConcatEmptySeq
    <3> QED
      BY <2>1, <3>1, <3>2 DEF Rests, Lined, Unread
  <2>3. CASE ~(subscribed /\ Len(sock) < HWM)
    <3>1. sock' = sock
      BY <1>9, <2>3 DEF Send
    <3>2. Len(next) <= 1
      BY DEF TypeInv, QueueTypes
    <3>3. next = <<next[1]>> /\ next[1] \in Arrived
      <4>1. next \in Seq(Arrived)
        BY <1>1
      <4>2. Len(next) \in Nat \ {0}
        BY <2>1, <4>1, EmptySeq
      <4>3. \A k \in Nat \ {0} : k <= 1 => k = 1 /\ 1 \in 1 .. k
        OBVIOUS
      <4>4. Len(next) = 1 /\ 1 \in 1 .. Len(next)
        BY <3>2, <4>2, <4>3
      <4>5. next[1] \in Arrived
        BY <4>1, <4>4, ElementOfSeq
      <4>6. <<next[1]>> \in Seq(Arrived) /\ Len(<<next[1]>>) = 1 /\ <<next[1]>>[1] = next[1]
        BY <4>5
      <4> QED
        BY <4>1, <4>4, <4>5, <4>6, SeqEqual
    <3>4. sock \o <<>> = sock
      <4>1. sock \in Seq(Arrived)
        BY <1>1
      <4> QED
        BY <4>1, ConcatEmptySeq
    <3>5. Unread' = sock \o subscriber
      BY <2>1, <3>1, <3>4 DEF Unread
    <3>6. Unread = sock \o <<next[1]>> \o subscriber
      BY <3>3 DEF Unread
    <3> QED
      BY <1>1, <2>1, <3>1, <3>3, <3>5, <3>6 DEF Loses, Lined
  <2> QED
    BY <2>2, <2>3
<1>10. CASE Poll
  <2>1. /\ UNCHANGED <<arrived, next, subscriber, done, pipe, buffer>>
        /\ sock # <<>> /\ sock' = Tail(sock) /\ todo' = Lines(Head(sock)) /\ todo = <<>>
    BY <1>10 DEF Poll, TypeInv, Holds
  <2> DEFINE m == Head(sock)
             front == done \o pipe \o buffer
  <2>2. m \in Arrived /\ sock' \in Seq(Arrived) /\ <<m>> \in Seq(Arrived)
    BY <1>1, <2>1, HeadTailProperties
  <2>3. <<m>> \o sock' = sock
    BY <1>1, <2>1, HeadAndTail
  <2>4. front \in Seq(ArrivedLine)
    BY FlowTypes
  <2> HIDE DEF m, front
  <2>5. Lined = front
    BY <2>1, <2>4, ConcatEmptySeq DEF Lined, front
  <2>6. Lined' = Lined \o Lines(m)
    BY <2>1, <2>5 DEF Lined, front, m
  <2>7. sock' \o next \in Seq(Arrived)
    <3>1. next \in Seq(Arrived)
      BY <1>1
    <3> QED
      BY <2>2, <3>1, ConcatProperties
  <2>8. Unread' = (sock' \o next) \o subscriber
    BY <2>1 DEF Unread
  <2>9. Unread' \in Seq(Arrived)
    <3>1. subscriber \in Seq(Arrived)
      BY <1>1
    <3> QED
      BY <2>7, <2>8, <3>1, ConcatProperties
  <2>10. Unread = <<m>> \o Unread'
    <3>1. (<<m>> \o sock') \o next = <<m>> \o (sock' \o next)
      <4>1. next \in Seq(Arrived)
        BY <1>1
      <4> QED
        BY <2>2, <4>1, ConcatAssociative
    <3>2. (<<m>> \o (sock' \o next)) \o subscriber = <<m>> \o ((sock' \o next) \o subscriber)
      <4>1. subscriber \in Seq(Arrived)
        BY <1>1
      <4> QED
        BY <2>2, <2>7, <4>1, ConcatAssociative
    <3> QED
      BY <2>3, <2>8, <3>1, <3>2 DEF Unread
  <2> QED
    BY <2>1, <2>2, <2>6, <2>9, <2>10 DEF MakesLines
<1>11. CASE PrintLine
  <2>1. /\ UNCHANGED <<arrived, sock, next, subscriber, done, pipe>>
        /\ todo # <<>> /\ buffer' = Append(buffer, Head(todo)) /\ todo' = Tail(todo)
    BY <1>11 DEF PrintLine, TypeInv, Holds
  <2> DEFINE front == done \o pipe
  <2>2. buffer \in Seq(ArrivedLine) /\ todo \in Seq(ArrivedLine)
    BY <1>2
  <2>3. buffer' \o todo' = buffer \o todo
    BY <2>1, <2>2, HeadMoves
  <2>4. buffer' \in Seq(ArrivedLine) /\ todo' \in Seq(ArrivedLine)
    BY <2>1, <2>2, HeadTailProperties, AppendProperties
  <2>5. front \in Seq(ArrivedLine)
    BY FlowTypes
  <2> HIDE DEF front
  <2>6. front \o buffer' \o todo' = front \o (buffer' \o todo')
    BY <2>4, <2>5, ConcatAssociative
  <2>7. front \o buffer \o todo = front \o (buffer \o todo)
    BY <2>2, <2>5, ConcatAssociative
  <2>8. Lined' = Lined
    BY <2>1, <2>3, <2>6, <2>7 DEF Lined, front
  <2> QED
    BY <2>1, <2>8 DEF Rests, Unread
<1>12. CASE Flush \/ FlushOnClose
  BY <1>12, WritingMovesAlong DEF Flush, FlushOnClose
<1>13. CASE ProcessCmd
  <2>1. /\ UNCHANGED <<arrived, sock, next, subscriber, todo, buffer>>
        /\ pipe # <<>> /\ pipe' = Tail(pipe)
        /\ \/ done' = Append(done, Head(pipe)) /\ child' = child
           \/ done' = done /\ child' = "raised"
    BY <1>13 DEF ProcessCmd, UpdateFile, TerminateInstance
  <2>2. Unread' = Unread
    BY <2>1 DEF Unread
  <2>3. pipe \in Seq(ArrivedLine) /\ done \in Seq(ArrivedLine)
    BY <1>2
  <2>4. CASE done' = Append(done, Head(pipe))
    <3>1. done' \o pipe' = done \o pipe
      BY <2>1, <2>3, <2>4, HeadMoves
    <3> QED
      BY <2>1, <2>2, <3>1 DEF Rests, Lined
  <2>5. CASE done' = done /\ child' = "raised"
    <3> DEFINE l == Head(pipe)
               back == buffer \o todo
    <3>1. l \in ArrivedLine /\ pipe' \in Seq(ArrivedLine) /\ <<l>> \in Seq(ArrivedLine)
      BY <2>1, <2>3, HeadTailProperties
    <3>2. <<l>> \o pipe' = pipe
      BY <2>1, <2>3, HeadAndTail
    <3>3. buffer \in Seq(ArrivedLine) /\ todo \in Seq(ArrivedLine)
      BY <1>2
    <3>4. back \in Seq(ArrivedLine)
      BY <3>3, ConcatProperties
    <3> HIDE DEF l
    <3>5. done \o <<l>> \o pipe' = done \o pipe
      <4>1. done \in Seq(ArrivedLine)
        BY <2>3
      <4>2. done \o <<l>> \o pipe' = done \o (<<l>> \o pipe')
        BY <3>1, <4>1, ConcatAssociative
      <4> QED
        BY <3>2, <4>2
    <3>6. done \o <<l>> \in Seq(ArrivedLine)
      BY <2>3, <3>1, ConcatProperties
    <3>7. ASSUME NEW x \in Seq(ArrivedLine)
          PROVE  x \o pipe' \o buffer \o todo = x \o (pipe' \o back)
      <4>1. /\ x \in Seq(ArrivedLine) /\ pipe' \in Seq(ArrivedLine)
            /\ buffer \in Seq(ArrivedLine) /\ todo \in Seq(ArrivedLine)
        BY <3>1, <3>3
      <4>2. CanBeCut(x, pipe', buffer, todo)
        BY <4>1, ConcatOfFour
      <4> QED
        BY <4>2 DEF CanBeCut, back
    <3> HIDE DEF back
    <3>8. pipe' \o back \in Seq(ArrivedLine)
      BY <3>1, <3>4, ConcatProperties
    <3>9. Lined = done \o <<l>> \o (pipe' \o back)
      BY <3>5, <3>6, <3>7 DEF Lined
    <3>10. Lined' = done \o (pipe' \o back)
      BY <2>1, <2>3, <2>5, <3>7 DEF Lined
    <3> QED
      BY <2>1, <2>2, <2>3, <3>1, <3>8, <3>9, <3>10 DEF LosesLines
  <2> QED
    BY <2>1, <2>4, <2>5
<1>14. CASE \/ Interrupt \/ Terminate \/ Join \/ Exit \/ Run \/ Subscribe \/ Return
            \/ MakeRoom \/ EndChild \/ (\E interrupted \in BOOLEAN : DestroyContext(interrupted))
            \/ UNCHANGED vars
  <2>1. UNCHANGED <<arrived, sock, next, subscriber, done, pipe, buffer, todo>>
    BY <1>14 DEF Interrupt, Die, Terminate, Join, Exit, Run, Subscribe, Return, MakeRoom,
                 EndChild, DestroyContext, vars
  <2> QED
    BY <2>1 DEF Rests, Lined, Unread
<1> QED
  BY <1>6, <1>7, <1>8, <1>9, <1>10, <1>11, <1>12, <1>13, <1>14
  DEF Next, MainThread, UpdaterThread, Child

-----------------------------------------------------------------------------
(* Order *)

LineOrder == {p \in Line \X Line : Before(p[1], p[2])}
MessageOrder == {p \in Message \X Message : p[1].n < p[2].n}
\* Every line before every message.
Ahead == {p \in Line \X Message : p[1].n < p[2].n}

\* PipelineOrdered in terms of the lemmas.
FlowInv ==
  /\ InOrder(Lined, LineOrder)
  /\ InOrder(Unread, MessageOrder)
  /\ AllBefore(ToSet(Lined), ToSet(Unread), Ahead)

LEMMA OrdersAreStrict == Strict(LineOrder) /\ Strict(MessageOrder)
<1>1. ASSUME NEW a \in Line, NEW b \in Line, Before(a, b) PROVE a # b
  BY <1>1 DEF Line, Before
<1>2. ASSUME NEW a \in Message, NEW b \in Message, a.n < b.n PROVE a # b
  BY <1>2 DEF Message
<1> QED
  BY <1>1, <1>2 DEF Strict, LineOrder, MessageOrder

\* get_whisper_updates numbers the lines of a message in the order it makes them.
LEMMA LinesInOrder == ASSUME NEW m \in Message PROVE InOrder(Lines(m), LineOrder)
<1>1. m.n \in Nat /\ m.kind \in Kind
  BY DEF Message
<1>2. /\ LineCount(m.kind) \in 0 .. LinesPerUpdate
      /\ m.kind = "no_domains" => LineCount(m.kind) = 0
  BY <1>1, SizeAssumption DEF LineCount, Kind
<1> DEFINE count == LineCount(m.kind)
<1>3. /\ count \in Nat /\ 1 .. count \subseteq 1 .. LinesPerUpdate
      /\ \A i \in 1 .. count : m.kind \in {"servers", "term_instance"}
  BY <1>1, <1>2, SizeAssumption DEF Kind
<1> HIDE DEF count
<1>4. Lines(m) = [i \in 1 .. count |-> [n |-> m.n, i |-> i, kind |-> m.kind]]
  BY DEF Lines, count
<1> SUFFICES ASSUME NEW j \in 1 .. count, NEW k \in 1 .. count, j < k
             PROVE  <<Lines(m)[j], Lines(m)[k]>> \in LineOrder
  BY <1>4 DEF InOrder
<1>5. /\ Lines(m)[j] = [n |-> m.n, i |-> j, kind |-> m.kind]
      /\ Lines(m)[k] = [n |-> m.n, i |-> k, kind |-> m.kind]
  BY <1>4
<1>6. Lines(m)[j] \in Line /\ Lines(m)[k] \in Line
  BY <1>1, <1>3, <1>5 DEF Line
<1>7. Before(Lines(m)[j], Lines(m)[k])
  BY <1>5 DEF Before
<1> QED
  BY <1>6, <1>7 DEF LineOrder

LEMMA FlowInit == Init => FlowInv
<1> SUFFICES ASSUME Init PROVE FlowInv
  OBVIOUS
<1>1. <<>> \in Seq(Nat) /\ <<>> \o <<>> = <<>>
  BY EmptySeq, ConcatEmptySeq
<1>2. Lined = <<>> /\ Unread = <<>>
  BY <1>1 DEF Init, Lined, Unread
<1> QED
  BY <1>2, InOrderShort, ToSetOfEmpty DEF FlowInv, AllBefore

LEMMA FlowStep == TypeInv /\ FlowInv /\ [Next]_vars => FlowInv'
<1> SUFFICES ASSUME TypeInv, FlowInv, [Next]_vars PROVE FlowInv'
  OBVIOUS
<1>1. Unread \in Seq(Arrived) /\ Lined \in Seq(ArrivedLine)
  BY FlowTypes
<1>2. arrived \in Nat
  BY BoundAssumption DEF TypeInv, ControlTypes
<1>3. Arrived \subseteq Message /\ ArrivedLine \subseteq Line
  BY <1>2 DEF Arrived, ArrivedLine, Message, Line
<1>4. Unread \in Seq(Message) /\ Lined \in Seq(Line)
  BY <1>1, <1>3, SeqMonotonic
<1>5. ToSet(Unread) \subseteq Arrived /\ ToSet(Lined) \subseteq ArrivedLine
  BY <1>1, ToSetType
<1>6. InOrder(Unread, MessageOrder) /\ InOrder(Lined, LineOrder)
  BY DEF FlowInv
<1>7. CASE Rests \/ Refused
  BY <1>7 DEF Rests, Refused, FlowInv
<1>8. CASE Arrives
  <2>1. PICK m \in Arrived' : m.n = arrived' /\ Unread' = Append(Unread, m)
    BY <1>8 DEF Arrives
  <2>2. arrived' = arrived + 1 /\ Lined' = Lined
    BY <1>8 DEF Arrives
  <2>3. m \in Message
    BY <1>2, <2>1, <2>2 DEF Arrived, Message
  <2>4. \A x \in ToSet(Unread) \union ToSet(Lined) : x.n \in Nat /\ x.n < m.n
    BY <1>2, <1>5, <2>1, <2>2 DEF Arrived, ArrivedLine
  <2>5. BeforeOne(ToSet(Unread), m, MessageOrder) /\ BeforeOne(ToSet(Lined), m, Ahead)
    BY <1>3, <1>5, <2>3, <2>4 DEF BeforeOne, MessageOrder, Ahead
  <2>6. /\ InOrder(Append(Unread, m), MessageOrder)
        /\ ToSet(Append(Unread, m)) = ToSet(Unread) \union {m}
    BY <1>4, <1>6, <2>3, <2>5, NewcomerLast
  <2>7. AllBefore(ToSet(Lined), ToSet(Unread) \union {m}, Ahead)
    BY <2>5 DEF FlowInv, AllBefore, BeforeOne
  <2> QED
    BY <2>1, <2>2, <2>6, <2>7 DEF FlowInv
<1>9. CASE Loses
  <2>1. PICK a \in Seq(Arrived), b \in Seq(Arrived), m \in Arrived :
          Unread = a \o <<m>> \o b /\ Unread' = a \o b
    BY <1>9 DEF Loses
  <2>2. <<m>> \in Seq(Arrived)
    OBVIOUS
  <2> DEFINE one == <<m>>
  <2>3. one \in Seq(Arrived) /\ InOrder(a \o one \o b, MessageOrder)
    BY <1>6, <2>1, <2>2
  <2> HIDE DEF one
  <2>4. /\ InOrder(a \o b, MessageOrder)
        /\ ToSet(a \o one \o b) = ToSet(a \o b) \union ToSet(one)
    BY <2>3, OrdersAreStrict, MiddleDropsOut
  <2>5. ToSet(Unread') \subseteq ToSet(Unread)
    BY <2>1, <2>4 DEF one
  <2>6. Lined' = Lined
    BY <1>9 DEF Loses
  <2> QED
    BY <2>1, <2>4, <2>5, <2>6 DEF FlowInv, AllBefore
<1>10. CASE MakesLines
  <2>1. PICK m \in Arrived :
          /\ Unread' \in Seq(Arrived) /\ Unread = <<m>> \o Unread'
          /\ Lined' = Lined \o Lines(m)
    BY <1>10 DEF MakesLines
  <2>2. /\ m \in Message /\ Lines(m) \in Seq(ArrivedLine)
        /\ \A l \in ToSet(Lines(m)) : l.n = m.n
    BY <1>3, LinesType
  <2> DEFINE one == <<m>>
  <2>3. /\ one \in Seq(Arrived) /\ ToSet(one) = {m}
        /\ Unread' \in Seq(Arrived) /\ Unread = one \o Unread'
    BY <2>1, ToSetSingle
  <2> HIDE DEF one
  <2>4. InOrder(one \o Unread', MessageOrder)
    BY <1>6, <2>3
  <2>5. InOrder(Unread', MessageOrder) /\ AllBefore(ToSet(one), ToSet(Unread'), MessageOrder)
    BY <2>3, <2>4, InOrderConcat
  <2>6. ToSet(one \o Unread') = ToSet(one) \union ToSet(Unread')
    <3>1. one \in Seq(Arrived) /\ Unread' \in Seq(Arrived)
      BY <2>3
    <3> QED
      BY <3>1, ToSetConcat, ZenonT(60)
  <2>7. ToSet(Unread) = {m} \union ToSet(Unread')
    BY <2>3, <2>6
  <2>8. ToSet(Lines(m)) \subseteq ArrivedLine
    BY <2>2, ToSetType
  <2>9. AllBefore(ToSet(Lined), ToSet(Lines(m)), LineOrder)
    <3>1. \A x \in ToSet(Lined) : x.n < m.n
      BY <2>7 DEF FlowInv, AllBefore, Ahead
    <3>2. \A x \in ToSet(Lined), l \in ToSet(Lines(m)) : Before(x, l)
      BY <2>2, <3>1 DEF Before
    <3> QED
      BY <1>3, <1>5, <2>8, <3>2 DEF AllBefore, LineOrder
  <2>10. InOrder(Lined \o Lines(m), LineOrder)
    <3>1. InOrder(Lines(m), LineOrder)
      BY <2>2, LinesInOrder
    <3> QED
      BY <1>1, <1>6, <2>2, <2>9, <3>1, InOrderConcat
  <2>11. ToSet(Lined \o Lines(m)) = ToSet(Lined) \union ToSet(Lines(m))
    BY <1>1, <2>2, ToSetConcat
  <2>12. AllBefore(ToSet(Lines(m)), ToSet(Unread'), Ahead)
    <3>1. \A y \in ToSet(Unread') : m.n < y.n /\ y \in Message
      BY <2>3, <2>5 DEF AllBefore, MessageOrder
    <3> QED
      BY <1>3, <2>2, <2>8, <3>1 DEF AllBefore, Ahead
  <2>13. AllBefore(ToSet(Lined), ToSet(Unread'), Ahead)
    BY <2>7 DEF FlowInv, AllBefore
  <2> QED
    BY <2>1, <2>5, <2>10, <2>11, <2>12, <2>13 DEF FlowInv, AllBefore
<1>11. CASE LosesLines
  <2>1. PICK a \in Seq(ArrivedLine), c \in Seq(ArrivedLine), b \in Seq(ArrivedLine) :
          Lined = a \o c \o b /\ Lined' = a \o b
    BY <1>11 DEF LosesLines
  <2>2. InOrder(a \o c \o b, LineOrder)
    BY <1>6, <2>1
  <2>3. /\ InOrder(a \o b, LineOrder)
        /\ ToSet(a \o c \o b) = ToSet(a \o b) \union ToSet(c)
    BY <2>2, OrdersAreStrict, MiddleDropsOut
  <2>4. ToSet(Lined') \subseteq ToSet(Lined)
    BY <2>1, <2>3
  <2>5. Unread' = Unread
    BY <1>11 DEF LosesLines
  <2> QED
    BY <2>1, <2>3, <2>4, <2>5 DEF FlowInv, AllBefore
<1> QED
  BY <1>7, <1>8, <1>9, <1>10, <1>11, WhatAStepDoes

\* Whatever the sizes, and whatever dies or fails at any point, no line is executed
\* out of order or twice, so that no value overwrites a newer one of its file
\* (main(), run_proxy_loop, update_immediate, process_cmd).
THEOREM PipelineKeepsOrder == Spec => []PipelineOrdered
<1>1. TypeInv /\ FlowInv => PipelineOrdered
  <2> SUFFICES ASSUME TypeInv, FlowInv PROVE PipelineOrdered
    OBVIOUS
  <2>1. \A j, k \in DOMAIN Lined : j < k => Before(Lined[j], Lined[k])
    BY DEF FlowInv, InOrder, LineOrder
  <2>2. \A j, k \in DOMAIN Unread : j < k => Unread[j].n < Unread[k].n
    BY DEF FlowInv, InOrder, MessageOrder
  <2>3. \A j \in DOMAIN Lined, k \in DOMAIN Unread : Lined[j].n < Unread[k].n
    BY DEF FlowInv, AllBefore, Ahead, ToSet
  <2> QED
    BY <2>1, <2>2, <2>3 DEF PipelineOrdered
<1> QED
  BY TypeInit, TypeStep, FlowInit, FlowStep, <1>1, PTL DEF Spec

-----------------------------------------------------------------------------
(* What is lost *)

\* The order of a shutdown: the flag, the end of the updater thread, its join.
ShutdownInv ==
  /\ mainPc \in {"receive", "send", "terminate"} => ~m_shutdown
  /\ updaterPc = "returned" => m_shutdown
  /\ mainPc \in {"destroy", "pclose", "exited"} => updaterPc = "returned"
  /\ mainPc = "killed" => updaterPc = "killed"

LEMMA ShutdownInit == Init => ShutdownInv
BY DEF Init, ShutdownInv

LEMMA ShutdownStep == TypeInv /\ ShutdownInv /\ [Next]_vars => ShutdownInv'
<1> SUFFICES ASSUME TypeInv, ShutdownInv, [Next]_vars PROVE ShutdownInv'
  OBVIOUS
<1> USE DEF messageVars, mainVars, relayVars, updaterVars, childVars, ShutdownInv
<1>1. CASE UNCHANGED <<mainPc, m_shutdown, updaterPc>>
  BY <1>1
<1>2. CASE Die
  BY <1>2 DEF Die
<1>3. CASE \/ Receive \/ ReceiveError \/ Send \/ Terminate \/ Join \/ Exit
           \/ (\E interrupted \in BOOLEAN : DestroyContext(interrupted))
  BY <1>3 DEF Receive, ReceiveError, Send, Terminate, Join, Exit, DestroyContext
<1>4. CASE Run \/ Poll \/ Return \/ PrintLine \/ MakeRoom
  BY <1>2, <1>4 DEF Run, Poll, Return, PrintLine, MakeRoom, NextLine
<1>5. CASE WriteLine
  BY <1>2, <1>5 DEF WriteLine, Written, NextLine
<1> QED
  BY <1>1, <1>2, <1>3, <1>4, <1>5
  DEF Next, vars, MainThread, UpdaterThread, Child, Arrive, Interrupt, Subscribe, Flush,
      FlushOnClose, ProcessCmd, EndChild

LEMMA LossStep == TypeInv /\ ShutdownInv /\ [Next]_vars => [LossHasACause]_vars
<1> SUFFICES ASSUME TypeInv, ShutdownInv, Next PROVE LossHasACause
  OBVIOUS
<1> USE DEF messageVars, mainVars, relayVars, updaterVars, childVars
<1>1. /\ subscriber \in Seq(Arrived) /\ next \in Seq(Arrived) /\ sock \in Seq(Arrived)
      /\ todo \in Seq(ArrivedLine) /\ buffer \in Seq(ArrivedLine)
      /\ pipe \in Seq(ArrivedLine) /\ done \in Seq(ArrivedLine)
  BY DEF TypeInv, QueueTypes, LineTypes
\* What the step keeps is not lost.
<1>2. ASSUME Waiting \subseteq Waiting', Accepted \subseteq Accepted', arrived' = arrived
      PROVE  LossHasACause
  BY <1>2 DEF LossHasACause
<1>3. ASSUME UNCHANGED <<mainPc, subscriber, next, sock>>,
             updaterPc' = "returned" <=> updaterPc = "returned"
      PROVE  Waiting' = Waiting
  BY <1>3 DEF Waiting, Alive
<1>4. ASSUME UNCHANGED <<mainPc, child, done, pipe, buffer, todo>>
      PROVE  Accepted' = Accepted
  BY <1>4 DEF Accepted, Alive
<1>5. CASE Arrive
  <2>1. PICK kind \in Kind :
          IF Len(subscriber) < HWM
          THEN subscriber' = Append(subscriber, [n |-> arrived', kind |-> kind])
          ELSE UNCHANGED subscriber
    BY <1>5 DEF Arrive
  <2> DEFINE m == [n |-> arrived', kind |-> kind]
  <2>2. arrived' = arrived + 1 /\ arrived \in Nat
    BY <1>5, BoundAssumption DEF Arrive, TypeInv, ControlTypes
  <2>3. m \in Message /\ m.n = arrived'
    BY <2>2 DEF Message
  <2>4. Arrived \subseteq Message
    BY <2>2 DEF Arrived, Message
  <2>5. subscriber \in Seq(Message)
    BY <1>1, <2>4, SeqMonotonic
  <2>6. UNCHANGED <<mainVars, relayVars, updaterVars, buffer, pipe, childVars>>
    BY <1>5 DEF Arrive
  <2>7. Accepted' = Accepted
    BY <1>4, <2>6
  <2>8. CASE Len(subscriber) < HWM
    <3>1. subscriber' = Append(subscriber, m)
      BY <2>1, <2>8
    <3> HIDE DEF m
    <3>2. ToSet(subscriber') = ToSet(subscriber) \union {m}
      BY <2>3, <2>5, <3>1, ToSetAppend
    <3>3. Waiting \subseteq Waiting'
      BY <2>6, <3>2 DEF Waiting, Alive
    <3>4. mainPc \in {"receive", "send"} => m \in Waiting'
      BY <2>6, <3>2 DEF Waiting
    <3> QED
      BY <2>3, <2>7, <3>3, <3>4 DEF LossHasACause
  <2>9. CASE ~(Len(subscriber) < HWM)
    <3>1. Waiting' = Waiting
      BY <1>3, <2>1, <2>6, <2>9
    <3> QED
      BY <2>7, <2>9, <3>1 DEF LossHasACause
  <2> QED
    BY <2>8, <2>9
<1>6. CASE Die
  BY <1>6 DEF Die, LossHasACause, TakenUp
<1>7. CASE Receive
  <2>1. /\ UNCHANGED <<arrived, m_shutdown, sigpipe, relayVars, updaterVars, buffer, pipe,
                        childVars>>
        /\ mainPc = "receive" /\ mainPc' = "send" /\ subscriber # <<>>
        /\ next' = <<Head(subscriber)>> /\ subscriber' = Tail(subscriber) /\ next = <<>>
    BY <1>7 DEF Receive, TypeInv, Holds
  <2>2. ToSet(subscriber) = {Head(subscriber)} \union ToSet(subscriber')
    BY <1>1, <2>1, ToSetHeadTail
  <2>3. ToSet(next') = {Head(subscriber)} /\ ToSet(next) = {}
    BY <2>1, ToSetSingle, ToSetOfEmpty
  <2>4. Waiting \subseteq Waiting'
    BY <2>1, <2>2, <2>3 DEF Waiting, Alive
  <2>5. Accepted \subseteq Accepted'
    BY <2>1 DEF Accepted, Alive
  <2> QED
    BY <1>2, <2>1, <2>4, <2>5
<1>8. CASE ReceiveError
  <2>1. /\ UNCHANGED <<arrived, next, relayVars, updaterVars, buffer, pipe, childVars>>
        /\ mainPc = "receive" /\ mainPc' = "terminate" /\ next = <<>>
    BY <1>8 DEF ReceiveError, TypeInv, Holds
  <2>2. Waiting \ Waiting' \subseteq ToSet(subscriber)
    BY <2>1, ToSetOfEmpty DEF Waiting, Alive
  <2>3. Accepted \subseteq Accepted'
    BY <2>1 DEF Accepted, Alive
  <2> QED
    BY <2>1, <2>2, <2>3 DEF LossHasACause, TakenUp
<1>9. CASE Send
  <2>1. /\ UNCHANGED <<arrived, subscriber, updaterPc, todo, buffer, pipe, childVars>>
        /\ mainPc = "send" /\ mainPc' = "receive" /\ next' = <<>>
    BY <1>9 DEF Send
  <2>2. updaterPc # "returned"
    BY <2>1 DEF ShutdownInv
  <2>3. Accepted \subseteq Accepted'
    BY <2>1 DEF Accepted, Alive
  <2>4. CASE subscribed /\ Len(sock) < HWM
    <3>1. sock' = sock \o next
      BY <1>9, <2>4 DEF Send
    <3>2. ToSet(sock') = ToSet(sock) \union ToSet(next)
      <4>1. sock \in Seq(Arrived) /\ next \in Seq(Arrived)
        BY <1>1
      <4> QED
        BY <3>1, <4>1, ToSetConcat
    <3>3. Waiting \subseteq Waiting'
      BY <2>1, <2>2, <3>2 DEF Waiting, Alive
    <3> QED
      BY <1>2, <2>1, <2>3, <3>3
  <2>5. CASE ~(subscribed /\ Len(sock) < HWM)
    <3>1. sock' = sock
      BY <1>9, <2>5 DEF Send
    <3>2. ~subscribed \/ Len(sock) = HWM
      <4>1. Len(sock) \in Nat /\ HWM \in Nat /\ Len(sock) <= HWM
        BY <1>1, LenProperties, SizeAssumption DEF TypeInv, QueueTypes
      <4> QED
        BY <2>5, <4>1
    <3>3. Waiting \ Waiting' \subseteq ToSet(next)
      BY <2>1, <3>1 DEF Waiting, Alive
    <3> QED
      BY <2>1, <2>3, <3>2, <3>3 DEF LossHasACause, TakenUp
  <2> QED
    BY <2>4, <2>5
<1>10. CASE Terminate \/ Join \/ (\E interrupted \in BOOLEAN : DestroyContext(interrupted))
  <2>1. /\ UNCHANGED <<arrived, relayVars, updaterVars, buffer, pipe, childVars>>
        /\ mainPc \in {"terminate", "join", "destroy"}
        /\ mainPc' \in {"join", "destroy", "pclose"}
    BY <1>10 DEF Terminate, Join, DestroyContext
  <2>2. Waiting \subseteq Waiting'
    BY <2>1 DEF Waiting, Alive
  <2>3. Accepted \subseteq Accepted'
    BY <2>1 DEF Accepted, Alive
  <2> QED
    BY <1>2, <2>1, <2>2, <2>3
<1>11. CASE Exit
  <2>1. /\ UNCHANGED <<arrived, relayVars, updaterVars, buffer, pipe, childVars>>
        /\ mainPc = "pclose" /\ mainPc' = "exited" /\ buffer = <<>>
    BY <1>11 DEF Exit
  <2>2. updaterPc = "returned" /\ todo = <<>>
    BY <2>1 DEF ShutdownInv, TypeInv, Holds
  <2>3. Waiting \subseteq Waiting'
    BY <2>1, <2>2 DEF Waiting
  <2>4. Accepted \subseteq Accepted'
    BY <2>1, <2>2, ToSetOfEmpty DEF Accepted
  <2> QED
    BY <1>2, <2>1, <2>3, <2>4
<1>12. CASE Run /\ ~Die
  <2>1. /\ UNCHANGED <<messageVars, mainVars, relayVars, todo, buffer, pipe, done>>
        /\ child' = "running" /\ child = "none" /\ updaterPc = "popen" /\ updaterPc' = "poll"
    BY <1>12 DEF Run, TypeInv, Holds
  <2>2. Waiting' = Waiting
    BY <1>3, <2>1
  <2>3. Accepted \subseteq Accepted'
    BY <2>1 DEF Accepted, Alive
  <2> QED
    BY <1>2, <2>1, <2>2, <2>3
<1>13. CASE Subscribe
  <2>1. Waiting' = Waiting /\ Accepted' = Accepted /\ arrived' = arrived
    BY <1>3, <1>4, <1>13 DEF Subscribe
  <2> QED
    BY <1>2, <2>1
<1>14. CASE Poll
  <2>1. /\ UNCHANGED <<messageVars, mainVars, buffer, pipe, childVars>>
        /\ updaterPc = "poll" /\ updaterPc' \in {"poll", "print"} /\ todo = <<>>
        /\ sock # <<>> /\ sock' = Tail(sock) /\ todo' = Lines(Head(sock))
    BY <1>14 DEF Poll, NextLine, TypeInv, Holds
  <2>2. Alive
    BY <2>1 DEF ShutdownInv, Alive
  <2>3. ToSet(sock) = {Head(sock)} \union ToSet(sock')
    BY <1>1, <2>1, ToSetHeadTail
  <2>4. Waiting \ Waiting' \subseteq {Head(sock)}
    BY <2>1, <2>3 DEF Waiting, Alive
  <2>5. Accepted \subseteq Accepted'
    BY <2>1, ToSetOfEmpty DEF Accepted, Alive
  <2>6. child = "raised" \/ ToSet(Lines(Head(sock))) \subseteq Accepted'
    BY <2>1, <2>2 DEF Accepted, Alive
  <2> QED
    BY <2>1, <2>3, <2>4, <2>5, <2>6 DEF LossHasACause, TakenUp
<1>15. CASE Return
  <2>1. /\ UNCHANGED <<messageVars, mainVars, relayVars, todo, buffer, pipe, childVars>>
        /\ updaterPc' = "returned"
    BY <1>15 DEF Return
  <2>2. Waiting \ Waiting' \subseteq ToSet(sock)
    BY <2>1 DEF Waiting
  <2>3. Accepted' = Accepted
    BY <1>4, <2>1
  <2> QED
    BY <2>1, <2>2, <2>3 DEF LossHasACause, TakenUp
<1>16. CASE PrintLine
  <2>1. /\ UNCHANGED <<messageVars, mainVars, relayVars, pipe, childVars>>
        /\ updaterPc = "print" /\ updaterPc' # "returned" /\ todo # <<>>
        /\ buffer' = Append(buffer, Head(todo)) /\ todo' = Tail(todo)
    BY <1>16 DEF PrintLine, NextLine, TypeInv, Holds
  <2>2. Head(todo) \in ArrivedLine
    BY <1>1, <2>1, HeadTailProperties
  <2>3. ToSet(buffer') = ToSet(buffer) \union {Head(todo)}
    BY <1>1, <2>1, <2>2, ToSetAppend
  <2>4. ToSet(todo) = {Head(todo)} \union ToSet(todo')
    BY <1>1, <2>1, ToSetHeadTail
  <2>5. Accepted \subseteq Accepted'
    BY <2>1, <2>3, <2>4 DEF Accepted, Alive
  <2>6. Waiting' = Waiting
    BY <1>3, <2>1
  <2> QED
    BY <1>2, <2>1, <2>5, <2>6
<1>17. CASE MakeRoom
  <2>1. Waiting' = Waiting /\ Accepted' = Accepted /\ arrived' = arrived
    BY <1>3, <1>4, <1>17 DEF MakeRoom
  <2> QED
    BY <1>2, <2>1
<1>18. CASE WriteLine /\ ~Die
  <2>1. /\ UNCHANGED <<messageVars, mainVars, relayVars, todo, childVars>>
        /\ updaterPc' = "returned" <=> updaterPc = "returned"
    BY <1>18 DEF WriteLine, Written, NextLine
  <2>2. Waiting' = Waiting
    BY <1>3, <2>1
  <2>3. CASE buffer # <<>> /\ pipe' = Append(pipe, Head(buffer)) /\ buffer' = Tail(buffer)
    <3>1. Head(buffer) \in ArrivedLine
      BY <1>1, <2>3, HeadTailProperties
    <3>2. ToSet(pipe') = ToSet(pipe) \union {Head(buffer)}
      BY <1>1, <2>3, <3>1, ToSetAppend
    <3>3. ToSet(buffer) = {Head(buffer)} \union ToSet(buffer')
      BY <1>1, <2>3, ToSetHeadTail
    <3>4. Accepted \subseteq Accepted'
      BY <2>1, <3>2, <3>3 DEF Accepted, Alive
    <3> QED
      BY <1>2, <2>1, <2>2, <3>4
  <2>4. CASE child = "raised"
    <3>1. Accepted \subseteq Accepted'
      BY <2>1, <2>4 DEF Accepted
    <3> QED
      BY <1>2, <2>1, <2>2, <3>1
  <2> QED
    BY <1>18, <2>3, <2>4 DEF WriteLine
<1>19. CASE ProcessCmd
  <2>1. /\ UNCHANGED <<messageVars, mainVars, relayVars, updaterVars, buffer>>
        /\ pipe # <<>> /\ pipe' = Tail(pipe)
        /\ \/ done' = Append(done, Head(pipe)) /\ child' = child
           \/ done' = done /\ child' = "raised"
    BY <1>19 DEF ProcessCmd, UpdateFile, TerminateInstance
  <2>2. Waiting' = Waiting
    BY <1>3, <2>1
  <2>3. CASE done' = Append(done, Head(pipe)) /\ child' = child
    <3>1. Head(pipe) \in ArrivedLine
      BY <1>1, <2>1, HeadTailProperties
    <3>2. ToSet(done') = ToSet(done) \union {Head(pipe)}
      BY <1>1, <2>3, <3>1, ToSetAppend
    <3>3. ToSet(pipe) = {Head(pipe)} \union ToSet(pipe')
      BY <1>1, <2>1, ToSetHeadTail
    <3>4. Accepted \subseteq Accepted'
      BY <2>1, <2>3, <3>2, <3>3 DEF Accepted, Alive
    <3> QED
      BY <1>2, <2>1, <2>2, <3>4
  <2>4. CASE child' = "raised"
    BY <2>1, <2>2, <2>4 DEF LossHasACause
  <2> QED
    BY <2>1, <2>3, <2>4
<1>20. CASE EndChild
  <2>1. /\ UNCHANGED <<messageVars, mainVars, relayVars, updaterVars, buffer, pipe, done>>
        /\ child = "running" /\ child' = "ended"
    BY <1>20 DEF EndChild
  <2>2. Waiting' = Waiting
    BY <1>3, <2>1
  <2>3. Accepted \subseteq Accepted'
    BY <2>1 DEF Accepted, Alive
  <2> QED
    BY <1>2, <2>1, <2>2, <2>3
<1> QED
  BY <1>5, <1>6, <1>7, <1>8, <1>9, <1>10, <1>11, <1>12, <1>13, <1>14, <1>15, <1>16, <1>17,
     <1>18, <1>19, <1>20
  DEF Next, MainThread, UpdaterThread, Child, Interrupt, Flush, FlushOnClose

\* Between a monitor and the files a step loses a message only at a full or
\* unsubscribed queue, in a socket whose loop has ended (main(), run_proxy_loop) or
\* with the process, and a line only with the process or its child: the join comes
\* after the last line is printed, and the exit after the last one is written.
THEOREM LossesHaveCauses == Spec => LossesHaveACause
BY TypeInit, TypeStep, ShutdownInit, ShutdownStep, LossStep, PTL DEF Spec, LossesHaveACause

-----------------------------------------------------------------------------
(* What is left in the buffer *)

\* Away from a flush the buffer holds notices: an update is flushed as soon as it
\* is printed, and the thread leaves the flush with the buffer empty.
NoticesOnly ==
  updaterPc \notin {"flush", "killed"} =>
    \A k \in DOMAIN buffer : buffer[k].kind = "term_instance"

LEMMA NoticesInit == Init => NoticesOnly
BY DEF Init, NoticesOnly

\* Every step keeps NoticesOnly.
LEMMA NoticesStep == TypeInv /\ NoticesOnly /\ [Next]_vars => NoticesOnly'
<1> SUFFICES ASSUME TypeInv, NoticesOnly, [Next]_vars
             PROVE  NoticesOnly'
  OBVIOUS
<1>1. buffer \in Seq(ArrivedLine) /\ todo \in Seq(ArrivedLine)
  BY DEF TypeInv, LineTypes
<1>2. CASE UNCHANGED <<buffer, updaterPc>>
  BY <1>2 DEF NoticesOnly
<1>3. CASE Die
  BY <1>3 DEF Die, NoticesOnly
<1>4. CASE UNCHANGED buffer /\ (updaterPc # "flush" /\ updaterPc # "killed")
  BY <1>4 DEF NoticesOnly
<1>5. CASE PrintLine
  <2>1. CASE Head(todo).kind = "servers"
    BY <1>5, <2>1 DEF PrintLine, NoticesOnly
  <2>2. CASE Head(todo).kind # "servers"
    <3>0. todo # <<>>
      BY <1>5 DEF PrintLine, TypeInv, Holds
    <3>1. Head(todo) \in ArrivedLine
      BY <1>1, <3>0, HeadTailProperties, Zenon
    <3>2. Head(todo).kind = "term_instance"
      BY <2>2, <3>1 DEF ArrivedLine
    <3>3. buffer' = Append(buffer, Head(todo)) /\ updaterPc = "print"
      BY <1>5 DEF PrintLine
    <3>4. \A k \in DOMAIN buffer : buffer[k].kind = "term_instance"
      BY <3>3 DEF NoticesOnly
    <3>5. \A k \in DOMAIN buffer' : buffer'[k].kind = "term_instance"
      BY <1>1, <3>2, <3>3, <3>4
    <3> QED
      BY <3>5 DEF NoticesOnly
  <2> QED
    BY <2>1, <2>2
<1>6. CASE WriteLine /\ ~Die
  <2>1. /\ buffer # <<>> /\ (buffer' = Tail(buffer) \/ buffer' = <<>>)
        /\ updaterPc' = IF updaterPc = "flush" /\ buffer' = <<>>
                        THEN NextLine(todo) ELSE updaterPc
    BY <1>6 DEF WriteLine, Written
  <2>2. CASE buffer' = <<>>
    BY <2>2 DEF NoticesOnly
  <2>3. CASE buffer' # <<>> /\ updaterPc \notin {"flush", "killed"}
    BY <1>1, <2>1, <2>3 DEF NoticesOnly
  <2>4. CASE buffer' # <<>> /\ updaterPc \in {"flush", "killed"}
    BY <2>1, <2>4 DEF NoticesOnly
  <2> QED
    BY <2>2, <2>3, <2>4
<1> QED
  BY <1>2, <1>3, <1>4, <1>5, <1>6
  DEF Next, vars, messageVars, mainVars, relayVars, updaterVars, childVars, MainThread,
      UpdaterThread, Child, Arrive, Interrupt, Receive, ReceiveError, Send, Terminate,
      Join, DestroyContext, Exit, FlushOnClose, Run, Subscribe, Poll, Return, MakeRoom,
      Flush, ProcessCmd, EndChild

\* Updates are flushed before the updater thread waits again: only the lines of
\* notices, which fprintf alone prints, can stay behind in the buffer.
THEOREM OnlyNoticesStay == Spec => []OnlyNoticesLinger
<1>1. NoticesOnly => OnlyNoticesLinger
  BY DEF NoticesOnly, OnlyNoticesLinger
<1> QED
  BY <1>1, TypeInit, TypeStep, NoticesInit, NoticesStep, PTL DEF Spec

=============================================================================
