------------------------ MODULE IntermediateReceiver -------------------------
(***************************************************************************)
(* The intermediate receiver: a relay between the monitors and a collector *)
(* it connects to.  Its one thread receives, sends on and prints messages  *)
(* until a SIGINT sets a flag, which the loop tests once a turn, or until  *)
(* anything in the loop throws.                                            *)
(*                                                                         *)
(* The signal may come at any point: one that comes while zmq_msg_recv     *)
(* waits makes it fail, one that comes between the test of the flag and    *)
(* the wait does not.  The connection to the collector comes and goes, and *)
(* the PUB socket, which has no linger set, outlives zmq_close until its   *)
(* queue is empty.                                                         *)
(*                                                                         *)
(* A message is its number in the order of arrival.                        *)
(***************************************************************************)
EXTENDS Naturals, SequencesExt

CONSTANTS
  HWM,         \* messages a ZeroMQ queue holds (1000 in the code)
  MaxMessages  \* bound: the monitors send no more messages than this

ASSUME HWMAssumption == HWM \in Nat \ {0}
ASSUME BoundAssumption == MaxMessages \in Nat

VARIABLES
  arrived,      \* number of messages sent by the monitors so far
  subscriber,   \* the queue of the SUB socket
  next,         \* the message between receive and send, if any
  publisher,    \* the queue of the PUB socket
  sockets,      \* the sockets not closed yet
  pc,
  g_done,
  \* The collector's end.
  connected,
  subscribed,   \* the PUB socket knows of the collector's subscription
  received,     \* history: what has reached a collector, in order
  \* History.
  interrupted,  \* a SIGINT has come
  late          \* messages sent on since then, counted up to 2

queueVars == <<subscriber, next, publisher>>
linkVars == <<connected, subscribed, received>>
history == <<interrupted, late>>
vars == <<arrived, queueVars, sockets, pc, g_done, linkVars, history>>

Looping == pc \in {"test", "receive", "waiting", "send", "print"}

-----------------------------------------------------------------------------
(* The monitors, the collector and the connection to it. *)

Arrive ==
  /\ "subscriber" \in sockets
  /\ arrived < MaxMessages
  /\ arrived' = arrived + 1
  /\ IF Len(subscriber) < HWM
     THEN subscriber' = Append(subscriber, arrived')
     ELSE UNCHANGED subscriber
  /\ UNCHANGED <<next, publisher, sockets, pc, g_done, linkVars, history>>

Connect ==
  /\ pc # "exited"
  /\ ~connected
  /\ connected' = TRUE
  /\ UNCHANGED <<arrived, queueVars, sockets, pc, g_done, subscribed, received, history>>

Subscribe ==
  /\ connected
  /\ ~subscribed
  /\ subscribed' = TRUE
  /\ UNCHANGED <<arrived, queueVars, sockets, pc, g_done, connected, received, history>>

Transmit ==
  /\ connected
  /\ publisher # <<>>
  /\ publisher' = Tail(publisher)
  /\ received' = Append(received, Head(publisher))
  /\ UNCHANGED <<arrived, subscriber, next, sockets, pc, g_done, connected, subscribed,
                 history>>

\* What the connection had taken and not delivered is lost; the rest of the queue
\* and the subscription wait for the next connection.
Disconnect ==
  /\ connected
  /\ connected' = FALSE
  /\ \E k \in 0 .. Len(publisher) : publisher' = SubSeq(publisher, k + 1, Len(publisher))
  /\ UNCHANGED <<arrived, subscriber, next, sockets, pc, g_done, subscribed, received,
                 history>>

-----------------------------------------------------------------------------
(* main() *)

\* The handler sets the flag; the call the process is blocked in fails.  Of
\* zmq_msg_recv the loop makes an exception, that of zmq_ctx_destroy is ignored,
\* and main() returns, whatever is left to be sent.
HandleInterrupt ==
  /\ pc # "exited"
  /\ ~g_done \/ pc \in {"waiting", "terminating"}
  /\ g_done' = TRUE
  /\ interrupted' = TRUE
  /\ \/ pc = "waiting" /\ pc' = "test"
     \/ pc = "terminating" /\ pc' = "exited"
     \/ pc \notin {"waiting", "terminating"} /\ pc' = pc
  /\ connected' = (connected /\ pc' # "exited")
  /\ publisher' = IF pc' = "exited" THEN <<>> ELSE publisher
  /\ UNCHANGED <<arrived, subscriber, next, sockets, subscribed, received, late>>

LoopTest_FlagIgnored ==
  /\ pc = "test"
  /\ pc' = "receive"
  /\ UNCHANGED <<arrived, queueVars, sockets, g_done, linkVars, history>>

LoopTest ==
  /\ pc = "test"
  /\ pc' = IF g_done THEN "close" ELSE "receive"
  /\ UNCHANGED <<arrived, queueVars, sockets, g_done, linkVars, history>>

\* zmq_msg_recv finds nothing and waits.
Wait ==
  /\ pc = "receive"
  /\ subscriber = <<>>
  /\ pc' = "waiting"
  /\ UNCHANGED <<arrived, queueVars, sockets, g_done, linkVars, history>>

Receive_Peeked ==
  /\ pc \in {"receive", "waiting"}
  /\ subscriber # <<>>
  /\ next' = <<Head(subscriber)>>
  /\ pc' = "send"
  /\ UNCHANGED <<arrived, subscriber, publisher, sockets, g_done, linkVars, history>>

Receive ==
  /\ pc \in {"receive", "waiting"}
  /\ subscriber # <<>>
  /\ next' = <<Head(subscriber)>>
  /\ subscriber' = Tail(subscriber)
  /\ pc' = "send"
  /\ UNCHANGED <<arrived, publisher, sockets, g_done, linkVars, history>>

Send_Kept ==
  /\ pc = "send"
  /\ IF subscribed /\ Len(publisher) < HWM
     THEN publisher' = publisher \o next
     ELSE UNCHANGED publisher
  /\ late' = IF interrupted /\ late < 2 THEN late + 1 ELSE late
  /\ pc' = "print"
  /\ UNCHANGED <<arrived, subscriber, next, sockets, g_done, linkVars, interrupted>>

\* A PUB socket drops what nobody has asked for or it has no room for.
Send ==
  /\ pc = "send"
  /\ IF subscribed /\ Len(publisher) < HWM
     THEN publisher' = publisher \o next
     ELSE UNCHANGED publisher
  /\ next' = <<>>
  /\ late' = IF interrupted /\ late < 2 THEN late + 1 ELSE late
  /\ pc' = "print"
  /\ UNCHANGED <<arrived, subscriber, sockets, g_done, linkVars, interrupted>>

\* The message is unpacked and its contents printed.
Unpack ==
  /\ pc = "print"
  /\ pc' = "test"
  /\ UNCHANGED <<arrived, queueVars, sockets, g_done, linkVars, history>>

\* Receiving or unpacking throws, for want of memory or for data that is no
\* aggregate: the loop is left, and a message not sent on yet is lost.
Throw ==
  /\ pc \in {"send", "print"}
  /\ g_done' = TRUE
  /\ next' = <<>>
  /\ pc' = "test"
  /\ UNCHANGED <<arrived, subscriber, publisher, sockets, linkVars, history>>

CloseSockets_LingerZero ==
  /\ pc = "close"
  /\ sockets' = {}
  /\ subscriber' = <<>>
  /\ publisher' = <<>>
  /\ pc' = "destroy"
  /\ UNCHANGED <<arrived, next, g_done, linkVars, history>>

CloseSockets_PublisherForgotten ==
  /\ pc = "close"
  /\ sockets' = {"publisher"}
  /\ subscriber' = <<>>
  /\ pc' = "destroy"
  /\ UNCHANGED <<arrived, next, publisher, g_done, linkVars, history>>

\* zmq_close, twice: what has not been received is lost, what has been sent on
\* stays with the context.
CloseSockets ==
  /\ pc = "close"
  /\ sockets' = {}
  /\ subscriber' = <<>>
  /\ pc' = "destroy"
  /\ UNCHANGED <<arrived, next, publisher, g_done, linkVars, history>>

\* zmq_ctx_destroy begins to wait, for closed sockets and empty queues.
DestroyContext ==
  /\ pc = "destroy"
  /\ pc' = "terminating"
  /\ UNCHANGED <<arrived, queueVars, sockets, g_done, linkVars, history>>

Exit ==
  /\ pc = "terminating"
  /\ sockets = {}
  /\ publisher = <<>>
  /\ pc' = "exited"
  /\ connected' = FALSE
  /\ UNCHANGED <<arrived, queueVars, sockets, g_done, subscribed, received, history>>

-----------------------------------------------------------------------------
Init ==
  /\ arrived = 0
  /\ subscriber = <<>>
  /\ next = <<>>
  /\ publisher = <<>>
  /\ sockets = {"publisher", "subscriber"}
  /\ pc = "test"
  /\ g_done = FALSE
  /\ connected = FALSE
  /\ subscribed = FALSE
  /\ received = <<>>
  /\ interrupted = FALSE
  /\ late = 0

main == \/ LoopTest \/ Wait \/ Receive \/ Send \/ Unpack
        \/ CloseSockets \/ DestroyContext \/ Exit

Link == Subscribe \/ Transmit

Next == Arrive \/ Connect \/ Disconnect \/ Link \/ HandleInterrupt \/ Throw \/ main

Spec == Init /\ [][Next]_vars

\* The process runs when it can, and a connection that is there carries data.
\* Monitors, collectors and operators are under no obligation.
FairSpec == Spec /\ WF_vars(main) /\ WF_vars(Link)

-----------------------------------------------------------------------------
\* Queues respect their capacity, a message is held exactly between receive and
\* send, and main() is at one of its calls.
TypeOK ==
  /\ arrived \in 0 .. MaxMessages
  /\ subscriber \in Seq(1 .. arrived) /\ Len(subscriber) <= HWM
  /\ next \in Seq(1 .. arrived) /\ Len(next) = IF pc = "send" THEN 1 ELSE 0
  /\ publisher \in Seq(1 .. arrived) /\ Len(publisher) <= HWM
  /\ sockets \subseteq {"publisher", "subscriber"}
  /\ Looping \/ pc \in {"close", "destroy", "terminating", "exited"}
  /\ {g_done, connected, subscribed, interrupted} \subseteq BOOLEAN
  /\ received \in Seq(1 .. arrived)
  /\ late \in 0 .. 2

InTransit == received \o publisher \o next \o subscriber

\* Through full queues, collectors that come and go and the shutdown, what reaches
\* the collectors is in the order of arrival and nothing is sent on twice
\* (Message::receive, Message::send, the loop of main()).
RelayOrdered ==
  \A j, k \in DOMAIN InTransit : j < k => InTransit[j] < InTransit[k]

\* The messages that have arrived or still can: those that wait to be received while
\* the loop runs, and those sent on while the process lives.
Kept == ToSet(received)
          \union (IF pc # "exited" THEN ToSet(publisher) ELSE {})
          \union (IF Looping THEN ToSet(next) \union ToSet(subscriber) ELSE {})

\* How a message may be dropped: it is not received when the loop ends; there is no
\* subscriber or no room for it when it is sent on, or the loop throws before it is;
\* the connection that has taken it breaks; or a signal ends the wait for a collector.
DroppedFor(n) ==
  \/ n \in ToSet(subscriber) /\ g_done /\ pc' = "close"
  \/ n \in ToSet(next) /\ (~subscribed \/ Len(publisher) = HWM \/ (pc' = "test" /\ g_done'))
  \/ n \in ToSet(publisher) /\ connected /\ ~connected' /\ pc' = pc
  \/ n \in ToSet(publisher) /\ pc = "terminating" /\ HandleInterrupt

DropHasACause ==
  /\ \A n \in Kept \ Kept' : DroppedFor(n)
  /\ Kept' \ Kept \subseteq (1 .. arrived') \ (1 .. arrived)
  /\ arrived' # arrived /\ Looping /\ Len(subscriber) < HWM => arrived' \in Kept'

\* A message is dropped for one of those causes and no other: closing the sockets
\* drops nothing that was sent on, and the process does not end of itself before
\* that is delivered.  Nothing dropped turns up again.
DropsHaveACause == [][DropHasACause]_vars

\* A relay that was told to stop sends at most one more message: the one it was
\* working on, or the one it was about to wait for.
AtMostOneMore == late <= 1

-----------------------------------------------------------------------------
(* Liveness, under FairSpec *)

\* An interrupt ends the loop without waiting for another message, wherever it
\* strikes but between the test of the flag and the wait: if it interrupts the wait
\* it leads back to the test.
InterruptIsHonoured ==
  interrupted /\ pc \in {"test", "send", "print"} ~> ~Looping

\* Once the loop is left the process ends, unless messages are left for a collector
\* that is not there.
ShutdownEnds ==
  pc = "close" ~> pc = "exited" \/ (publisher # <<>> /\ ~connected)

=============================================================================
