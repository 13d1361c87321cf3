------------------------------ MODULE Collector -----------------------------
(***************************************************************************)
(* The collector (basic_receiver): everything between the messages of the  *)
(* monitors and the whisper files.                                         *)
(*                                                                         *)
(*   monitors -> subscriber | main thread | publisher -> sock              *)
(*     -> updater thread | stdio buffer -> pipe | whisper_updater.py       *)
(*                                                                         *)
(* Three loops run concurrently: main() republishes each message, the      *)
(* thread of WhisperRRDProxy subscribes to what main() republishes and     *)
(* prints a command line per value, and a Python child started with        *)
(* popen() executes the commands.  The relay drops what finds no           *)
(* subscriber or a full queue, a full pipe blocks the thread, a dead child *)
(* kills the collector at its next write (SIGPIPE) or, where the signal is *)
(* ignored, is never noticed, and a notice is printed without being        *)
(* flushed.                                                                *)
(*                                                                         *)
(* A message is its number in the order of arrival and the kind of its     *)
(* key; a line is its message, its position in it, and that kind.          *)
(***************************************************************************)
EXTENDS Naturals, SequencesExt

CONSTANTS
  LinesPerUpdate,  \* lines get_whisper_updates makes of one update: 4 per domain
  HWM,             \* messages a ZeroMQ queue holds (1000 in the code)
  BufferSize,      \* lines the stdio buffer of m_updater holds
  PipeSize,        \* lines the pipe to the child holds
  MaxMessages,     \* bound: the monitors send no more messages than this
  UpdateMayRaise   \* whether whisper may refuse a timestamp, see UpdateFile

ASSUME SizeAssumption ==
  /\ LinesPerUpdate \in Nat \ {0} /\ HWM \in Nat \ {0}
  /\ BufferSize \in Nat \ {0} /\ PipeSize \in Nat \ {0}
ASSUME BoundAssumption == MaxMessages \in Nat /\ UpdateMayRaise \in BOOLEAN

\* The update of a host without domains is a kind of its own: it has no lines.
Kind == {"servers", "no_domains", "term_instance"}
Message == [n : Nat, kind : Kind]
Line == [n : Nat, i : 1 .. LinesPerUpdate, kind : {"servers", "term_instance"}]

VARIABLES
  \* The main thread.
  arrived,       \* number of messages sent by the monitors so far
  subscriber,    \* the queue of the socket bound to port 12345
  next,          \* the Message between receive and send, if any
  mainPc,
  m_shutdown,
  sigpipe,       \* what the process inherited for the signal, and never changes
  \* The updater thread.
  subscribed,    \* the subscription of sock has reached the publisher
  sock,          \* the queue of sock
  sockOpen,
  todo,          \* lines update_immediate() has yet to print
  updaterPc,
  buffer,        \* lines printed to m_updater and not flushed
  \* The child.
  pipe,
  child,         \* whisper_updater.py
  done           \* history: lines the child has executed, in order

messageVars == <<arrived, subscriber>>
mainVars == <<next, mainPc, m_shutdown, sigpipe>>
relayVars == <<subscribed, sock>>
updaterVars == <<sockOpen, todo, updaterPc>>
childVars == <<child, done>>
vars == <<messageVars, mainVars, relayVars, updaterVars, buffer, pipe, childVars>>

Alive == mainPc \notin {"killed", "exited"}

LineCount(kind) == CASE kind = "servers"       -> LinesPerUpdate
                     [] kind = "no_domains"    -> 0
                     [] kind = "term_instance" -> 1

\* The lines update_immediate() prints for message m.
Lines(m) == [i \in 1 .. LineCount(m.kind) |-> [n |-> m.n, i |-> i, kind |-> m.kind]]

-----------------------------------------------------------------------------
(* The monitors *)

\* A message reaches the subscriber, or its queue is full and it never does.
Arrive ==
  /\ Alive
  /\ arrived < MaxMessages
  /\ arrived' = arrived + 1
  /\ \E kind \in Kind :
       IF Len(subscriber) < HWM
       THEN subscriber' = Append(subscriber, [n |-> arrived', kind |-> kind])
       ELSE UNCHANGED subscriber
  /\ UNCHANGED <<mainVars, relayVars, updaterVars, buffer, pipe, childVars>>

-----------------------------------------------------------------------------
(* The main thread *)

\* The process is gone: by the default action of SIGINT (the installation of the
\* handler is commented out) or of SIGPIPE, or by an exception in the thread.
Die ==
  /\ mainPc' = "killed"
  /\ updaterPc' = "killed"
  /\ UNCHANGED <<messageVars, next, m_shutdown, sigpipe, relayVars, sockOpen, todo,
                 buffer, pipe, childVars>>

Interrupt == Alive /\ Die

Receive ==
  /\ mainPc = "receive"
  /\ subscriber # <<>>
  /\ next' = <<Head(subscriber)>>
  /\ subscriber' = Tail(subscriber)
  /\ mainPc' = "send"
  /\ UNCHANGED <<arrived, m_shutdown, sigpipe, relayVars, updaterVars, buffer, pipe,
                 childVars>>

\* Message::receive throws, because zmq_msg_recv fails or for want of memory, when
\* the message is gone already: the exception sets g_done and the loop ends.
ReceiveError ==
  /\ mainPc = "receive"
  /\ mainPc' = "terminate"
  /\ UNCHANGED subscriber \/ (subscriber # <<>> /\ subscriber' = Tail(subscriber))
  /\ UNCHANGED <<arrived, next, m_shutdown, sigpipe, relayVars, updaterVars, buffer,
                 pipe, childVars>>

Send_Twice ==
  /\ mainPc = "send"
  /\ IF subscribed /\ Len(sock) < HWM
     THEN sock' = sock \o next \o next
     ELSE UNCHANGED sock
  /\ next' = <<>>
  /\ mainPc' = "receive"
  /\ UNCHANGED <<messageVars, m_shutdown, sigpipe, subscribed, updaterVars, buffer,
                 pipe, childVars>>

\* A PUB socket drops what the subscriber has not asked for or has no room for.
Send ==
  /\ mainPc = "send"
  /\ IF subscribed /\ Len(sock) < HWM
     THEN sock' = sock \o next
     ELSE UNCHANGED sock
  /\ next' = <<>>
  /\ mainPc' = "receive"
  /\ UNCHANGED <<messageVars, m_shutdown, sigpipe, subscribed, updaterVars, buffer,
                 pipe, childVars>>

Terminate_FlagNotSet ==
  /\ mainPc = "terminate"
  /\ mainPc' = "join"
  /\ UNCHANGED <<messageVars, next, m_shutdown, sigpipe, relayVars, updaterVars, buffer,
                 pipe, childVars>>

Terminate ==
  /\ mainPc = "terminate"
  /\ m_shutdown' = TRUE
  /\ mainPc' = "join"
  /\ UNCHANGED <<messageVars, next, sigpipe, relayVars, updaterVars, buffer, pipe,
                 childVars>>

Join_NotAwaited ==
  /\ mainPc = "join"
  /\ mainPc' = "destroy"
  /\ UNCHANGED <<messageVars, next, m_shutdown, sigpipe, relayVars, updaterVars, buffer,
                 pipe, childVars>>

\* pthread_join, then main() closes its own two sockets.
Join ==
  /\ mainPc = "join"
  /\ updaterPc = "returned"
  /\ mainPc' = "destroy"
  /\ UNCHANGED <<messageVars, next, m_shutdown, sigpipe, relayVars, updaterVars, buffer,
                 pipe, childVars>>

\* zmq_ctx_destroy waits for every socket of the context to be closed, unless the
\* wait is interrupted, and its result is ignored.
DestroyContext(interrupted) ==
  /\ mainPc = "destroy"
  /\ interrupted \/ ~sockOpen
  /\ mainPc' = "pclose"
  /\ UNCHANGED <<messageVars, next, m_shutdown, sigpipe, relayVars, updaterVars, buffer,
                 pipe, childVars>>

\* ~WhisperRRDProxy: pclose() waits for the child, once the buffer is flushed.
Exit ==
  /\ mainPc = "pclose"
  /\ buffer = <<>>
  /\ child \in {"raised", "ended"}
  /\ mainPc' = "exited"
  /\ UNCHANGED <<messageVars, next, m_shutdown, sigpipe, relayVars, updaterVars, buffer,
                 pipe, childVars>>

-----------------------------------------------------------------------------
(* The updater thread *)

\* run(): popen() starts the child, or fails and throws; then run_proxy_loop()
\* opens and connects its socket.
Run ==
  /\ updaterPc = "popen"
  /\ \/ /\ child' = "running"
        /\ sockOpen' = TRUE
        /\ updaterPc' = "poll"
        /\ UNCHANGED <<messageVars, mainVars, relayVars, todo, buffer, pipe, done>>
     \/ Die

\* The connection is made and the publisher told of the subscription, some time
\* after zmq_connect returned.
Subscribe ==
  /\ sockOpen
  /\ Alive
  /\ ~subscribed
  /\ subscribed' = TRUE
  /\ UNCHANGED <<messageVars, mainVars, sock, updaterVars, buffer, pipe, childVars>>

\* Where update_immediate() goes with these lines left to print.
NextLine_FirstOnly(rest) == "poll"
NextLine_Always(rest) == "print"
NextLine(rest) == IF rest = <<>> THEN "poll" ELSE "print"

\* One turn of the loop that finds a message within the 100 ms of zmq_poll.
Poll ==
  /\ updaterPc = "poll"
  /\ ~m_shutdown
  /\ sock # <<>>
  /\ todo' = Lines(Head(sock))
  /\ sock' = Tail(sock)
  /\ updaterPc' = NextLine(todo')
  /\ UNCHANGED <<messageVars, mainVars, subscribed, sockOpen, buffer, pipe, childVars>>

\* The loop ends.  zmq_close is given the address of the variable instead of the
\* socket, and fails: the socket stays open.
Return ==
  /\ updaterPc = "poll"
  /\ m_shutdown
  /\ updaterPc' = "returned"
  /\ UNCHANGED <<messageVars, mainVars, relayVars, sockOpen, todo, buffer, pipe,
                 childVars>>

PrintLine_FlushForgotten ==
  /\ updaterPc = "print"
  /\ Len(buffer) < BufferSize
  /\ buffer' = Append(buffer, Head(todo))
  /\ todo' = Tail(todo)
  /\ updaterPc' = NextLine(todo')
  /\ UNCHANGED <<messageVars, mainVars, relayVars, sockOpen, pipe, childVars>>

\* fprintf of the next line: that of an update is followed by fflush, that of a
\* notice is not.
PrintLine ==
  /\ updaterPc = "print"
  /\ Len(buffer) < BufferSize
  /\ buffer' = Append(buffer, Head(todo))
  /\ todo' = Tail(todo)
  /\ updaterPc' = IF Head(todo).kind = "servers" THEN "flush" ELSE NextLine(todo')
  /\ UNCHANGED <<messageVars, mainVars, relayVars, sockOpen, pipe, childVars>>

\* fprintf finds the buffer full, and has to flush it first.
MakeRoom ==
  /\ updaterPc = "print"
  /\ Len(buffer) = BufferSize
  /\ updaterPc' = "flush"
  /\ UNCHANGED <<messageVars, mainVars, relayVars, sockOpen, todo, buffer, pipe,
                 childVars>>

\* Whose turn it is after the last line is up to the caller of write: fflush in
\* the thread, or pclose in main().
Written == updaterPc' = IF updaterPc = "flush" /\ buffer' = <<>>
                        THEN NextLine(todo) ELSE updaterPc

\* A line leaves the buffer for the pipe, once there is room.  Without a child to
\* read it the write raises SIGPIPE, or fails where the signal is ignored: then
\* the library forgets what is in the buffer, and nobody looks at the result.
WriteLine ==
  /\ buffer # <<>>
  /\ \/ /\ child = "running"
        /\ Len(pipe) < PipeSize
        /\ pipe' = Append(pipe, Head(buffer))
        /\ buffer' = Tail(buffer)
        /\ Written
        /\ UNCHANGED <<messageVars, mainVars, relayVars, sockOpen, todo, childVars>>
     \/ child = "raised" /\ sigpipe = "default" /\ Die
     \/ /\ child = "raised" /\ sigpipe = "ignored"
        /\ buffer' = <<>>
        /\ Written
        /\ UNCHANGED <<messageVars, mainVars, relayVars, sockOpen, todo, pipe,
                       childVars>>

Flush == updaterPc = "flush" /\ WriteLine

FlushOnClose == mainPc = "pclose" /\ WriteLine

-----------------------------------------------------------------------------
(* whisper_updater.py *)

\* Nobody can write to the pipe any more.
EndOfFile == ~Alive \/ (mainPc = "pclose" /\ buffer = <<>>)

\* whisper.update writes the value, or raises TimestampNotCovered, which nobody
\* catches, when the monitor's clock is ahead of the collector's or 15 minutes behind.
UpdateFile(line) ==
  \/ /\ done' = Append(done, line)
     /\ UNCHANGED child
  \/ /\ UpdateMayRaise
     /\ child' = "raised"
     /\ UNCHANGED done

\* terminate_instance only prints: the files of the instance stay.
TerminateInstance(line) ==
  /\ done' = Append(done, line)
  /\ UNCHANGED child

\* readline(), then process_cmd().
ProcessCmd ==
  /\ child = "running"
  /\ pipe # <<>>
  /\ pipe' = Tail(pipe)
  /\ LET line == Head(pipe)
     IN  \/ line.kind = "servers" /\ UpdateFile(line)
         \/ line.kind = "term_instance" /\ TerminateInstance(line)
  /\ UNCHANGED <<messageVars, mainVars, relayVars, updaterVars, buffer>>

EndChild ==
  /\ child = "running"
  /\ pipe = <<>>
  /\ EndOfFile
  /\ child' = "ended"
  /\ UNCHANGED <<messageVars, mainVars, relayVars, updaterVars, buffer, pipe, done>>

-----------------------------------------------------------------------------
Init ==
  /\ arrived = 0
  /\ subscriber = <<>>
  /\ next = <<>>
  /\ mainPc = "receive"
  /\ m_shutdown = FALSE
  /\ sigpipe \in {"default", "ignored"}
  /\ subscribed = FALSE
  /\ sock = <<>>
  /\ sockOpen = FALSE
  /\ todo = <<>>
  /\ updaterPc = "popen"
  /\ buffer = <<>>
  /\ pipe = <<>>
  /\ child = "none"
  /\ done = <<>>

MainThread == Receive \/ Send \/ Terminate \/ Join \/ Exit \/ FlushOnClose

UpdaterThread == Run \/ Poll \/ Return \/ PrintLine \/ MakeRoom \/ Flush

Child == ProcessCmd \/ EndChild

Next ==
  \/ Arrive
  \/ Interrupt
  \/ ReceiveError
  \/ MainThread
  \/ \E interrupted \in BOOLEAN : DestroyContext(interrupted)
  \/ Subscribe
  \/ UpdaterThread
  \/ Child

Spec == Init /\ [][Next]_vars

\* Threads and the child run when they can, and ZeroMQ's own thread completes the
\* subscription.  Monitors, signals and failing calls are under no obligation.
Fairness ==
  /\ WF_vars(MainThread)
  /\ WF_vars(DestroyContext(FALSE))
  /\ WF_vars(UpdaterThread)
  /\ WF_vars(Child)
  /\ WF_vars(Subscribe)

FairSpec == Spec /\ Fairness

-----------------------------------------------------------------------------
\* Every queue holds messages or lines and respects its capacity, and every
\* thread is at one of its statements.
TypeOK ==
  /\ arrived \in 0 .. MaxMessages
  /\ subscriber \in Seq(Message) /\ Len(subscriber) <= HWM
  /\ next \in Seq(Message) /\ Len(next) <= 1 /\ (mainPc = "send" => next # <<>>)
  /\ mainPc \in {"receive", "send", "terminate", "join", "destroy", "pclose",
                 "exited", "killed"}
  /\ m_shutdown \in BOOLEAN
  /\ sigpipe \in {"default", "ignored"}
  /\ subscribed \in BOOLEAN
  /\ sock \in Seq(Message) /\ Len(sock) <= HWM
  /\ sockOpen \in BOOLEAN
  /\ todo \in Seq(Line) /\ (updaterPc = "print" => todo # <<>>)
  /\ updaterPc \in {"popen", "poll", "print", "flush", "returned", "killed"}
  /\ buffer \in Seq(Line) /\ Len(buffer) <= BufferSize
  /\ pipe \in Seq(Line) /\ Len(pipe) <= PipeSize
  /\ child \in {"none", "running", "raised", "ended"}
  /\ done \in Seq(Line)

\* The lines printed or about to be, and the messages behind them, each in the
\* order in which they are, or will be, executed.
Lined == done \o pipe \o buffer \o todo
Unread == sock \o next \o subscriber

\* Line a is executed before line b.
Before(a, b) == \/ a.n < b.n
                \/ a.n = b.n /\ a.i < b.i

\* Across two sockets, two threads, a buffer and a pipe, no line is executed out
\* of order or twice, so no value ever overwrites a newer one of its file.
PipelineOrdered ==
  /\ \A j, k \in DOMAIN Lined : j < k => Before(Lined[j], Lined[k])
  /\ \A j, k \in DOMAIN Unread : j < k => Unread[j].n < Unread[k].n
  /\ \A j \in DOMAIN Lined, k \in DOMAIN Unread : Lined[j].n < Unread[k].n

\* The messages a thread of the collector has yet to take up, and the lines that are
\* executed or that a thread or the child is about to deal with.
Waiting ==
  (IF mainPc \in {"receive", "send"} THEN ToSet(subscriber) \union ToSet(next) ELSE {})
    \union (IF Alive /\ updaterPc # "returned" THEN ToSet(sock) ELSE {})
Accepted ==
  ToSet(done)
    \union (IF child # "raised" THEN ToSet(pipe) ELSE {})
    \union (IF Alive /\ child # "raised" THEN ToSet(buffer) \union ToSet(todo) ELSE {})

\* What may happen to a message that waits no longer.
TakenUp(m) ==
  \/ mainPc' = "killed"
  \/ m \in ToSet(subscriber) /\ mainPc' = "terminate"
  \/ m \in ToSet(next) /\ (~subscribed \/ Len(sock) = HWM)
  \/ /\ m \in ToSet(sock)
     /\ updaterPc' = "returned" \/ child = "raised" \/ ToSet(Lines(m)) \subseteq Accepted'

\* A message is lost at a full or unsubscribed queue, in a socket nobody reads any
\* more once the loop of main() or run_proxy_loop has ended, or with the process; a
\* line is lost with the process or when the child raises.  Nothing else loses one:
\* not a flush, a full pipe, the join, pclose, nor the end of the process after them.
LossHasACause ==
  /\ \A m \in Waiting \ Waiting' : TakenUp(m)
  /\ \A l \in Accepted \ Accepted' : mainPc' = "killed" \/ child' = "raised"
  /\ arrived' # arrived /\ mainPc \in {"receive", "send"} /\ Len(subscriber) < HWM
       => \E m \in Waiting' : m.n = arrived'

LossesHaveACause == [][LossHasACause]_vars

\* When the updater thread goes back to wait, what it has left behind in the
\* buffer, where the child cannot see it, is notices and nothing else.
OnlyNoticesLinger ==
  updaterPc = "poll" => \A k \in DOMAIN buffer : buffer[k].kind = "term_instance"

-----------------------------------------------------------------------------
(* Liveness, under FairSpec *)

Executed(m) == ToSet(Lines(m)) \subseteq ToSet(done)

\* An update that has reached the updater's queue is written to its files, unless
\* the collector is stopped first or the child has died.
UpdatesAreWritten ==
  \A n \in 1 .. MaxMessages :
    LET m == [n |-> n, kind |-> "servers"]
    IN  m \in ToSet(sock) ~> Executed(m) \/ m_shutdown \/ ~Alive \/ child = "raised"

\* The updater thread, even when a full pipe blocks it, is always joined in the end.
JoinReturns == mainPc = "terminate" ~> mainPc = "destroy" \/ ~Alive

\* After "shutting down" the process ends.
ShutdownCompletes == mainPc = "destroy" ~> ~Alive

\* Where SIGPIPE has its default action the collector does not outlive a child that
\* has died: the next update with a line to write kills it.
DeadChildIsNoticed ==
  \A n \in 1 .. MaxMessages :
    LET m == [n |-> n, kind |-> "servers"]
    IN  sigpipe = "default" /\ child = "raised" /\ m \in ToSet(sock)
          ~> m_shutdown \/ ~Alive

=============================================================================
