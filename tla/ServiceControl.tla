--------------------------- MODULE ServiceControl ---------------------------
(***************************************************************************)
(* sm_ctl: the start and stop commands for one of the two services, the    *)
(* pid file they share, and the processes.                                 *)
(*                                                                         *)
(* A command is a sequence of system calls, and whatever else runs on the  *)
(* machine comes between them: a second command, the service it has just   *)
(* started or signalled, a crash of the service, other programs that are   *)
(* given a process id that has become free.  A command may also be killed  *)
(* before its next call.                                                   *)
(***************************************************************************)
EXTENDS Naturals, FiniteSets

CONSTANTS
  Operator,      \* who runs commands, one at a time each
  Pid,           \* process ids; one that is free is handed out again
  ServiceMayCrash

ASSUME ServiceAssumption ==
  /\ ServiceMayCrash \in BOOLEAN
  /\ Pid \intersect {"absent", "empty", "none"} = {}

VARIABLES
  which,    \* the service: the collector, which binds a port and dies of SIGINT
            \* at once, or the monitor, which does neither
  process,  \* what each process id is: see TypeOK
  pidfile,  \* "absent", "empty" or the process id written in it
  command,  \* the call each operator's command makes next, "none" between commands
  pid,      \* the local variable pid of each command
  raced,    \* history: two commands have been under way at once
  crashed,  \* history: the service has crashed
  killed    \* history: which commands have been killed half-way

vars == <<which, process, pidfile, command, pid, raced, crashed, killed>>
history == <<raced, crashed, killed>>

\* The service's processes, from fork() until they are told to stop.
Serving == {p \in Pid : process[p] \in {"forked", "running"}}

-----------------------------------------------------------------------------
(* Processes *)

\* execvp() in the child.  A second collector finds the port taken: its assertion
\* fails and it aborts.
Exec(p) ==
  /\ process[p] = "forked"
  /\ process' = [process EXCEPT ![p] =
       IF which = "collector" /\ \E q \in Pid : process[q] = "running" THEN "free" ELSE "running"]
  /\ UNCHANGED <<which, pidfile, command, pid, history>>

Crash(p) ==
  /\ ServiceMayCrash
  /\ process[p] = "running"
  /\ process' = [process EXCEPT ![p] = "free"]
  /\ crashed' = TRUE
  /\ UNCHANGED <<which, pidfile, command, pid, raced, killed>>

\* The monitor, whose SIGINT handler has set g_done, leaves its loop.
Finish(p) ==
  /\ process[p] = "stopping"
  /\ process' = [process EXCEPT ![p] = "free"]
  /\ UNCHANGED <<which, pidfile, command, pid, history>>

\* Another program starts or ends.
OtherProgram(p) ==
  /\ \/ process[p] = "free" /\ process' = [process EXCEPT ![p] = "other"]
     \/ process[p] = "other" /\ process' = [process EXCEPT ![p] = "free"]
  /\ UNCHANGED <<which, pidfile, command, pid, history>>

-----------------------------------------------------------------------------
(* sm_ctl start *)

\* Commands end by returning or by an exception; either way they are over.
End(o) == command' = [command EXCEPT ![o] = "none"]
GoOn(o, call) == command' = [command EXCEPT ![o] = call]

Begin(o, call) ==
  /\ GoOn(o, call)
  /\ raced' = (raced \/ \E q \in Operator \ {o} : command[q] # "none")

StartExists_Unchecked(o) ==
  /\ command[o] = "none"
  /\ Begin(o, "fork")
  /\ UNCHANGED <<which, process, pidfile, pid, crashed, killed>>

\* os.path.exists; with a pid file, "appears to be already running".
StartExists(o) ==
  /\ command[o] = "none"
  /\ pidfile = "absent"
  /\ Begin(o, "fork")
  /\ UNCHANGED <<which, process, pidfile, pid, crashed, killed>>

Fork(o) ==
  /\ command[o] = "fork"
  /\ \E p \in Pid :
       /\ process[p] = "free"
       /\ process' = [process EXCEPT ![p] = "forked"]
       /\ pid' = [pid EXCEPT ![o] = p]
  /\ GoOn(o, "open")
  /\ UNCHANGED <<which, pidfile, history>>

\* open(pidfile, 'w') creates or truncates the file.
Open(o) ==
  /\ command[o] = "open"
  /\ pidfile' = "empty"
  /\ GoOn(o, "write")
  /\ UNCHANGED <<which, process, pid, history>>

Write_NotClosed(o) ==
  /\ command[o] \in {"write", "write_unlinked"}
  /\ End(o)
  /\ UNCHANGED <<which, process, pidfile, pid, history>>

\* The pid reaches the file when the with statement closes it, if the file still
\* has its name.  (Two commands that write one file write pids of one length.)
Write(o) ==
  /\ command[o] \in {"write", "write_unlinked"}
  /\ pidfile' = IF command[o] = "write" THEN pid[o] ELSE pidfile
  /\ End(o)
  /\ UNCHANGED <<which, process, pid, history>>

-----------------------------------------------------------------------------
(* sm_ctl stop *)

\* os.path.exists; without a pid file, "does not appear to be running".
StopExists(o) ==
  /\ command[o] = "none"
  /\ pidfile # "absent"
  /\ Begin(o, "read")
  /\ UNCHANGED <<which, process, pidfile, pid, crashed, killed>>

ReadPid_AnyContent(o) ==
  /\ command[o] = "read"
  /\ pid' = [pid EXCEPT ![o] = pidfile]
  /\ GoOn(o, "kill")
  /\ UNCHANGED <<which, process, pidfile, history>>

\* readpid: opening a missing file raises IOError and an empty one is no int();
\* only OSError is caught.
ReadPid(o) ==
  /\ command[o] = "read"
  /\ \/ /\ pidfile \in Pid
        /\ pid' = [pid EXCEPT ![o] = pidfile]
        /\ GoOn(o, "kill")
     \/ /\ pidfile \notin Pid
        /\ End(o)
        /\ UNCHANGED pid
  /\ UNCHANGED <<which, process, pidfile, history>>

\* What SIGINT makes of a process: the monitor's handler lets it finish, anything
\* else dies of it, the child of a fork that has not called execvp included.
AfterInterrupt(p) ==
  IF which = "monitor" /\ process[p] \in {"running", "stopping"}
  THEN "stopping" ELSE "free"

Kill_NoSignal(o) ==
  /\ command[o] = "kill"
  /\ GoOn(o, "unlink")
  /\ UNCHANGED <<which, process, pidfile, pid, history>>

\* os.kill raises if there is no such process, and then the file stays.
Kill(o) ==
  /\ command[o] = "kill"
  /\ \/ /\ process[pid[o]] # "free"
        /\ process' = [process EXCEPT ![pid[o]] = AfterInterrupt(pid[o])]
        /\ GoOn(o, "unlink")
     \/ /\ process[pid[o]] = "free"
        /\ End(o)
        /\ UNCHANGED process
  /\ UNCHANGED <<which, pidfile, pid, history>>

Unlink_Forgotten(o) ==
  /\ command[o] = "unlink"
  /\ End(o)
  /\ UNCHANGED <<which, process, pidfile, pid, history>>

\* os.unlink, which raises if the file is gone already.  A start that has opened
\* the file goes on to write one that has lost its name.
Unlink(o) ==
  /\ command[o] = "unlink"
  /\ pidfile' = "absent"
  /\ command' = [q \in Operator |-> IF q = o THEN "none"
                                   ELSE IF command[q] = "write" THEN "write_unlinked"
                                   ELSE command[q]]
  /\ UNCHANGED <<which, process, pid, history>>

\* The command is killed.  A child it has forked goes on, and a file it has opened
\* stays as it is.
Killed(o) ==
  /\ command[o] # "none"
  /\ killed' = killed \union
       {IF command[o] \in {"read", "kill", "unlink"} THEN "stop" ELSE "start"}
  /\ End(o)
  /\ UNCHANGED <<which, process, pidfile, pid, raced, crashed>>

-----------------------------------------------------------------------------
Init ==
  /\ which \in {"collector", "monitor"}
  /\ process \in [Pid -> {"free", "other"}]
  /\ pidfile = "absent"
  /\ command = [o \in Operator |-> "none"]
  /\ pid = [o \in Operator |-> "none"]
  /\ raced = FALSE
  /\ crashed = FALSE
  /\ killed = {}

Processes == \E p \in Pid : Exec(p) \/ Crash(p) \/ Finish(p) \/ OtherProgram(p)

start(o) == StartExists(o) \/ Fork(o) \/ Open(o) \/ Write(o)
stop(o) == StopExists(o) \/ ReadPid(o) \/ Kill(o) \/ Unlink(o)

Next == Processes \/ \E o \in Operator : start(o) \/ stop(o) \/ Killed(o)

Spec == Init /\ [][Next]_vars

-----------------------------------------------------------------------------
\* The pid file is missing, empty or names a process; every command is at one of
\* its calls.
TypeOK ==
  /\ which \in {"collector", "monitor"}
  /\ process \in [Pid -> {"free", "other", "forked", "running", "stopping"}]
  /\ pidfile \in {"absent", "empty"} \union Pid
  /\ command \in [Operator -> {"none", "fork", "open", "write", "write_unlinked",
                            "read", "kill", "unlink"}]
  /\ pid \in [Operator -> Pid \union {"none"}]
  /\ raced \in BOOLEAN
  /\ crashed \in BOOLEAN
  /\ killed \subseteq {"start", "stop"}

\* While commands are given one after the other the service runs once, crashes or
\* not: start refuses, "appears to be already running", while a process is
\* serving, even one that has not got as far as execvp.  A stop that is killed does
\* no harm; a start that is killed may leave a service that nobody knows of.
ServesOnce == ~raced /\ "start" \notin killed => Cardinality(Serving) <= 1

\* Between such commands no serving process is out of reach of stop: the pid file
\* names it, whatever crashed, was started or was stopped half-way in between.
NoOrphan ==
  ~raced /\ "start" \notin killed /\ (\A o \in Operator : command[o] = "none")
    => \A p \in Serving : pidfile = p

\* No command has met another, and neither a command nor the service has come to grief.
Undisturbed == ~raced /\ ~crashed /\ killed = {}

\* As long as the service has not crashed and no command was killed, stop signals
\* the service and never another program that was given its pid: stop removes the
\* file it has used.
StopHitsService ==
  Undisturbed =>
    \A o \in Operator : command[o] = "kill" => process[pid[o]] \in {"forked", "running"}

\* However many commands run at once, a pid file without a pid has a start about to
\* write one, so that readpid's int() does not fail for good, unless a start was
\* killed.
NeverLeftEmpty ==
  pidfile = "empty" /\ "start" \notin killed => \E o \in Operator : command[o] = "write"

\* A stop command that ends, normally or not, leaves no pid file.
EndsWithoutFile(o) ==
  command[o] \in {"read", "kill", "unlink"} /\ command'[o] = "none" /\ killed' = killed
    => pidfile' = "absent"

\* After stop, start can be used again, as the message "use 'stop' first"
\* promises, as long as the service has not crashed.
StopMakesWay == [][Undisturbed => \A o \in Operator : EndsWithoutFile(o)]_vars

\* The same, whatever has happened to the service.
StopAlwaysMakesWay == [][killed = {} => \A o \in Operator : EndsWithoutFile(o)]_vars

=============================================================================
