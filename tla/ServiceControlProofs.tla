------------------------ MODULE ServiceControlProofs ------------------------
(* Services and pid files, for any number of operators and process ids. *)
EXTENDS ServiceControl, FiniteSetTheorems, TLAPS

Calls == {"none", "fork", "open", "write", "write_unlinked", "read", "kill", "unlink"}

\* A command that writes or signals holds the id of a process.
HoldsPid ==
  \A o \in Operator :
    command[o] \in {"open", "write", "write_unlinked", "kill"} => pid[o] \in Pid

\* No two collectors have the port.
PortHeldOnce ==
  which = "collector" =>
    \A p, q \in Pid : process[p] = "running" /\ process[q] = "running" => p = q

ServiceInv == TypeOK /\ HoldsPid /\ PortHeldOnce /\ NeverLeftEmpty

LEMMA ServiceInvInit == Init => ServiceInv
<1> SUFFICES ASSUME Init PROVE ServiceInv
  OBVIOUS
<1> USE DEF Init
<1>1. TypeOK
  BY DEF TypeOK
<1>2. HoldsPid /\ PortHeldOnce /\ NeverLeftEmpty
  BY DEF HoldsPid, PortHeldOnce, NeverLeftEmpty
<1> QED
  BY <1>1, <1>2 DEF ServiceInv

\* What happens to a process touches the collectors' port and nothing else.
LEMMA ProcessStep ==
  ASSUME ServiceInv, NEW p \in Pid, Exec(p) \/ Crash(p) \/ Finish(p) \/ OtherProgram(p)
  PROVE  ServiceInv'
<1> USE DEF ServiceInv, history
<1>1. UNCHANGED <<which, pidfile, command, pid, raced, killed>>
  BY DEF Exec, Crash, Finish, OtherProgram
<1>2. crashed' \in BOOLEAN
  BY DEF Exec, Crash, Finish, OtherProgram, TypeOK
<1>3. \E s \in {"free", "other", "running"} :
        /\ process' = [process EXCEPT ![p] = s]
        /\ s = "running" /\ which = "collector" => \A q \in Pid : process[q] # "running"
  <2>1. CASE Exec(p)
    <3>1. CASE which = "collector" /\ \E q \in Pid : process[q] = "running"
      BY <2>1, <3>1 DEF Exec
    <3>2. CASE ~(which = "collector" /\ \E q \in Pid : process[q] = "running")
      BY <2>1, <3>2 DEF Exec
    <3> QED
      BY <3>1, <3>2
  <2>2. CASE Crash(p)
    BY <2>2 DEF Crash
  <2>3. CASE Finish(p)
    BY <2>3 DEF Finish
  <2>4. CASE OtherProgram(p)
    BY <2>4 DEF OtherProgram
  <2> QED
    BY <2>1, <2>2, <2>3, <2>4
<1>4. PICK s \in {"free", "other", "running"} :
        /\ process' = [process EXCEPT ![p] = s]
        /\ s = "running" /\ which = "collector" => \A q \in Pid : process[q] # "running"
  BY <1>3
<1>5. TypeOK'
  BY <1>1, <1>2, <1>4 DEF TypeOK
<1>6. HoldsPid' /\ NeverLeftEmpty'
  BY <1>1 DEF HoldsPid, NeverLeftEmpty
<1>7. PortHeldOnce'
  <2> SUFFICES ASSUME which = "collector", NEW a \in Pid, NEW b \in Pid,
                      process'[a] = "running", process'[b] = "running"
               PROVE  a = b
    BY <1>1 DEF PortHeldOnce
  <2>1. \A q \in Pid : process'[q] = IF q = p THEN s ELSE process[q]
    BY <1>4 DEF TypeOK
  <2> QED
    BY <2>1, <1>4 DEF PortHeldOnce
<1> QED
  BY <1>5, <1>6, <1>7

\* A command of one operator makes its next call.  What it does to the pid file is
\* what NeverLeftEmpty is about; a process it forks or signals does not run.
LEMMA CommandStep ==
  ASSUME ServiceInv, NEW o \in Operator, start(o) \/ stop(o) \/ Killed(o)
  PROVE  ServiceInv'
<1> USE DEF ServiceInv, history
<1>t. /\ process \in [Pid -> {"free", "other", "forked", "running", "stopping"}]
      /\ command \in [Operator -> Calls]
      /\ pid \in [Operator -> Pid \union {"none"}]
  BY DEF TypeOK, Calls
<1>1. CASE StartExists(o)
  BY <1>1, <1>t DEF StartExists, Begin, GoOn, TypeOK, HoldsPid, PortHeldOnce,
                    NeverLeftEmpty, Calls
<1>2. CASE Fork(o)
  BY <1>2, <1>t DEF Fork, GoOn, TypeOK, HoldsPid, PortHeldOnce, NeverLeftEmpty, Calls
<1>3. CASE Open(o)
  BY <1>3, <1>t DEF Open, GoOn, TypeOK, HoldsPid, PortHeldOnce, NeverLeftEmpty, Calls
<1>4. CASE Write(o)
  <2>1. pid[o] \in Pid /\ pid[o] # "empty"
    BY <1>4, ServiceAssumption DEF Write, HoldsPid
  <2>2. TypeOK'
    BY <1>4, <1>t, <2>1 DEF Write, End, TypeOK, Calls
  <2>3. HoldsPid' /\ PortHeldOnce'
    BY <1>4, <1>t DEF Write, End, HoldsPid, PortHeldOnce, Calls
  <2>4. NeverLeftEmpty'
    BY <1>4, <1>t, <2>1 DEF Write, End, NeverLeftEmpty
  <2> QED
    BY <2>2, <2>3, <2>4
<1>5. CASE StopExists(o)
  BY <1>5, <1>t DEF StopExists, Begin, GoOn, TypeOK, HoldsPid, PortHeldOnce,
                    NeverLeftEmpty, Calls
<1>6. CASE ReadPid(o)
  BY <1>6, <1>t DEF ReadPid, End, GoOn, TypeOK, HoldsPid, PortHeldOnce, NeverLeftEmpty,
                    Calls
<1>7. CASE Kill(o)
  <2>1. AfterInterrupt(pid[o]) \in {"stopping", "free"}
    BY DEF AfterInterrupt
  <2>2. \E c \in {"unlink", "none"} : command' = [command EXCEPT ![o] = c]
    BY <1>7 DEF Kill, End, GoOn
  <2>3. \/ process' = process
        \/ process' = [process EXCEPT ![pid[o]] = AfterInterrupt(pid[o])]
    BY <1>7 DEF Kill
  <2>4. UNCHANGED <<which, pidfile, pid, raced, crashed, killed>>
    BY <1>7 DEF Kill
  <2>5. TypeOK'
    BY <1>t, <2>1, <2>2, <2>3, <2>4 DEF TypeOK, Calls
  <2>6. HoldsPid'
    BY <1>t, <2>2, <2>4 DEF HoldsPid
  <2>7. PortHeldOnce'
    BY <1>t, <2>1, <2>3, <2>4 DEF PortHeldOnce
  <2>8. NeverLeftEmpty'
    BY <1>7, <1>t, <2>2, <2>4 DEF Kill, NeverLeftEmpty
  <2> QED
    BY <2>5, <2>6, <2>7, <2>8
<1>8. CASE Unlink(o)
  BY <1>8, <1>t DEF Unlink, TypeOK, HoldsPid, PortHeldOnce, NeverLeftEmpty, Calls
<1>9. CASE Killed(o)
  <2>1. TypeOK'
    BY <1>9, <1>t DEF Killed, End, TypeOK, Calls
  <2>2. HoldsPid' /\ PortHeldOnce'
    BY <1>9, <1>t DEF Killed, End, HoldsPid, PortHeldOnce
  <2>3. NeverLeftEmpty'
    BY <1>9, <1>t DEF Killed, End, NeverLeftEmpty
  <2> QED
    BY <2>1, <2>2, <2>3
<1> QED
  BY <1>1, <1>2, <1>3, <1>4, <1>5, <1>6, <1>7, <1>8, <1>9 DEF start, stop

LEMMA ServiceInvStep == ServiceInv /\ [Next]_vars => ServiceInv'
<1> SUFFICES ASSUME ServiceInv, [Next]_vars PROVE ServiceInv'
  OBVIOUS
<1>1. CASE Processes
  BY <1>1, ProcessStep DEF Processes
<1>2. CASE \E o \in Operator : start(o) \/ stop(o) \/ Killed(o)
  BY <1>2, CommandStep
<1>3. CASE UNCHANGED vars
  BY <1>3 DEF vars, ServiceInv, TypeOK, HoldsPid, PortHeldOnce, NeverLeftEmpty
<1> QED
  BY <1>1, <1>2, <1>3 DEF Next

\* The inductive invariant of the services: types, ids held, the port, the pid file.
THEOREM ServiceInvariant == Spec => []ServiceInv
  BY ServiceInvInit, ServiceInvStep, PTL DEF Spec

\* The type invariant: among others, a pid file never holds anything but an id of a
\* process, whoever has written it (sm_ctl, start and readpid).
THEOREM ServiceTypes == Spec => []TypeOK
<1>1. ServiceInv => TypeOK
  BY DEF ServiceInv
<1> QED
  BY ServiceInvariant, <1>1, PTL

\* However many operators give commands at once, and kill them, a pid file without a
\* pid (sm_ctl, start) is about to be written or was left by a start that was killed.
THEOREM PidFileIsWritten == Spec => []NeverLeftEmpty
<1>1. ServiceInv => NeverLeftEmpty
  BY DEF ServiceInv
<1> QED
  BY ServiceInvariant, <1>1, PTL

-----------------------------------------------------------------------------
(* Commands given one after the other *)

\* What a command that has met no other finds: the file is as its own calls have
\* left it, nobody serves when it is about to fork or unlink, and whoever serves is
\* named by the file or by the start that is about to write it.
Orderly ==
  /\ \A o, q \in Operator : command[o] # "none" /\ command[q] # "none" => o = q
  /\ \A o \in Operator :
       /\ command[o] \in {"fork", "open"} => pidfile = "absent"
       /\ command[o] = "write" => pidfile = "empty"
       /\ command[o] # "write_unlinked"
       /\ command[o] \in {"kill", "unlink"} => pidfile = pid[o]
       /\ command[o] \in {"fork", "unlink"} => Serving = {}
  /\ \A p \in Serving :
       \/ pidfile = p
       \/ \E o \in Operator : command[o] \in {"open", "write"} /\ pid[o] = p

OrderInv == ~raced /\ "start" \notin killed => Orderly

LEMMA OrderInvInit == Init => OrderInv
  BY DEF Init, OrderInv, Orderly, Serving

\* Processes by themselves only ever stop serving.
LEMMA OrderProcessStep ==
  ASSUME ServiceInv, OrderInv, NEW p \in Pid,
         Exec(p) \/ Crash(p) \/ Finish(p) \/ OtherProgram(p)
  PROVE  OrderInv'
<1>1. UNCHANGED <<which, pidfile, command, pid, raced, killed>>
  BY DEF Exec, Crash, Finish, OtherProgram, history
<1>2. \A q \in Pid : process'[q] \in {"forked", "running"}
                       => process[q] \in {"forked", "running"}
  BY DEF Exec, Crash, Finish, OtherProgram, ServiceInv, TypeOK
<1>3. Serving' \subseteq Serving
  BY <1>2 DEF Serving
<1> QED
  BY <1>1, <1>3 DEF OrderInv, Orderly

LEMMA OrderCommandStep ==
  ASSUME ServiceInv, OrderInv, NEW o \in Operator, start(o) \/ stop(o) \/ Killed(o)
  PROVE  OrderInv'
<1> SUFFICES ASSUME ~raced', "start" \notin killed' PROVE Orderly'
  BY DEF OrderInv
<1>t. /\ process \in [Pid -> {"free", "other", "forked", "running", "stopping"}]
      /\ command \in [Operator -> Calls]
      /\ pid \in [Operator -> Pid \union {"none"}]
  BY DEF ServiceInv, TypeOK, Calls
<1>o. ~raced /\ "start" \notin killed /\ Orderly
  <2>1. CASE \E call \in {"fork", "read"} : Begin(o, call) /\ UNCHANGED killed
    <3>1. (raced \/ \E q \in Operator \ {o} : command[q] # "none") = FALSE
      BY <2>1 DEF Begin, ServiceInv, TypeOK
    <3> QED
      BY <2>1, <3>1 DEF OrderInv
  <2>2. CASE UNCHANGED <<raced, killed>>
    BY <2>2 DEF OrderInv
  <2>3. CASE Killed(o)
    BY <2>3 DEF OrderInv, Killed
  <2> QED
    BY <2>1, <2>2, <2>3 DEF start, stop, StartExists, Fork, Open, Write, StopExists,
                           ReadPid, Kill, Unlink, history
<1>1. CASE StartExists(o)
  <2>1. /\ \A q \in Operator : command'[q] = IF q = o THEN "fork" ELSE "none"
        /\ UNCHANGED <<pidfile, process, pid>> /\ pidfile = "absent"
    BY <1>1, <1>t DEF StartExists, Begin, GoOn, Calls
  <2>2. Serving' = Serving /\ \A q \in Operator : command[q] = "none"
    BY <1>1, <2>1, <1>t DEF StartExists, Begin, Serving
  <2>3. Serving = {}
    BY <1>o, <2>1, <2>2, ServiceAssumption DEF Orderly, Serving
  <2> QED
    BY <2>1, <2>2, <2>3 DEF Orderly
<1>2. CASE Fork(o)
  <2>1. PICK p \in Pid : /\ process' = [process EXCEPT ![p] = "forked"]
                         /\ pid' = [pid EXCEPT ![o] = p]
    BY <1>2 DEF Fork
  <2>2. Serving = {} /\ pidfile = "absent" /\ pidfile' = pidfile
    BY <1>2, <1>o DEF Fork, Orderly
  <2>3. Serving' = {p}
    BY <2>1, <2>2, <1>t DEF Serving
  <2>4. \A q \in Operator : command'[q] = IF q = o THEN "open" ELSE "none"
    BY <1>2, <1>t, <1>o DEF Fork, GoOn, Orderly, Calls
  <2>5. pid'[o] = p
    BY <2>1, <1>t
  <2> QED
    BY <2>2, <2>3, <2>4, <2>5 DEF Orderly
<1>3. CASE Open(o)
  <2>1. /\ \A q \in Operator : command'[q] = IF q = o THEN "write" ELSE "none"
        /\ UNCHANGED <<process, pid>> /\ pidfile' = "empty" /\ pidfile = "absent"
        /\ command[o] = "open"
    BY <1>3, <1>t, <1>o DEF Open, GoOn, Orderly, Calls
  <2>2. Serving' = Serving /\ \A p \in Serving : p # "absent" /\ p # "empty"
    BY <2>1, ServiceAssumption DEF Serving
  <2>3. \A p \in Serving : pid[o] = p
    BY <2>1, <2>2, <1>o DEF Orderly
  <2> QED
    BY <2>1, <2>2, <2>3 DEF Orderly
<1>4. CASE Write(o)
  <2>1. /\ \A q \in Operator : command'[q] = "none"
        /\ UNCHANGED <<process, pid>> /\ pidfile' = pid[o] /\ pidfile = "empty"
        /\ command[o] = "write"
    BY <1>4, <1>t, <1>o DEF Write, End, Orderly, Calls
  <2>2. Serving' = Serving /\ \A p \in Serving : p # "empty"
    BY <2>1, ServiceAssumption DEF Serving
  <2>3. \A p \in Serving : pid[o] = p
    BY <2>1, <2>2, <1>o DEF Orderly
  <2> QED
    BY <2>1, <2>2, <2>3 DEF Orderly
<1>5. CASE StopExists(o)
  <2>1. /\ \A q \in Operator : command'[q] = IF q = o THEN "read" ELSE "none"
        /\ \A q \in Operator : command[q] = "none"
        /\ UNCHANGED <<process, pid, pidfile>>
    BY <1>5, <1>t DEF StopExists, Begin, GoOn, Calls
  <2> QED
    BY <2>1, <1>o DEF Orderly, Serving
<1>6. CASE ReadPid(o)
  <2>1. /\ \A q \in Operator : q # o => command'[q] = "none" /\ command[q] = "none"
        /\ UNCHANGED <<process, pidfile>> /\ command[o] = "read"
        /\ \/ command'[o] = "kill" /\ pid'[o] = pidfile
           \/ command'[o] = "none"
    BY <1>6, <1>t, <1>o DEF ReadPid, GoOn, End, Orderly, Calls
  <2>2. \A p \in Serving : pidfile = p
    BY <2>1, <1>o DEF Orderly
  <2> QED
    BY <2>1, <2>2 DEF Orderly, Serving
<1>7. CASE Kill(o)
  <2>1. /\ \A q \in Operator : q # o => command'[q] = "none" /\ command[q] = "none"
        /\ UNCHANGED <<pid, pidfile>> /\ command[o] = "kill" /\ pidfile = pid[o]
    BY <1>7, <1>t, <1>o DEF Kill, GoOn, End, Orderly, Calls
  <2>2. \A p \in Serving : pidfile = p
    BY <2>1, <1>o DEF Orderly
  <2>3. AfterInterrupt(pid[o]) \in {"stopping", "free"}
    BY DEF AfterInterrupt
  <2>4. CASE command'[o] = "unlink" /\ process' = [process EXCEPT ![pid[o]] = AfterInterrupt(pid[o])]
    <3>1. Serving' = {}
      BY <2>1, <2>2, <2>3, <2>4, <1>t DEF Serving
    <3> QED
      BY <2>1, <2>4, <3>1 DEF Orderly
  <2>5. CASE command'[o] = "none" /\ process' = process
    BY <2>1, <2>2, <2>5 DEF Orderly, Serving
  <2> QED
    BY <1>7, <1>t, <2>4, <2>5 DEF Kill, GoOn, End
<1>8. CASE Unlink(o)
  <2>1. /\ \A q \in Operator : command'[q] = "none"
        /\ UNCHANGED process /\ Serving = {}
    BY <1>8, <1>t, <1>o DEF Unlink, Orderly, Calls
  <2> QED
    BY <2>1 DEF Orderly, Serving
<1>9. CASE Killed(o)
  <2>1. /\ \A q \in Operator : command'[q] = "none"
        /\ \A q \in Operator : command[q] \notin {"open", "write"}
        /\ UNCHANGED <<process, pid, pidfile>>
    BY <1>9, <1>t, <1>o DEF Killed, End, Orderly, Calls
  <2> QED
    BY <2>1, <1>o DEF Orderly, Serving
<1> QED
  BY <1>1, <1>2, <1>3, <1>4, <1>5, <1>6, <1>7, <1>8, <1>9 DEF start, stop

LEMMA OrderInvStep == ServiceInv /\ OrderInv /\ [Next]_vars => OrderInv'
<1> SUFFICES ASSUME ServiceInv, OrderInv, [Next]_vars PROVE OrderInv'
  OBVIOUS
<1>1. CASE Processes
  BY <1>1, OrderProcessStep DEF Processes
<1>2. CASE \E o \in Operator : start(o) \/ stop(o) \/ Killed(o)
  BY <1>2, OrderCommandStep
<1>3. CASE UNCHANGED vars
  BY <1>3 DEF vars, OrderInv, Orderly, Serving
<1> QED
  BY <1>1, <1>2, <1>3 DEF Next

LEMMA OrderInvariant == Spec => []OrderInv
  BY OrderInvInit, OrderInvStep, ServiceInvariant, PTL DEF Spec

\* For any number of process ids: between commands given one after the other, whoever
\* serves is in reach of stop (sm_ctl), through crashes and stops that are killed.
THEOREM ServiceIsInReach == Spec => []NoOrphan
<1>1. OrderInv => NoOrphan
  BY DEF OrderInv, Orderly, NoOrphan
<1> QED
  BY OrderInvariant, <1>1, PTL

\* For any number of process ids: such commands start no second service.
THEOREM ServiceRunsOnce == Spec => []ServesOnce
<1>1. OrderInv /\ ServiceInv => ServesOnce
  <2> SUFFICES ASSUME Orderly PROVE Cardinality(Serving) <= 1
    BY DEF OrderInv, ServesOnce
  <2>1. CASE Serving = {}
    BY <2>1, FS_EmptySet
  <2>2. CASE Serving # {}
    <3>1. PICK p \in Serving : TRUE
      BY <2>2
    <3>2. \A q \in Serving : q = p
      BY <3>1, ServiceAssumption DEF Orderly, Serving
    <3>3. Serving = {p} /\ Cardinality({p}) = 1
      BY <3>1, <3>2, FS_Singleton
    <3> QED
      BY <3>3
  <2> QED
    BY <2>1, <2>2
<1> QED
  BY OrderInvariant, ServiceInvariant, <1>1, PTL

-----------------------------------------------------------------------------
(* Commands that nothing has disturbed *)

\* A process id in the file is that of a process that serves, and so is the one a
\* start is about to write; a stop that has found the file finds an id in it.
Named ==
  /\ pidfile \in Pid /\ (\A o \in Operator : command[o] # "unlink")
       => pidfile \in Serving
  /\ \A o \in Operator :
       /\ command[o] \in {"open", "write"} => pid[o] \in Serving
       /\ command[o] = "read" => pidfile \in Pid

NamedInv == Undisturbed => Named

LEMMA ServingIsUnique ==
  ASSUME Orderly, NEW p \in Serving, NEW q \in Serving
  PROVE  p = q
  BY ServiceAssumption DEF Orderly, Serving

LEMMA NamedInvInit == Init => NamedInv
  BY ServiceAssumption DEF Init, NamedInv, Named

\* A process that serves goes on serving: it does not crash, does not finish of its
\* own accord, and finds no other collector at its port.
LEMMA NamedProcessStep ==
  ASSUME ServiceInv, OrderInv, NamedInv, NEW p \in Pid,
         Exec(p) \/ Crash(p) \/ Finish(p) \/ OtherProgram(p)
  PROVE  NamedInv'
<1> SUFFICES ASSUME Undisturbed' PROVE Named'
  BY DEF NamedInv
<1>1. UNCHANGED <<which, pidfile, command, pid, raced, killed>>
  BY DEF Exec, Crash, Finish, OtherProgram, history
<1>2. ~Crash(p) /\ crashed' = crashed
  BY DEF Exec, Crash, Finish, OtherProgram, history, Undisturbed
<1>3. Undisturbed /\ Orderly /\ Named
  BY <1>1, <1>2 DEF Undisturbed, OrderInv, NamedInv
<1>4. \A q \in Serving : q \in Serving'
  <2> SUFFICES ASSUME NEW q \in Serving PROVE process'[q] \in {"forked", "running"}
    BY DEF Serving
  <2>1. CASE Exec(p)
    <3>1. p \in Serving /\ p = q
      BY <2>1, <1>3, ServingIsUnique DEF Exec, Serving
    <3>2. \A r \in Pid : process[r] # "running"
      BY <2>1, <3>1, <1>3, ServingIsUnique DEF Exec, Serving
    <3> QED
      BY <2>1, <3>1, <3>2 DEF Exec, ServiceInv, TypeOK
  <2>2. CASE Finish(p) \/ OtherProgram(p)
    BY <2>2 DEF Finish, OtherProgram, Serving, ServiceInv, TypeOK
  <2> QED
    BY <1>2, <2>1, <2>2
<1> QED
  BY <1>1, <1>3, <1>4 DEF Named

LEMMA NamedCommandStep ==
  ASSUME ServiceInv, OrderInv, NamedInv, NEW o \in Operator,
         start(o) \/ stop(o) \/ Killed(o)
  PROVE  NamedInv'
<1> SUFFICES ASSUME Undisturbed' PROVE Named'
  BY DEF NamedInv
<1>t. /\ process \in [Pid -> {"free", "other", "forked", "running", "stopping"}]
      /\ command \in [Operator -> Calls]
      /\ pid \in [Operator -> Pid \union {"none"}]
  BY DEF ServiceInv, TypeOK, Calls
<1>k. ~Killed(o)
  BY DEF Killed, Undisturbed
<1>u. Undisturbed
  <2>1. CASE \E call \in {"fork", "read"} : Begin(o, call) /\ UNCHANGED <<crashed, killed>>
    <3>1. (raced \/ \E q \in Operator \ {o} : command[q] # "none") = FALSE
      BY <2>1 DEF Begin, ServiceInv, TypeOK, Undisturbed
    <3> QED
      BY <2>1, <3>1 DEF Undisturbed
  <2>2. CASE UNCHANGED history
    BY <2>2 DEF Undisturbed, history
  <2> QED
    BY <1>k, <2>1, <2>2 DEF start, stop, StartExists, Fork, Open, Write, StopExists,
                           ReadPid, Kill, Unlink
<1>o. Orderly /\ Named
  BY <1>u DEF OrderInv, NamedInv, Undisturbed
<1>1. CASE StartExists(o)
  <2>1. /\ \A q \in Operator : command'[q] = IF q = o THEN "fork" ELSE command[q]
        /\ UNCHANGED <<pidfile, process, pid>> /\ pidfile = "absent"
    BY <1>1, <1>t DEF StartExists, Begin, GoOn
  <2> QED
    BY <2>1, <1>o, ServiceAssumption DEF Named, Serving
<1>2. CASE Fork(o)
  <2>1. PICK p \in Pid : /\ process' = [process EXCEPT ![p] = "forked"]
                         /\ pid' = [pid EXCEPT ![o] = p]
    BY <1>2 DEF Fork
  <2>2. /\ \A q \in Operator : command'[q] = IF q = o THEN "open" ELSE "none"
        /\ pidfile' = "absent"
    BY <1>2, <1>t, <1>o DEF Fork, GoOn, Orderly, Calls
  <2>3. pid'[o] \in Serving'
    BY <2>1, <1>t DEF Serving
  <2> QED
    BY <2>2, <2>3, ServiceAssumption DEF Named
<1>3. CASE Open(o)
  <2>1. /\ \A q \in Operator : command'[q] = IF q = o THEN "write" ELSE "none"
        /\ UNCHANGED <<process, pid>> /\ pidfile' = "empty" /\ command[o] = "open"
    BY <1>3, <1>t, <1>o DEF Open, GoOn, Orderly, Calls
  <2> QED
    BY <2>1, <1>o, ServiceAssumption DEF Named, Serving
<1>4. CASE Write(o)
  <2>1. /\ \A q \in Operator : command'[q] = "none"
        /\ UNCHANGED <<process, pid>> /\ pidfile' = pid[o] /\ command[o] = "write"
    BY <1>4, <1>t, <1>o DEF Write, End, Orderly, Calls
  <2> QED
    BY <2>1, <1>o DEF Named, Serving
<1>5. CASE StopExists(o)
  <2>1. /\ \A q \in Operator : command'[q] = IF q = o THEN "read" ELSE "none"
        /\ \A q \in Operator : command[q] = "none"
        /\ UNCHANGED <<process, pid, pidfile>> /\ pidfile # "absent"
    BY <1>5, <1>t DEF StopExists, Begin, GoOn, Calls, Undisturbed
  \* An empty file would have a start at work on it.
  <2>2. pidfile \in Pid
    BY <2>1, <1>u DEF ServiceInv, TypeOK, NeverLeftEmpty, Undisturbed
  <2> QED
    BY <2>1, <2>2, <1>o DEF Named, Serving
<1>6. CASE ReadPid(o)
  <2>1. /\ \A q \in Operator : q # o => command'[q] = "none" /\ command[q] = "none"
        /\ UNCHANGED <<process, pidfile>> /\ command[o] = "read"
        /\ command'[o] \in {"kill", "none"}
    BY <1>6, <1>t, <1>o DEF ReadPid, GoOn, End, Orderly, Calls
  <2> QED
    BY <2>1, <1>o DEF Named, Serving
<1>7. CASE Kill(o)
  <2>1. /\ \A q \in Operator : q # o => command'[q] = "none" /\ command[q] = "none"
        /\ UNCHANGED <<pid, pidfile>> /\ command[o] = "kill" /\ pidfile = pid[o]
    BY <1>7, <1>t, <1>o DEF Kill, GoOn, End, Orderly, Calls
  <2>2. pid[o] \in Serving
    BY <2>1, <1>o DEF Named, ServiceInv, HoldsPid
  <2>3. command'[o] = "unlink"
    BY <1>7, <1>t, <2>2 DEF Kill, GoOn, Serving
  <2> QED
    BY <2>1, <2>3 DEF Named
<1>8. CASE Unlink(o)
  <2>1. (\A q \in Operator : command'[q] = "none") /\ pidfile' = "absent"
    BY <1>8, <1>t, <1>o DEF Unlink, Orderly, Calls
  <2> QED
    BY <2>1, ServiceAssumption DEF Named
<1> QED
  BY <1>k, <1>1, <1>2, <1>3, <1>4, <1>5, <1>6, <1>7, <1>8 DEF start, stop

LEMMA NamedInvStep == ServiceInv /\ OrderInv /\ NamedInv /\ [Next]_vars => NamedInv'
<1> SUFFICES ASSUME ServiceInv, OrderInv, NamedInv, [Next]_vars PROVE NamedInv'
  OBVIOUS
<1>1. CASE Processes
  BY <1>1, NamedProcessStep DEF Processes
<1>2. CASE \E o \in Operator : start(o) \/ stop(o) \/ Killed(o)
  BY <1>2, NamedCommandStep
<1>3. CASE UNCHANGED vars
  BY <1>3 DEF vars, NamedInv, Named, Undisturbed, Serving
<1> QED
  BY <1>1, <1>2, <1>3 DEF Next

LEMMA NamedInvariant == Spec => []NamedInv
  BY NamedInvInit, NamedInvStep, ServiceInvariant, OrderInvariant, PTL DEF Spec

LEMMA KillsService ==
  ASSUME ServiceInv, OrderInv, NamedInv, Undisturbed,
         NEW o \in Operator, command[o] = "kill"
  PROVE  pid[o] \in Serving
<1>1. Orderly /\ Named
  BY DEF OrderInv, NamedInv, Undisturbed
<1>2. pidfile = pid[o] /\ pid[o] \in Pid /\ \A q \in Operator : command[q] # "unlink"
  BY <1>1 DEF Orderly, ServiceInv, HoldsPid
<1> QED
  BY <1>1, <1>2 DEF Named

\* For any number of process ids: stop (sm_ctl) signals the service and nobody else,
\* as long as nothing crashes, overlaps or is killed.
THEOREM StopHits == Spec => []StopHitsService
<1>1. ServiceInv /\ OrderInv /\ NamedInv => StopHitsService
  BY KillsService DEF StopHitsService, Serving
<1> QED
  BY ServiceInvariant, OrderInvariant, NamedInvariant, <1>1, PTL

\* Under the same conditions a stop leaves no pid file behind (sm_ctl, stop): it finds
\* an id in the file, the process is there, and the file is removed.
THEOREM StopRemovesFile == Spec => StopMakesWay
<1> DEFINE MakesWay == Undisturbed => \A o \in Operator : EndsWithoutFile(o)
<1>1. ServiceInv /\ OrderInv /\ NamedInv /\ [Next]_vars => [MakesWay]_vars
  <2> SUFFICES ASSUME ServiceInv, OrderInv, NamedInv, Next, Undisturbed,
                      NEW o \in Operator, command[o] \in {"read", "kill", "unlink"},
                      command'[o] = "none", killed' = killed
               PROVE  pidfile' = "absent"
    BY DEF EndsWithoutFile
  <2>1. Orderly /\ Named
    BY DEF OrderInv, NamedInv, Undisturbed
  <2>2. ~Processes
    BY DEF Processes, Exec, Crash, Finish, OtherProgram
  <2>3. PICK q \in Operator : start(q) \/ stop(q) \/ Killed(q)
    BY <2>2 DEF Next
  <2>4. q = o
    BY <2>1, <2>3 DEF Orderly, start, stop, StartExists, Fork, Open, Write, StopExists,
                      ReadPid, Kill, Unlink, Killed, Begin, GoOn, End, ServiceInv, TypeOK
  <2>5. command \in [Operator -> Calls]
    BY DEF ServiceInv, TypeOK, Calls
  <2>6. CASE ReadPid(o)
    BY <2>1, <2>5, <2>6 DEF ReadPid, GoOn, Named
  <2>7. CASE Kill(o)
    BY <2>5, <2>7, KillsService DEF Kill, GoOn, Serving
  <2>8. CASE Unlink(o)
    BY <2>8 DEF Unlink
  <2>9. CASE Killed(o)
    BY <2>9 DEF Killed, Undisturbed
  <2> QED
    BY <2>3, <2>4, <2>6, <2>7, <2>8, <2>9 DEF start, stop, StartExists, Fork, Open, Write,
                                             StopExists
<1> QED
  BY ServiceInvariant, OrderInvariant, NamedInvariant, <1>1, PTL DEF Spec, StopMakesWay

=============================================================================
