----------------------------- MODULE WhisperStore -----------------------------
(***************************************************************************)
(* The whisper files and the children (whisper_updater.py) that write them.*)
(*                                                                         *)
(* A collector that is stopped leaves its child behind to work off what is *)
(* in the pipe, and a collector that is started has a child of its own, so *)
(* that two children may write one file, a few calls each at a time and    *)
(* without locks.  A child may be killed between any two of these calls.   *)
(*                                                                         *)
(* A file is a ring with a point per second; a point carries its time, and *)
(* the first slot tells the time all the others are counted from.  One     *)
(* metric is modelled, the others are written likewise.  A value is the    *)
(* number of the report it comes from.                                     *)
(***************************************************************************)
EXTENDS Integers, Sequences, FiniteSets

CONSTANTS
  Node, Instance,
  Slots,        \* METRIC_POINTS_TO_STORE (900 in the code)
  PipeSize,     \* lines the pipe to a child holds
  Offsets,      \* how far the monitors' clocks may be from the collector's
  MaxChildren,  \* bound: the collector is started no more often than this
  MaxReports,   \* bound: the monitors send no more reports than this
  MaxNow        \* bound: the clock of the collector goes no further than this

ASSUME SizeAssumption == Slots \in Nat \ {0} /\ PipeSize \in Nat \ {0}
ASSUME BoundAssumption ==
  /\ MaxChildren \in Nat /\ MaxReports \in Nat /\ MaxNow \in Nat \ {0}
  /\ Offsets \subseteq Int

File == Node \X Instance
Child == 1 .. MaxChildren
Point == [time : Nat \ {0}, value : Nat \ {0}]
NoPoint == [time |-> 0, value |-> 0]
EmptyRing == [s \in 0 .. Slots - 1 |-> NoPoint]
Line == [file : File, point : Point]
NoLine == [file |-> "none", point |-> NoPoint]

VARIABLES
  now,        \* the clock of the collector's host, in seconds
  host,       \* the node each instance is on
  \* The files.
  file,       \* "absent", "empty" while nothing but open() has been done, "made"
  ring,       \* the points of each file
  \* The collector and the children.
  fed,        \* the child the collector writes to, 0 while there is none
  pipe,
  pc,         \* the call each child makes next
  line,       \* the line each child works on
  slot,       \* the slot whisper.update has found for it
  \* History.
  reported,   \* the lines of all the reports that have gone into a pipe
  stored,     \* those that have been written to their files
  overlapped, \* a child was started while another one was running
  killed      \* a child has been killed

fileVars == <<file, ring>>
childVars == <<pc, line, slot>>
history == <<reported, stored, overlapped, killed>>
storeVars == <<now, host, fileVars, fed, pipe, childVars, history>>

AtWork == {"exists", "create", "open", "fill", "locate", "store"}
Over == {"ended", "raised", "uncovered", "killed"}
Running(c) == pc[c] \in {"readline"} \union AtWork

-----------------------------------------------------------------------------
(* Time, instances, and the collector as far as its children see it. *)

\* whisper reads time.time(); that clock is assumed never to be set back.
Tick ==
  /\ now < MaxNow
  /\ now' = now + 1
  /\ UNCHANGED <<host, fileVars, fed, pipe, childVars, history>>

\* An instance goes on on another node.  The old node has its notice sent, and
\* terminate_instance leaves the old file alone.
Move(i, n) ==
  /\ host[i] # n
  /\ host' = [host EXCEPT ![i] = n]
  /\ UNCHANGED <<now, fileVars, fed, pipe, childVars, history>>

\* The collector writes the line of a report.  With nobody to read it, this kills the
\* collector, or, where SIGPIPE is ignored, the report is lost.
Report(i) ==
  /\ fed # 0
  /\ \/ /\ Running(fed)
        /\ Len(pipe[fed]) < PipeSize
        /\ Cardinality(reported) < MaxReports
        /\ \E offset \in Offsets :
             LET new == [file |-> <<host[i], i>>,
                         point |-> [time |-> now + offset,
                                    value |-> Cardinality(reported) + 1]]
             IN  /\ new.point.time > 0
                 /\ reported' = reported \union {new}
                 /\ pipe' = [pipe EXCEPT ![fed] = Append(@, new)]
        /\ UNCHANGED fed
     \/ /\ ~Running(fed)
        /\ fed' \in {0, fed}
        /\ UNCHANGED <<pipe, reported>>
  /\ UNCHANGED <<now, host, fileVars, childVars, stored, overlapped, killed>>

StopCollector ==
  /\ fed # 0
  /\ fed' = 0
  /\ UNCHANGED <<now, host, fileVars, pipe, childVars, history>>

StartCollector ==
  /\ fed = 0
  /\ \E c \in Child :
       /\ {d \in Child : pc[d] # "unborn"} = 1 .. c - 1
       /\ fed' = c
       /\ pc' = [pc EXCEPT ![c] = "readline"]
  /\ overlapped' = (overlapped \/ \E c \in Child : Running(c))
  /\ UNCHANGED <<now, host, fileVars, pipe, line, slot, reported, stored, killed>>

-----------------------------------------------------------------------------
(* whisper_updater.py *)

GoOn(c, call) ==
  /\ pc' = [pc EXCEPT ![c] = call]
  /\ line' = IF call \in AtWork THEN line ELSE [line EXCEPT ![c] = NoLine]
  /\ slot' = IF call = "store" THEN slot ELSE [slot EXCEPT ![c] = 0]
  /\ pipe' = IF call \in Over THEN [pipe EXCEPT ![c] = <<>>] ELSE pipe

ReadLine(c) ==
  /\ pc[c] = "readline"
  /\ \/ /\ pipe[c] # <<>>
        /\ line' = [line EXCEPT ![c] = Head(pipe[c])]
        /\ pipe' = [pipe EXCEPT ![c] = Tail(@)]
        /\ pc' = [pc EXCEPT ![c] = "exists"]
        /\ UNCHANGED slot
     \/ /\ pipe[c] = <<>>
        /\ fed # c
        /\ GoOn(c, "ended")
  /\ UNCHANGED <<now, host, fileVars, fed, history>>

Exists_NotAsked(c) ==
  /\ pc[c] = "exists"
  /\ GoOn(c, "create")
  /\ UNCHANGED <<now, host, fileVars, fed, history>>

\* update(): os.path.exists
Exists(c) ==
  /\ pc[c] = "exists"
  /\ GoOn(c, IF file[line[c].file] = "absent" THEN "create" ELSE "locate")
  /\ UNCHANGED <<now, host, fileVars, fed, history>>

\* mkdirs, which another child may have done, then whisper.create, which looks
\* for the file itself and raises "already exists".
Create(c) ==
  /\ pc[c] = "create"
  /\ GoOn(c, IF file[line[c].file] = "absent" THEN "open" ELSE "raised")
  /\ UNCHANGED <<now, host, fileVars, fed, history>>

OpenNew_NotFilled(c) ==
  /\ pc[c] = "open"
  /\ file' = [file EXCEPT ![line[c].file] = "empty"]
  /\ GoOn(c, "locate")
  /\ UNCHANGED <<now, host, ring, fed, history>>

\* whisper.create opens the file for writing, which truncates it, and ...
OpenNew(c) ==
  /\ pc[c] = "open"
  /\ file' = [file EXCEPT ![line[c].file] = "empty"]
  /\ ring' = [ring EXCEPT ![line[c].file] = EmptyRing]
  /\ GoOn(c, "fill")
  /\ UNCHANGED <<now, host, fed, history>>

\* ... writes the header and a ring of zeroes.
FillNew(c) ==
  /\ pc[c] = "fill"
  /\ file' = [file EXCEPT ![line[c].file] = "made"]
  /\ ring' = [ring EXCEPT ![line[c].file] = EmptyRing]
  /\ GoOn(c, "locate")
  /\ UNCHANGED <<now, host, fed, history>>

\* The slot of time t in a ring that counts from the time in its first slot.
SlotOf(r, t) == IF r[0] = NoPoint THEN 0 ELSE (t - r[0].time) % Slots

Covered_NotTooOld(t) == now - t >= 0

\* Neither ahead of the clock nor too far behind it.
Covered(t) == now - t \in 0 .. Slots - 1

\* whisper.update reads the header, which an empty file does not have, raises
\* TimestampNotCovered or reads the first slot.
Locate(c) ==
  LET f == line[c].file
      t == line[c].point.time
  IN  /\ pc[c] = "locate"
      /\ \/ file[f] # "made" /\ GoOn(c, "raised")
         \/ file[f] = "made" /\ ~Covered(t) /\ GoOn(c, "uncovered")
         \/ /\ file[f] = "made" /\ Covered(t)
            /\ pc' = [pc EXCEPT ![c] = "store"]
            /\ slot' = [slot EXCEPT ![c] = SlotOf(ring[f], t)]
            /\ UNCHANGED <<line, pipe>>
      /\ UNCHANGED <<now, host, fileVars, fed, history>>

\* whisper.update writes the point.
Store(c) ==
  /\ pc[c] = "store"
  /\ ring' = [ring EXCEPT ![line[c].file][slot[c]] = line[c].point]
  /\ stored' = stored \union {line[c]}
  /\ GoOn(c, "readline")
  /\ UNCHANGED <<now, host, file, fed, reported, overlapped, killed>>

\* The child is killed, or the disk is full.
Kill(c) ==
  /\ Running(c)
  /\ GoOn(c, "killed")
  /\ killed' = TRUE
  /\ UNCHANGED <<now, host, fileVars, fed, reported, stored, overlapped>>

-----------------------------------------------------------------------------
StoreInit ==
  /\ now = 1
  /\ host \in [Instance -> Node]
  /\ file = [f \in File |-> "absent"]
  /\ ring = [f \in File |-> EmptyRing]
  /\ fed = 0
  /\ pipe = [c \in Child |-> <<>>]
  /\ pc = [c \in Child |-> "unborn"]
  /\ line = [c \in Child |-> NoLine]
  /\ slot = [c \in Child |-> 0]
  /\ reported = {}
  /\ stored = {}
  /\ overlapped = FALSE
  /\ killed = FALSE

update(c) == \/ Exists(c) \/ Create(c) \/ OpenNew(c) \/ FillNew(c)
             \/ Locate(c) \/ Store(c)

main(c) == ReadLine(c) \/ update(c)

World == \/ Tick \/ StopCollector \/ StartCollector
         \/ \E i \in Instance : Report(i) \/ \E n \in Node : Move(i, n)

StoreNext == World \/ \E c \in Child : main(c) \/ Kill(c)

-----------------------------------------------------------------------------
\* A child holds a line while it works on one, and a file that was not made has
\* no points but those of a child that lost it to another.
StoreTypeOK ==
  /\ now \in 1 .. MaxNow
  /\ host \in [Instance -> Node]
  /\ file \in [File -> {"absent", "empty", "made"}]
  /\ ring \in [File -> [0 .. Slots - 1 -> Point \union {NoPoint}]]
  /\ fed \in 0 .. MaxChildren
  /\ pipe \in [Child -> Seq(Line)]
  /\ pc \in [Child -> {"unborn", "readline"} \union AtWork \union Over]
  /\ slot \in [Child -> 0 .. Slots - 1]
  /\ \A c \in Child :
       /\ Len(pipe[c]) <= PipeSize
       /\ IF pc[c] \in AtWork THEN line[c] \in Line ELSE line[c] = NoLine
  /\ \A f \in File : file[f] = "absent" => ring[f] = EmptyRing
  /\ stored \subseteq reported /\ reported \subseteq Line
  /\ overlapped \in BOOLEAN
  /\ killed \in BOOLEAN

\* A point, once written, makes way for a later one or one of the same second only,
\* whatever is killed and restarted in between, as long as children do not overlap:
\* no file is made again, and no old report replaces a newer one (update()).
PointsAreKept ==
  [][~overlapped =>
       \A f \in File, s \in 0 .. Slots - 1 : ring'[f][s].time >= ring[f][s].time]_ring

\* update() fails for no other reason than a timestamp: a file that it finds is
\* whole and one that it makes is new, unless another child was at work on it, or
\* one was killed at it.
RaisesOnlyAfterTrouble ==
  \A c \in Child : pc[c] = "raised" => overlapped \/ killed

\* A file without a header is about to be given one, however many children are
\* at work, unless one was killed: then it is without one for good.
EmptyIsBeingMade ==
  \A f \in File : file[f] = "empty" =>
    killed \/ \E c \in Child : pc[c] = "fill" /\ line[c].file = f

=============================================================================
