--------------------------- MODULE DashboardProofs --------------------------
(* The whisper files and what the dashboard shows of them, for every number *)
(* of nodes, instances, children and points, and for any offsets of clocks.  *)
EXTENDS Dashboard, FiniteSetTheorems, SequenceTheorems, TLAPS

-----------------------------------------------------------------------------
(* Types *)

FileTypes ==
  /\ file \in [File -> {"absent", "empty", "made"}]
  /\ ring \in [File -> [0 .. Slots - 1 -> Point \union {NoPoint}]]
  /\ \A f \in File : file[f] = "absent" => ring[f] = EmptyRing

ChildTypes ==
  /\ pc \in [Child -> {"unborn", "readline"} \union AtWork \union Over]
  /\ slot \in [Child -> 0 .. Slots - 1]
  /\ line \in [Child -> Line \union {NoLine}]

HistoryTypes ==
  /\ reported \subseteq Line /\ IsFiniteSet(reported) /\ stored \subseteq reported
  /\ overlapped \in BOOLEAN /\ killed \in BOOLEAN

\* What is in a pipe has been reported.
PipeTypes ==
  /\ pipe \in [Child -> Seq(reported)]
  /\ \A c \in Child : Len(pipe[c]) <= PipeSize

\* What a child works on, and nothing else it holds, has been reported; a file that a
\* child fills or looks into is there, and stays.
Holds ==
  \A c \in Child :
    /\ IF pc[c] \in AtWork THEN line[c] \in reported ELSE line[c] = NoLine
    /\ pc[c] \in {"fill", "locate", "store"} => file[line[c].file] # "absent"

WorldTypes == now \in 1 .. MaxNow /\ host \in [Instance -> Node] /\ fed \in 0 .. MaxChildren

StoreInv == WorldTypes /\ FileTypes /\ ChildTypes /\ HistoryTypes /\ PipeTypes /\ Holds

\* The file that is being fetched is there, and what was known at the start still is.
QueryInv ==
  /\ request \in {"none", "fetch", "read", "answered", "raised"}
  /\ since \in -Back .. MaxNow
  /\ until \in 0 .. now /\ base \in Nat
  /\ snapshot \in Point \union {NoPoint}
  /\ known \subseteq stored
  /\ IF request \in {"fetch", "read"} THEN cpu_file \in File /\ file[cpu_file] # "absent"
     ELSE cpu_file = "none"

TypeInv == StoreInv /\ QueryInv

LEMMA TypeInvGivesTypeOK == TypeInv => TypeOK
<1> SUFFICES ASSUME TypeInv PROVE TypeOK
  OBVIOUS
<1> USE DEF TypeInv, StoreInv
<1>1. pipe \in [Child -> Seq(Line)]
  <2>1. ASSUME NEW c \in Child PROVE pipe[c] \in Seq(Line)
    BY SeqMonotonic DEF PipeTypes, HistoryTypes
  <2> QED
    BY <2>1 DEF PipeTypes
<1>2. \A c \in Child :
        /\ Len(pipe[c]) <= PipeSize
        /\ IF pc[c] \in AtWork THEN line[c] \in Line ELSE line[c] = NoLine
  BY DEF PipeTypes, Holds, HistoryTypes
<1>3. StoreTypeOK
  BY <1>1, <1>2 DEF StoreTypeOK, FileTypes, ChildTypes, HistoryTypes, WorldTypes
<1>4. IF request \in {"fetch", "read"} THEN file[cpu_file] # "absent"
      ELSE cpu_file = "none"
  BY DEF QueryInv
<1> QED
  BY <1>3, <1>4 DEF TypeOK, QueryInv

\* An empty ring is a ring.
LEMMA EmptyRingType == EmptyRing \in [0 .. Slots - 1 -> Point \union {NoPoint}]
BY DEF EmptyRing

LEMMA TypeInit == Init => TypeInv
<1> SUFFICES ASSUME Init PROVE TypeInv
  OBVIOUS
<1> USE DEF Init, StoreInit
<1>1. WorldTypes
  BY BoundAssumption DEF WorldTypes
<1>2. FileTypes
  BY EmptyRingType DEF FileTypes
<1>3. ChildTypes
  BY SizeAssumption DEF ChildTypes
<1>4. HistoryTypes
  BY FS_EmptySet DEF HistoryTypes
<1>5. PipeTypes
  BY SizeAssumption DEF PipeTypes
<1>6. Holds
  BY DEF Holds, AtWork
<1>7. QueryInv
  BY BoundAssumption, BackAssumption, SizeAssumption DEF QueryInv
<1> QED
  BY <1>1, <1>2, <1>3, <1>4, <1>5, <1>6, <1>7 DEF TypeInv, StoreInv

-----------------------------------------------------------------------------
(* What a child's step does *)

\* Going on to the next call changes nothing of any other child; a line is kept for
\* as long as the child is at work on it.
LEMMA GoOnFacts ==
  ASSUME NEW c \in Child, ChildTypes, PipeTypes,
         NEW call \in {"readline"} \union AtWork \union Over, GoOn(c, call)
  PROVE  /\ pc' = [pc EXCEPT ![c] = call] /\ pc'[c] = call
         /\ IF call \in AtWork THEN line' = line ELSE line' = [line EXCEPT ![c] = NoLine]
         /\ \A d \in Child \ {c} :
              /\ pc'[d] = pc[d] /\ line'[d] = line[d]
              /\ slot'[d] = slot[d] /\ pipe'[d] = pipe[d]
         /\ pipe'[c] \in {pipe[c], <<>>}
         /\ slot' \in [Child -> 0 .. Slots - 1]
         /\ pipe' \in [Child -> Seq(reported)]
<1>1. pc' = [pc EXCEPT ![c] = call] /\ pc'[c] = call /\ \A d \in Child \ {c} : pc'[d] = pc[d]
  BY DEF GoOn, ChildTypes
<1>2. /\ IF call \in AtWork THEN line' = line ELSE line' = [line EXCEPT ![c] = NoLine]
      /\ \A d \in Child \ {c} : line'[d] = line[d]
  BY DEF GoOn, ChildTypes
<1>3. slot' \in [Child -> 0 .. Slots - 1] /\ \A d \in Child \ {c} : slot'[d] = slot[d]
  BY SizeAssumption DEF GoOn, ChildTypes
<1>4. /\ pipe' \in [Child -> Seq(reported)] /\ pipe'[c] \in {pipe[c], <<>>}
      /\ \A d \in Child \ {c} : pipe'[d] = pipe[d]
  <2>1. <<>> \in Seq(reported)
    BY EmptySeq
  <2> QED
    BY <2>1 DEF GoOn, PipeTypes
<1> QED
  BY <1>1, <1>2, <1>3, <1>4

\* The types of the children survive it.
LEMMA GoOnTypes ==
  ASSUME NEW c \in Child, ChildTypes, PipeTypes, reported' = reported,
         NEW call \in {"readline"} \union AtWork \union Over, GoOn(c, call)
  PROVE  ChildTypes' /\ PipeTypes'
<1>1. pc' \in [Child -> {"unborn", "readline"} \union AtWork \union Over]
  <2>1. pc' = [pc EXCEPT ![c] = call]
    BY GoOnFacts
  <2> QED
    BY <2>1 DEF ChildTypes
<1>2. line' \in [Child -> Line \union {NoLine}]
  BY GoOnFacts DEF ChildTypes
<1>3. slot' \in [Child -> 0 .. Slots - 1] /\ pipe' \in [Child -> Seq(reported')]
  BY GoOnFacts
<1>4. \A d \in Child : Len(pipe'[d]) <= PipeSize
  <2>1. Len(<<>>) <= PipeSize
    BY SizeAssumption
  <2> QED
    BY <2>1, GoOnFacts DEF PipeTypes
<1> QED
  BY <1>1, <1>2, <1>3, <1>4 DEF ChildTypes, PipeTypes

\* So does what it holds, if the file it works on next is there.
LEMMA GoOnHolds ==
  ASSUME NEW c \in Child, ChildTypes, HistoryTypes, PipeTypes, Holds, reported' = reported,
         NEW call \in {"readline"} \union AtWork \union Over, GoOn(c, call),
         call \in AtWork => pc[c] \in AtWork,
         call \in {"fill", "locate", "store"} => file'[line[c].file] # "absent",
         \A f \in File : file[f] # "absent" => file'[f] # "absent"
  PROVE  Holds'
<1>1. ASSUME NEW d \in Child \ {c}
      PROVE  /\ IF pc'[d] \in AtWork THEN line'[d] \in reported' ELSE line'[d] = NoLine
             /\ pc'[d] \in {"fill", "locate", "store"} => file'[line'[d].file] # "absent"
  <2>1. pc'[d] = pc[d] /\ line'[d] = line[d]
    BY GoOnFacts
  <2>2. pc[d] \in {"fill", "locate", "store"} => line[d].file \in File
    BY DEF Holds, HistoryTypes, AtWork, Line
  <2> QED
    BY <2>1, <2>2 DEF Holds
<1>2. /\ IF pc'[c] \in AtWork THEN line'[c] \in reported' ELSE line'[c] = NoLine
      /\ pc'[c] \in {"fill", "locate", "store"} => file'[line'[c].file] # "absent"
  <2>1. {"fill", "locate", "store"} \subseteq AtWork
    BY DEF AtWork
  <2>2. pc'[c] = call
        /\ IF call \in AtWork THEN line' = line ELSE line' = [line EXCEPT ![c] = NoLine]
    BY GoOnFacts
  <2> QED
    BY <2>1, <2>2 DEF Holds, ChildTypes
<1> QED
  BY <1>1, <1>2 DEF Holds

\* A child at work holds a line whose file is one of the files.
LEMMA FileOfLine ==
  ASSUME StoreInv, NEW c \in Child, pc[c] \in AtWork
  PROVE  /\ line[c] \in Line /\ line[c].file \in File /\ line[c].point \in Point
         /\ line[c] = [file |-> line[c].file, point |-> line[c].point]
BY DEF StoreInv, Holds, HistoryTypes, Line

\* The world around the children keeps the types of the store.
LEMMA WorldTypesStep ==
  ASSUME StoreInv, World
  PROVE  StoreInv' /\ UNCHANGED fileVars
<1> USE DEF StoreInv
<1>1. CASE Tick
  <2>1. WorldTypes'
    BY <1>1, BoundAssumption DEF Tick, WorldTypes
  <2> QED
    BY <1>1, <2>1
    DEF Tick, fileVars, childVars, history, FileTypes, ChildTypes, HistoryTypes, PipeTypes, Holds
<1>2. CASE StopCollector
  <2>1. WorldTypes'
    BY <1>2, BoundAssumption DEF StopCollector, WorldTypes
  <2> QED
    BY <1>2, <2>1
    DEF StopCollector, fileVars, childVars, history, FileTypes, ChildTypes, HistoryTypes,
        PipeTypes, Holds
<1>3. CASE StartCollector
  <2>1. PICK c \in Child :
          /\ {d \in Child : pc[d] # "unborn"} = 1 .. c - 1
          /\ fed' = c /\ pc' = [pc EXCEPT ![c] = "readline"]
    BY <1>3 DEF StartCollector
  <2>2. pc[c] = "unborn"
    BY <2>1 DEF Child
  <2>3. WorldTypes'
    BY <1>3, <2>1, BoundAssumption DEF StartCollector, WorldTypes, Child
  <2>4. ChildTypes'
    BY <1>3, <2>1 DEF StartCollector, ChildTypes
  <2>5. Holds'
    <3>1. \A d \in Child : pc'[d] = pc[d] \/ (pc[d] = "unborn" /\ pc'[d] = "readline")
      BY <2>1, <2>2 DEF ChildTypes
    <3>2. UNCHANGED <<line, file, reported>>
      BY <1>3 DEF StartCollector, fileVars
    <3> QED
      BY <3>1, <3>2 DEF Holds, AtWork
  <2> QED
    BY <1>3, <2>3, <2>4, <2>5
    DEF StartCollector, fileVars, FileTypes, HistoryTypes, PipeTypes
<1>4. ASSUME NEW i \in Instance, Report(i) PROVE StoreInv' /\ UNCHANGED fileVars
  <2>1. CASE UNCHANGED <<pipe, reported>> /\ fed' \in {0, fed}
    BY <1>4, <2>1, BoundAssumption
    DEF Report, fileVars, childVars, WorldTypes, FileTypes, ChildTypes, HistoryTypes,
        PipeTypes, Holds
  <2>2. CASE UNCHANGED fed /\ Len(pipe[fed]) < PipeSize
             /\ \E offset \in Offsets :
                  LET new == [file |-> <<host[i], i>>,
                              point |-> [time |-> now + offset,
                                         value |-> Cardinality(reported) + 1]]
                  IN  /\ new.point.time > 0
                      /\ reported' = reported \union {new}
                      /\ pipe' = [pipe EXCEPT ![fed] = Append(@, new)]
    <3>1. PICK offset \in Offsets :
            LET new == [file |-> <<host[i], i>>,
                        point |-> [time |-> now + offset,
                                   value |-> Cardinality(reported) + 1]]
            IN  /\ new.point.time > 0
                /\ reported' = reported \union {new}
                /\ pipe' = [pipe EXCEPT ![fed] = Append(@, new)]
      BY <2>2
    <3> DEFINE new == [file |-> <<host[i], i>>,
                       point |-> [time |-> now + offset,
                                  value |-> Cardinality(reported) + 1]]
    <3>2. new \in Line
      <4>1. Cardinality(reported) + 1 \in Nat \ {0}
        BY FS_CardinalityType DEF HistoryTypes
      <4>2. now + offset \in Nat \ {0}
        BY <3>1, BoundAssumption DEF WorldTypes
      <4>3. <<host[i], i>> \in File
        BY <1>4 DEF WorldTypes, File
      <4> QED
        BY <4>1, <4>2, <4>3 DEF Line, Point
    <3> HIDE DEF new
    <3>3. reported' = reported \union {new} /\ pipe' = [pipe EXCEPT ![fed] = Append(@, new)]
      BY <3>1 DEF new
    <3>4. HistoryTypes'
      <4>1. IsFiniteSet(reported')
        BY <3>3, FS_AddElement DEF HistoryTypes
      <4>2. UNCHANGED <<stored, overlapped, killed>>
        BY <1>4 DEF Report
      <4> QED
        BY <3>2, <3>3, <4>1, <4>2 DEF HistoryTypes
    <3>5. PipeTypes'
      <4>1. fed \in Child
        BY <1>4, BoundAssumption DEF Report, WorldTypes, Child
      <4>2. ASSUME NEW d \in Child
            PROVE  pipe'[d] \in Seq(reported') /\ Len(pipe'[d]) <= PipeSize
        <5>1. pipe[d] \in Seq(reported')
          BY <3>3, SeqMonotonic DEF PipeTypes
        <5>2. new \in reported'
          BY <3>3
        <5>3. Append(pipe[d], new) \in Seq(reported')
              /\ Len(Append(pipe[d], new)) = Len(pipe[d]) + 1 /\ Len(pipe[d]) \in Nat
          BY <5>1, <5>2
        <5>4. pipe'[d] = IF d = fed THEN Append(pipe[d], new) ELSE pipe[d]
          BY <3>3, <4>1 DEF PipeTypes
        <5> QED
          BY <2>2, <5>1, <5>3, <5>4, SizeAssumption DEF PipeTypes
      <4>3. pipe' \in [Child -> Seq(reported')]
        BY <3>3, <4>2 DEF PipeTypes
      <4> QED
        BY <4>2, <4>3 DEF PipeTypes
    <3>6. WorldTypes' /\ FileTypes' /\ ChildTypes' /\ Holds' /\ UNCHANGED fileVars
      BY <1>4, <2>2, <3>3
      DEF Report, fileVars, childVars, WorldTypes, FileTypes, ChildTypes, Holds
    <3> QED
      BY <3>4, <3>5, <3>6
  <2> QED
    BY <1>4, <2>1, <2>2 DEF Report
<1>5. ASSUME NEW i \in Instance, NEW n \in Node, Move(i, n) PROVE StoreInv' /\ UNCHANGED fileVars
  <2>1. WorldTypes'
    BY <1>5 DEF Move, WorldTypes
  <2> QED
    BY <1>5, <2>1
    DEF Move, fileVars, childVars, history, FileTypes, ChildTypes, HistoryTypes, PipeTypes, Holds
<1> QED
  BY <1>1, <1>2, <1>3, <1>4, <1>5 DEF World

\* The slot of a time is one of the ring's, and slots hold points.
LEMMA SlotType ==
  ASSUME NEW r \in [0 .. Slots - 1 -> Point \union {NoPoint}], NEW t \in Int
  PROVE  /\ SlotOf(r, t) \in 0 .. Slots - 1
         /\ r[0].time \in Nat /\ 0 \in 0 .. Slots - 1
         /\ \A s \in 0 .. Slots - 1 : r[s].time \in Nat
<1>1. 0 \in 0 .. Slots - 1
  BY SizeAssumption
<1>2. \A s \in 0 .. Slots - 1 : r[s].time \in Nat
  BY DEF Point, NoPoint
<1>3. \A a, b \in Int : (a - b) % Slots \in 0 .. Slots - 1
  BY SizeAssumption
<1>4. (t - r[0].time) % Slots \in 0 .. Slots - 1
  <2>1. r[0].time \in Int
    BY <1>1, <1>2
  <2> QED
    BY <1>3, <2>1
<1>5. SlotOf(r, t) \in 0 .. Slots - 1
  BY <1>1, <1>4 DEF SlotOf
<1> QED
  BY <1>1, <1>2, <1>5

\* A child's steps, and its death, keep the types of the store, and every file.
LEMMA ChildTypesStep ==
  ASSUME StoreInv, NEW c \in Child, main(c) \/ Kill(c)
  PROVE  StoreInv' /\ \A f \in File : file[f] # "absent" => file'[f] # "absent"
<1> USE DEF StoreInv
<1> DEFINE Stay == \A f \in File : file[f] # "absent" => file'[f] # "absent"
           f == line[c].file
<1>1. pc[c] \in AtWork => f \in File /\ line[c] \in Line /\ line[c].point \in Point
                          /\ line[c] \in reported
  BY FileOfLine DEF Holds
<1>2. ASSUME NEW call \in {"readline"} \union AtWork \union Over, GoOn(c, call),
             UNCHANGED <<now, host, fed>>, FileTypes', HistoryTypes', reported' = reported,
             Stay, call \in AtWork => pc[c] \in AtWork,
             call \in {"fill", "locate", "store"} => file'[f] # "absent"
      PROVE  StoreInv'
  <2>1. ChildTypes' /\ PipeTypes'
    BY <1>2, GoOnTypes
  <2>2. Holds'
    BY <1>2, GoOnHolds
  <2> QED
    BY <1>2, <2>1, <2>2 DEF WorldTypes
<1>3. CASE ReadLine(c)
  <2>1. FileTypes' /\ HistoryTypes' /\ UNCHANGED <<now, host, fed, reported, file>>
    BY <1>3 DEF ReadLine, fileVars, history, FileTypes, HistoryTypes
  <2>2. CASE GoOn(c, "ended")
    BY <1>2, <2>1, <2>2 DEF Over, AtWork
  <2>3. CASE ~GoOn(c, "ended")
    <3>1. /\ pipe[c] # <<>> /\ line' = [line EXCEPT ![c] = Head(pipe[c])]
          /\ pipe' = [pipe EXCEPT ![c] = Tail(pipe[c])]
          /\ pc' = [pc EXCEPT ![c] = "exists"] /\ slot' = slot
      BY <1>3, <2>3 DEF ReadLine
    <3>2. /\ Head(pipe[c]) \in reported /\ Tail(pipe[c]) \in Seq(reported)
          /\ Len(Tail(pipe[c])) <= PipeSize
      <4>1. pipe[c] \in Seq(reported) /\ Len(pipe[c]) <= PipeSize
        BY DEF PipeTypes
      <4>2. /\ Head(pipe[c]) \in reported /\ Tail(pipe[c]) \in Seq(reported)
            /\ Len(Tail(pipe[c])) = Len(pipe[c]) - 1 /\ Len(pipe[c]) \in Nat
        BY <3>1, <4>1, HeadTailProperties
      <4> QED
        BY <4>1, <4>2, SizeAssumption
    <3>3. PipeTypes'
      BY <2>1, <3>1, <3>2 DEF PipeTypes
    <3>4. ChildTypes'
      BY <3>1, <3>2 DEF ChildTypes, HistoryTypes, AtWork
    <3>5. Holds'
      BY <2>1, <3>1, <3>2 DEF Holds, ChildTypes, AtWork
    <3> QED
      BY <2>1, <3>3, <3>4, <3>5 DEF WorldTypes
  <2> QED
    BY <2>1, <2>2, <2>3
<1>4. CASE Exists(c)
  BY <1>2, <1>4 DEF Exists, fileVars, history, FileTypes, HistoryTypes, AtWork
<1>5. CASE Create(c)
  BY <1>2, <1>5 DEF Create, fileVars, history, FileTypes, HistoryTypes, AtWork, Over
<1>6. CASE OpenNew(c) \/ FillNew(c)
  <2>1. PICK state \in {"empty", "made"} :
          /\ file' = [file EXCEPT ![f] = state] /\ ring' = [ring EXCEPT ![f] = EmptyRing]
          /\ GoOn(c, IF state = "empty" THEN "fill" ELSE "locate") /\ pc[c] \in AtWork
          /\ UNCHANGED <<now, host, fed, history>>
    BY <1>6 DEF OpenNew, FillNew, AtWork
  <2>2. FileTypes' /\ HistoryTypes' /\ Stay /\ file'[f] # "absent"
    BY <1>1, <2>1, EmptyRingType DEF FileTypes, HistoryTypes, history
  <2>3. "fill" \in AtWork /\ "locate" \in AtWork
    BY DEF AtWork
  <2> QED
    BY <1>2, <2>1, <2>2, <2>3 DEF history
<1>7. CASE Locate(c)
  <2>1. FileTypes' /\ HistoryTypes' /\ UNCHANGED <<now, host, fed, reported, file>>
        /\ pc[c] = "locate"
    BY <1>7 DEF Locate, fileVars, history, FileTypes, HistoryTypes
  <2>2. CASE GoOn(c, "raised") \/ GoOn(c, "uncovered")
    BY <1>2, <2>1, <2>2 DEF Over, AtWork
  <2>3. CASE ~(GoOn(c, "raised") \/ GoOn(c, "uncovered"))
    <3>1. /\ pc' = [pc EXCEPT ![c] = "store"] /\ UNCHANGED <<line, pipe>>
          /\ slot' = [slot EXCEPT ![c] = SlotOf(ring[f], line[c].point.time)]
      BY <1>7, <2>3 DEF Locate
    <3>2. SlotOf(ring[f], line[c].point.time) \in 0 .. Slots - 1
      <4>1. line[c].point.time \in Int /\ f \in File
        BY <1>1, <2>1 DEF AtWork, Point
      <4>2. ring[f] \in [0 .. Slots - 1 -> Point \union {NoPoint}]
        BY <4>1 DEF FileTypes
      <4> QED
        BY <4>1, <4>2, SlotType
    <3>3. ChildTypes' /\ Holds'
      BY <2>1, <3>1, <3>2 DEF ChildTypes, Holds, AtWork
    <3> QED
      BY <2>1, <3>1, <3>3 DEF PipeTypes, WorldTypes
  <2> QED
    BY <2>1, <2>2, <2>3
<1>8. CASE Store(c)
  <2>1. /\ ring' = [ring EXCEPT ![f][slot[c]] = line[c].point]
        /\ stored' = stored \union {line[c]} /\ GoOn(c, "readline") /\ pc[c] \in AtWork
        /\ UNCHANGED <<now, host, file, fed, reported, overlapped, killed>>
        /\ pc[c] = "store"
    BY <1>8 DEF Store, AtWork
  <2>2. FileTypes'
    <3>1. ring' \in [File -> [0 .. Slots - 1 -> Point \union {NoPoint}]]
      BY <1>1, <2>1 DEF FileTypes, ChildTypes
    <3>2. \A g \in File : file[g] = "absent" => ring'[g] = ring[g]
      BY <1>1, <2>1 DEF FileTypes, Holds
    <3> QED
      BY <2>1, <3>1, <3>2 DEF FileTypes
  <2>3. HistoryTypes'
    BY <1>1, <2>1 DEF HistoryTypes
  <2>4. "readline" \notin AtWork
    BY DEF AtWork
  <2>5. Stay
    BY <2>1
  <2>6. "readline" \in {"readline"} \union AtWork \union Over
    OBVIOUS
  <2>7. "readline" \notin {"fill", "locate", "store"} /\ UNCHANGED <<now, host, fed>>
    BY <2>1
  <2> QED
    BY <1>2, <2>1, <2>2, <2>3, <2>4, <2>5, <2>6, <2>7
<1>9. CASE Kill(c)
  BY <1>2, <1>9 DEF Kill, fileVars, FileTypes, HistoryTypes, AtWork, Over
<1> QED
  BY <1>3, <1>4, <1>5, <1>6, <1>7, <1>8, <1>9 DEF main, update

\* Every step keeps the types of the store, and every file.
LEMMA StoreStep ==
  ASSUME StoreInv, [StoreNext]_storeVars
  PROVE  StoreInv' /\ \A f \in File : file[f] # "absent" => file'[f] # "absent"
<1>1. CASE World
  BY <1>1, WorldTypesStep DEF fileVars
<1>2. CASE \E c \in Child : main(c) \/ Kill(c)
  BY <1>2, ChildTypesStep
<1>3. CASE UNCHANGED storeVars
  BY <1>3 DEF storeVars, fileVars, childVars, history, StoreInv, WorldTypes, FileTypes,
              ChildTypes, HistoryTypes, PipeTypes, Holds
<1> QED
  BY <1>1, <1>2, <1>3 DEF StoreNext

-----------------------------------------------------------------------------
(* The steps of the store, one line each *)

FilesRest == UNCHANGED <<file, ring, stored, killed>>
WorksOn(c, call) == pc'[c] = call /\ line'[c] = line[c]

\* What the step of a child does with the file its line is for.
Effect(c) ==
  LET f == line[c].file
      t == line[c].point.time
  IN  \/ pc[c] = "readline" /\ FilesRest /\ pc'[c] \in {"exists", "ended"}
      \/ /\ pc[c] = "exists" /\ FilesRest
         /\ WorksOn(c, IF file[f] = "absent" THEN "create" ELSE "locate")
      \/ pc[c] = "create" /\ FilesRest /\ file[f] = "absent" /\ WorksOn(c, "open")
      \/ pc[c] = "create" /\ FilesRest /\ file[f] # "absent" /\ pc'[c] = "raised"
      \/ /\ pc[c] = "open" /\ WorksOn(c, "fill") /\ UNCHANGED <<stored, killed>>
         /\ file' = [file EXCEPT ![f] = "empty"] /\ ring' = [ring EXCEPT ![f] = EmptyRing]
      \/ /\ pc[c] = "fill" /\ WorksOn(c, "locate") /\ UNCHANGED <<stored, killed>>
         /\ file' = [file EXCEPT ![f] = "made"] /\ ring' = [ring EXCEPT ![f] = EmptyRing]
      \/ pc[c] = "locate" /\ FilesRest /\ file[f] # "made" /\ pc'[c] = "raised"
      \/ pc[c] = "locate" /\ FilesRest /\ pc'[c] = "uncovered"
      \/ /\ pc[c] = "locate" /\ FilesRest /\ WorksOn(c, "store") /\ file[f] = "made"
         /\ Covered(t) /\ slot'[c] = SlotOf(ring[f], t)
      \/ /\ pc[c] = "store" /\ pc'[c] = "readline" /\ UNCHANGED <<file, killed>>
         /\ ring' = [ring EXCEPT ![f][slot[c]] = line[c].point]
         /\ stored' = stored \union {line[c]}
      \/ UNCHANGED <<file, ring, stored>> /\ pc'[c] = "killed" /\ killed'

\* Nothing else changes but what is reported and piped.
LEMMA ChildEffect ==
  ASSUME StoreInv, NEW c \in Child, main(c) \/ Kill(c)
  PROVE  /\ Running(c) /\ UNCHANGED <<now, overlapped>> /\ Effect(c)
         /\ \A d \in Child \ {c} : pc'[d] = pc[d] /\ line'[d] = line[d] /\ slot'[d] = slot[d]
<1> USE DEF StoreInv
<1> DEFINE Rest == \A d \in Child \ {c} :
                     pc'[d] = pc[d] /\ line'[d] = line[d] /\ slot'[d] = slot[d]
<1>1. ASSUME NEW call \in {"readline"} \union AtWork \union Over, GoOn(c, call)
      PROVE  Rest /\ pc'[c] = call /\ (call \in AtWork => WorksOn(c, call))
  <2>1. /\ pc'[c] = call /\ Rest
        /\ IF call \in AtWork THEN line' = line ELSE line' = [line EXCEPT ![c] = NoLine]
    BY <1>1, GoOnFacts
  <2> QED
    BY <2>1 DEF WorksOn
<1>2. CASE ReadLine(c)
  <2>1. FilesRest /\ UNCHANGED <<now, overlapped>> /\ pc[c] = "readline"
    BY <1>2 DEF ReadLine, FilesRest, fileVars, history
  <2>2. Rest /\ pc'[c] \in {"exists", "ended"}
    <3>1. CASE GoOn(c, "ended")
      BY <1>1, <3>1 DEF Over
    <3>2. CASE ~GoOn(c, "ended")
      BY <1>2, <3>2 DEF ReadLine, ChildTypes
    <3> QED
      BY <3>1, <3>2
  <2> QED
    BY <2>1, <2>2 DEF Effect, Running
<1>3. CASE Exists(c)
  BY <1>1, <1>3 DEF Exists, Effect, FilesRest, fileVars, history, Running, AtWork
<1>4. CASE Create(c)
  BY <1>1, <1>4 DEF Create, Effect, FilesRest, fileVars, history, Running, AtWork, Over
<1>5. CASE OpenNew(c)
  BY <1>1, <1>5 DEF OpenNew, Effect, history, Running, AtWork
<1>6. CASE FillNew(c)
  BY <1>1, <1>6 DEF FillNew, Effect, history, Running, AtWork
<1>7. CASE Locate(c)
  <2>1. FilesRest /\ UNCHANGED <<now, overlapped>> /\ pc[c] = "locate" /\ Running(c)
    BY <1>7 DEF Locate, FilesRest, fileVars, history, Running, AtWork
  <2>2. CASE file[line[c].file] # "made" /\ GoOn(c, "raised")
    BY <1>1, <2>1, <2>2 DEF Over, Effect
  <2>3. CASE GoOn(c, "uncovered")
    BY <1>1, <2>1, <2>3 DEF Over, Effect
  <2>4. CASE /\ file[line[c].file] = "made" /\ Covered(line[c].point.time)
             /\ pc' = [pc EXCEPT ![c] = "store"]
             /\ slot' = [slot EXCEPT ![c] = SlotOf(ring[line[c].file], line[c].point.time)]
             /\ UNCHANGED <<line, pipe>>
    BY <2>1, <2>4 DEF ChildTypes, Effect, WorksOn
  <2> QED
    BY <1>7, <2>2, <2>3, <2>4 DEF Locate
<1>8. CASE Store(c)
  BY <1>1, <1>8 DEF Store, Effect, Running, AtWork
<1>9. CASE Kill(c)
  BY <1>1, <1>9 DEF Kill, Effect, fileVars, Over
<1> QED
  BY <1>2, <1>3, <1>4, <1>5, <1>6, <1>7, <1>8, <1>9 DEF main, update

\* Around the children only the clock, the reports and the birth of a child matter;
\* one that is born while another runs overlaps with it.
LEMMA WorldEffect ==
  ASSUME StoreInv, World \/ UNCHANGED storeVars
  PROVE  /\ FilesRest /\ UNCHANGED <<line, slot>> /\ now' >= now
         /\ \/ UNCHANGED <<pc, overlapped>>
            \/ \E c \in Child :
                 /\ pc[c] = "unborn" /\ pc' = [pc EXCEPT ![c] = "readline"]
                 /\ overlapped' = (overlapped \/ \E d \in Child : Running(d))
<1> USE DEF FilesRest, fileVars, childVars, history
<1>0. now \in Int
  BY BoundAssumption DEF StoreInv, WorldTypes
<1>1. CASE StartCollector
  <2>1. PICK c \in Child :
          /\ {d \in Child : pc[d] # "unborn"} = 1 .. c - 1
          /\ pc' = [pc EXCEPT ![c] = "readline"]
    BY <1>1 DEF StartCollector
  <2>2. pc[c] = "unborn"
    BY <2>1 DEF Child
  <2>3. FilesRest /\ UNCHANGED <<line, slot, now>>
    BY <1>1 DEF StartCollector
  <2>4. overlapped' = (overlapped \/ \E d \in Child : Running(d))
    BY <1>1 DEF StartCollector
  <2>5. now' >= now
    BY <1>0, <2>3
  <2> QED
    BY <2>1, <2>2, <2>3, <2>4, <2>5, Zenon
<1>2. CASE Tick
  BY <1>0, <1>2 DEF Tick
<1>3. CASE ~StartCollector /\ ~Tick
  BY <1>0, <1>3 DEF World, StopCollector, Report, Move, storeVars
<1> QED
  BY <1>1, <1>2, <1>3

-----------------------------------------------------------------------------
(* What the dashboard fetches *)

\* A set of integers that has a bound has a last element.
LEMMA LastExists ==
  ASSUME NEW n \in Int, NEW T \in SUBSET Int, T # {}, \A t \in T : t <= n
  PROVE  \E t \in T : \A u \in T : u <= t
<1> DEFINE Distances == {d \in Nat : n - d \in T}
<1>1. PICK t \in T : TRUE
  OBVIOUS
<1>2. n - t \in Nat /\ n - (n - t) = t
  BY <1>1
<1>3. Distances \subseteq Nat /\ Distances # {}
  BY <1>1, <1>2
<1>4. \E d \in Distances : \A e \in Distances : ~(<<e, d>> \in OpToRel(<, Nat))
  <2> HIDE DEF Distances
  <2> QED
    BY <1>3, NatLessThanWellFounded, WFMin
<1>5. PICK d \in Distances : \A e \in Distances : ~(e < d)
  BY <1>4 DEF OpToRel
<1>6. ASSUME NEW u \in T PROVE u <= n - d
  <2>1. n - u \in Nat /\ n - (n - u) = u
    BY <1>6
  <2>2. n - u \in Distances
    BY <2>1
  <2>3. ~(n - u < d) /\ d \in Int
    BY <1>5, <2>2
  <2> QED
    BY <2>1, <2>3
<1> QED
  BY <1>5, <1>6

\* The loop over the values of whisper.fetch, from the last to the first, ends at the
\* last one there is.
LEMMA LatestIsLast ==
  ASSUME NEW r, until \in Int, since \in Int, Fetched(r) # {}
  PROVE  /\ Latest(r) \in Fetched(r) /\ Latest(r) \in since + 1 .. until
         /\ r[Place(Latest(r))].time = Latest(r)
         /\ \A u \in Fetched(r) : u <= Latest(r)
<1>1. Fetched(r) \in SUBSET Int /\ \A t \in Fetched(r) : t <= until
  BY DEF Fetched
<1>2. \E t \in Fetched(r) : \A u \in Fetched(r) : u <= t
  BY <1>1, LastExists
<1>3. Latest(r) \in Fetched(r) /\ \A u \in Fetched(r) : u <= Latest(r)
  BY <1>2 DEF Latest
<1> QED
  BY <1>3 DEF Fetched

\* The dashboard leaves the store alone, and the store the dashboard.
LEMMA WhoSteps ==
  ASSUME [Next]_vars
  PROVE  [StoreNext]_storeVars /\ (UNCHANGED queryVars \/ Query)
BY DEF Next, vars, Query, FindFile, FetchBase, FetchPoints

\* Time goes on, and what has been written stays on record.
LEMMA StoreGrows ==
  ASSUME StoreInv, [StoreNext]_storeVars
  PROVE  now' >= now /\ stored \subseteq stored' /\ (overlapped => overlapped')
<1>0. now \in Int
  BY BoundAssumption DEF StoreInv, WorldTypes
<1>1. CASE World \/ UNCHANGED storeVars
  <2>1. now' >= now /\ FilesRest
    BY <1>1, WorldEffect
  <2>2. overlapped => overlapped'
    BY <1>1, WorldEffect
  <2> QED
    BY <2>1, <2>2 DEF FilesRest
<1>2. ASSUME NEW c \in Child, main(c) \/ Kill(c)
      PROVE  now' >= now /\ stored \subseteq stored' /\ (overlapped => overlapped')
  <2>1. UNCHANGED <<now, overlapped>> /\ Effect(c)
    BY <1>2, ChildEffect
  <2>2. stored \subseteq stored'
    BY <2>1 DEF Effect, FilesRest
  <2> QED
    BY <1>0, <2>1, <2>2
<1> QED
  BY <1>1, <1>2 DEF StoreNext

\* Where whisper.fetch looks for a point is one of the slots.
LEMMA PlaceType ==
  ASSUME base \in Nat, NEW t \in Int
  PROVE  Place(t) \in 0 .. Slots - 1
<1>1. t - base \in Int /\ Slots \in Nat \ {0}
  BY SizeAssumption
<1> QED
  BY <1>1 DEF Place

\* Every step keeps TypeInv.
LEMMA TypeStep == TypeInv /\ [Next]_vars => TypeInv'
<1> SUFFICES ASSUME TypeInv, [Next]_vars
             PROVE  TypeInv'
  OBVIOUS
<1>1. StoreInv' /\ \A f \in File : file[f] # "absent" => file'[f] # "absent"
  BY WhoSteps, StoreStep DEF TypeInv
<1>2. now \in 1 .. MaxNow /\ MaxNow \in Nat /\ Back \in Nat
  BY BoundAssumption, BackAssumption, SizeAssumption DEF TypeInv, StoreInv, WorldTypes
<1>0. now' >= now /\ now' \in Int /\ stored \subseteq stored'
  BY <1>1, WhoSteps, StoreGrows, BoundAssumption DEF TypeInv, StoreInv, WorldTypes
<1>3. CASE UNCHANGED queryVars
  <2>1. until' \in 0 .. now'
    BY <1>0, <1>2, <1>3 DEF TypeInv, QueryInv, queryVars
  <2> QED
    BY <1>0, <1>1, <1>3, <2>1 DEF TypeInv, QueryInv, queryVars
<1>4. ASSUME NEW i \in Instance, FindFile(i) PROVE QueryInv'
  <2>1. UNCHANGED <<now, file, stored>>
    BY <1>4 DEF FindFile, storeVars, fileVars, history
  <2>2. InstanceFiles(i) \subseteq {f \in File : file[f] # "absent"}
    BY DEF InstanceFiles
  <2>3. now - Back \in -Back .. MaxNow
    BY <1>2
  <2> QED
    BY <1>4, <2>1, <2>2, <2>3 DEF FindFile, TypeInv, QueryInv
<1>5. ASSUME FetchBase PROVE QueryInv'
  <2>1. UNCHANGED <<now, file, ring, stored>> /\ cpu_file \in File
    BY <1>5 DEF FetchBase, storeVars, fileVars, history, TypeInv, QueryInv
  <2>2. ring[cpu_file][0].time \in Nat
    BY <2>1, SlotType DEF TypeInv, StoreInv, FileTypes
  <2>3. now \in 0 .. now /\ 0 \in -Back .. MaxNow
    BY <1>2
  <2>4. CASE request' = "read"
    BY <1>5, <2>1, <2>2, <2>3, <2>4 DEF FetchBase, TypeInv, QueryInv
  <2>5. CASE request' # "read"
    BY <1>5, <2>1, <2>3, <2>5 DEF FetchBase, TypeInv, QueryInv
  <2> QED
    BY <2>4, <2>5
<1>6. ASSUME FetchPoints PROVE QueryInv'
  <2> DEFINE r == ring[cpu_file]
  <2>1. cpu_file \in File /\ r \in [0 .. Slots - 1 -> Point \union {NoPoint}]
    BY <1>6 DEF FetchPoints, TypeInv, StoreInv, QueryInv, FileTypes
  <2>2. since \in Int /\ until \in Int /\ base \in Nat
    BY <1>2 DEF TypeInv, QueryInv
  <2>3. ASSUME Fetched(r) # {} PROVE r[Place(Latest(r))] \in Point \union {NoPoint}
    <3>1. Latest(r) \in Int
      BY <2>2, <2>3, LatestIsLast
    <3>2. Place(Latest(r)) \in 0 .. Slots - 1
      BY <2>2, <3>1, PlaceType
    <3> QED
      BY <2>1, <3>2
  <2>4. snapshot' \in Point \union {NoPoint}
    BY <1>6, <2>3 DEF FetchPoints, TypeInv, QueryInv
  <2>5. 0 \in 0 .. now' /\ 0 \in -Back .. MaxNow /\ 0 \in Nat /\ {} \subseteq stored'
    BY <1>0, <1>2
  <2> QED
    BY <1>6, <2>4, <2>5 DEF FetchPoints, TypeInv, QueryInv
<1> QED
  BY <1>1, <1>3, <1>4, <1>5, <1>6, WhoSteps DEF TypeInv, Query

\* Files, rings, pipes and lines are what they should be, and a file that is being
\* fetched is there, whatever children are started, killed and overtaken.
THEOREM DashboardTypes == Spec => []TypeOK
BY TypeInit, TypeStep, TypeInvGivesTypeOK, PTL DEF Spec

-----------------------------------------------------------------------------
(* Files without a header *)

LEMMA HeaderInit == Init => EmptyIsBeingMade
BY DEF Init, StoreInit, EmptyIsBeingMade

\* Every step keeps EmptyIsBeingMade: only open() empties a file, only the child that
\* did so leaves "fill", and it leaves it by writing the header, or killed.
LEMMA HeaderStep ==
  ASSUME StoreInv, EmptyIsBeingMade, [StoreNext]_storeVars
  PROVE  EmptyIsBeingMade'
<1>1. CASE World \/ UNCHANGED storeVars
  <2>1. FilesRest /\ line' = line /\ \A d \in Child : pc[d] = "fill" => pc'[d] = "fill"
    BY <1>1, WorldEffect DEF StoreInv, ChildTypes
  <2> QED
    BY <2>1 DEF EmptyIsBeingMade, FilesRest
<1>2. ASSUME NEW c \in Child, main(c) \/ Kill(c) PROVE EmptyIsBeingMade'
  <2> SUFFICES ASSUME NEW f \in File, file'[f] = "empty", ~killed'
               PROVE  \E d \in Child : pc'[d] = "fill" /\ line'[d].file = f
    BY DEF EmptyIsBeingMade
  <2>1. /\ Effect(c)
        /\ \A d \in Child \ {c} : pc'[d] = pc[d] /\ line'[d] = line[d]
    BY <1>2, ChildEffect
  <2>2. f \in DOMAIN file
    BY DEF StoreInv, FileTypes
  <2>3. CASE pc[c] = "open" /\ line[c].file = f
    BY <2>1, <2>3 DEF Effect, WorksOn
  <2>4. CASE pc[c] = "fill" /\ line[c].file = f
    BY <2>1, <2>2, <2>4 DEF Effect
  <2>5. CASE ~(pc[c] \in {"open", "fill"} /\ line[c].file = f)
    <3>1. file'[f] = file[f] /\ ~killed
      BY <2>1, <2>2, <2>5 DEF Effect, FilesRest
    <3>2. PICK d \in Child : pc[d] = "fill" /\ line[d].file = f
      BY <3>1 DEF EmptyIsBeingMade
    <3>3. d # c
      BY <2>5, <3>2
    <3> QED
      BY <2>1, <3>2, <3>3
  <2> QED
    BY <2>3, <2>4, <2>5
<1> QED
  BY <1>1, <1>2 DEF StoreNext

\* A file without a header is about to be given one, however many children are at
\* work on it, unless one of them was killed.
THEOREM EmptyFilesAreBeingMade == Spec => []EmptyIsBeingMade
<1>1. TypeInv /\ EmptyIsBeingMade /\ [Next]_vars => EmptyIsBeingMade'
  BY WhoSteps, HeaderStep DEF TypeInv
<1> QED
  BY <1>1, TypeInit, TypeStep, HeaderInit, PTL DEF Spec

-----------------------------------------------------------------------------
(* Children that do not overlap *)

\* One child at a time is at work; a file it finds absent stays so until it makes it,
\* a file that is not made has no points, and unless one was killed on the way, a
\* file that is looked into is made.
AloneInv ==
  ~overlapped =>
    /\ \A c, d \in Child : Running(c) /\ Running(d) => c = d
    /\ \A c \in Child :
         /\ pc[c] \in {"create", "open"} => file[line[c].file] = "absent"
         /\ pc[c] = "fill" => file[line[c].file] = "empty"
         /\ pc[c] = "store" => file[line[c].file] = "made"
         /\ ~killed => /\ pc[c] = "locate" => file[line[c].file] = "made"
                       /\ pc[c] # "raised"
    /\ \A f \in File : file[f] # "made" => ring[f] = EmptyRing

LEMMA AloneInit == Init => AloneInv
BY DEF Init, StoreInit, AloneInv, Running, AtWork

\* Every step keeps AloneInv.
LEMMA AloneStep ==
  ASSUME StoreInv, StoreInv', EmptyIsBeingMade, AloneInv, [StoreNext]_storeVars
  PROVE  AloneInv'
<1> SUFFICES ASSUME ~overlapped'
             PROVE  AloneInv'
  BY DEF AloneInv
<1>1. CASE World \/ UNCHANGED storeVars
  <2>1. CASE UNCHANGED <<pc, overlapped>>
    <3>1. UNCHANGED <<line, file, ring, killed>>
      BY <1>1, WorldEffect DEF FilesRest
    <3> QED
      BY <2>1, <3>1 DEF AloneInv, Running
  <2>2. CASE ~UNCHANGED <<pc, overlapped>>
    <3>1. PICK c \in Child :
            /\ pc[c] = "unborn" /\ pc' = [pc EXCEPT ![c] = "readline"]
            /\ overlapped' = (overlapped \/ \E d \in Child : Running(d))
      BY <1>1, <2>2, WorldEffect
    <3>2. ~overlapped /\ \A d \in Child : ~Running(d)
      BY <3>1
    <3>3. pc'[c] = "readline" /\ \A d \in Child \ {c} : pc'[d] = pc[d]
      BY <3>1 DEF StoreInv, ChildTypes
    <3>4. UNCHANGED <<line, file, ring, killed>>
      BY <1>1, WorldEffect DEF FilesRest
    <3>5. \A d \in Child : Running(d)' => d = c
      BY <3>2, <3>3 DEF Running
    <3> QED
      BY <3>2, <3>3, <3>4, <3>5 DEF AloneInv
  <2> QED
    BY <2>1, <2>2
<1>2. ASSUME NEW c \in Child, main(c) \/ Kill(c) PROVE AloneInv'
  <2>1. /\ Running(c) /\ UNCHANGED overlapped /\ Effect(c)
        /\ \A d \in Child \ {c} : pc'[d] = pc[d] /\ line'[d] = line[d]
    BY <1>2, ChildEffect
  <2> DEFINE f == line[c].file
  <2>2. /\ ~overlapped
        /\ \A d \in Child \ {c} : ~Running(d) /\ ~Running(d)'
        /\ pc[c] \in {"create", "open"} => file[f] = "absent"
        /\ pc[c] = "fill" => file[f] = "empty"
        /\ pc[c] = "store" => file[f] = "made"
        /\ \A g \in File : file[g] # "made" => ring[g] = EmptyRing
    BY <2>1 DEF AloneInv, Running
  <2>3. /\ pc[c] \in AtWork => f \in File
        /\ f \in File => f \in DOMAIN file /\ f \in DOMAIN ring
        /\ DOMAIN file = File /\ DOMAIN ring = File
    BY FileOfLine DEF StoreInv, FileTypes
  <2>4. \A d, e \in Child : Running(d)' /\ Running(e)' => d = e
    BY <2>2
  <2>5. \A d \in Child \ {c} : pc'[d] \notin {"create", "open", "fill", "locate", "store"}
    BY <2>2 DEF Running, AtWork
  <2>6. ~killed' => ~killed /\ \A d \in Child \ {c} : pc'[d] # "raised"
    BY <2>1, <2>2 DEF Effect, FilesRest, AloneInv
  <2>7. /\ pc'[c] \in {"create", "open"} => file'[line'[c].file] = "absent"
        /\ pc'[c] = "fill" => file'[line'[c].file] = "empty"
        /\ pc'[c] = "store" => file'[line'[c].file] = "made"
    BY <2>1, <2>3 DEF Effect, FilesRest, WorksOn, AtWork
  <2>8. ASSUME ~killed'
        PROVE  /\ pc'[c] = "locate" => file'[line'[c].file] = "made"
               /\ pc'[c] # "raised"
    <3>1. CASE pc[c] = "exists"
      <4>1. f \in File /\ file[f] \in {"absent", "empty", "made"}
        BY <2>3, <3>1 DEF AtWork, StoreInv, FileTypes
      <4>2. file[f] # "empty"
        <5>1. \A d \in Child : pc[d] # "fill"
          BY <2>2, <3>1 DEF Running, AtWork
        <5> QED
          BY <2>6, <2>8, <4>1, <5>1 DEF EmptyIsBeingMade
      <4> QED
        BY <2>1, <2>8, <3>1, <4>1, <4>2 DEF Effect, FilesRest, WorksOn
    <3>2. CASE pc[c] = "fill"
      BY <2>1, <2>3, <2>8, <3>2 DEF Effect, WorksOn, AtWork
    <3>3. CASE pc[c] \notin {"exists", "fill"}
      BY <2>1, <2>2, <2>6, <2>8, <3>3 DEF Effect, WorksOn, AloneInv
    <3> QED
      BY <3>1, <3>2, <3>3
  <2>9. ASSUME NEW g \in File, file'[g] # "made" PROVE ring'[g] = EmptyRing
    <3>1. CASE pc[c] = "store"
      <4>1. f # g
        BY <2>1, <2>2, <2>9, <3>1 DEF Effect
      <4> QED
        BY <2>1, <2>2, <2>3, <2>9, <3>1, <4>1 DEF Effect
    <3>2. CASE pc[c] # "store"
      BY <2>1, <2>2, <2>3, <2>9, <3>2 DEF Effect, FilesRest, AtWork
    <3> QED
      BY <3>1, <3>2
  <2> QED
    BY <2>4, <2>5, <2>6, <2>7, <2>8, <2>9 DEF AloneInv
<1> QED
  BY <1>1, <1>2 DEF StoreNext

\* update() raises for a timestamp and nothing else, as long as no child overlaps with
\* another and none is killed.
THEOREM RaisesNeedTrouble == Spec => []RaisesOnlyAfterTrouble
<1>1. TypeInv /\ TypeInv' /\ EmptyIsBeingMade /\ AloneInv /\ [Next]_vars
        => EmptyIsBeingMade' /\ AloneInv'
  BY WhoSteps, HeaderStep, AloneStep DEF TypeInv
<1>2. AloneInv => RaisesOnlyAfterTrouble
  BY DEF AloneInv, RaisesOnlyAfterTrouble
<1> QED
  BY <1>1, <1>2, TypeInit, TypeStep, HeaderInit, AloneInit, PTL DEF Spec

-----------------------------------------------------------------------------
(* Rings *)

\* The points of a ring are where their times, counted from the first slot, put them.
InPlace(r) ==
  \A s \in 0 .. Slots - 1 :
    r[s] # NoPoint => r[0] # NoPoint /\ s = (r[s].time - r[0].time) % Slots

\* Two numbers with the same remainder are equal or a whole turn apart.
LEMMA TurnsApart ==
  ASSUME NEW m \in Nat \ {0}, NEW a \in Int, NEW b \in Int, a % m = b % m, b < a
  PROVE  a - b >= m
<1> DEFINE p == a \div m
           q == b \div m
           r == a % m
<1>1. /\ p \in Int /\ q \in Int /\ r \in Int
      /\ a = p * m + r /\ b = q * m + r
  OBVIOUS
<1> HIDE DEF p, q, r
<1>2. a - b = (p - q) * m
  BY <1>1
<1>3. p - q \in Int /\ p - q > 0
  BY <1>1, <1>2
<1>4. \A k \in Int : k > 0 => k * m >= m
  OBVIOUS
<1> QED
  BY <1>2, <1>3, <1>4

\* A base that is moved by whole turns leaves every remainder as it was.
LEMMA BaseMoves ==
  ASSUME NEW m \in Nat \ {0}, NEW b \in Int, NEW t \in Int, NEW u \in Int, (t - b) % m = 0
  PROVE  (u - t) % m = (u - b) % m
<1> DEFINE k == (t - b) \div m
           p == (u - b) \div m
           r == (u - b) % m
<1>1. /\ k \in Int /\ p \in Int /\ r \in 0 .. m - 1
      /\ t - b = k * m /\ u - b = p * m + r
  OBVIOUS
<1>2. ASSUME NEW j \in Int, NEW x \in 0 .. m - 1
      PROVE  (j * m + x) % m = x
  OBVIOUS
<1> HIDE DEF k, p, r
<1>3. u - t = (p - k) * m + r /\ p - k \in Int
  BY <1>1
<1>4. (u - t) % m = r
  BY <1>1, <1>2, <1>3
<1> QED
  BY <1>4 DEF r

\* Writing a point where Locate puts it keeps the ring in place, even where it becomes
\* the point all others are counted from.
LEMMA PutInPlace ==
  ASSUME NEW r \in [0 .. Slots - 1 -> Point \union {NoPoint}], InPlace(r), NEW p \in Point
  PROVE  InPlace([r EXCEPT ![SlotOf(r, p.time)] = p])
<1> DEFINE t == p.time
           z == SlotOf(r, t)
           q == [r EXCEPT ![z] = p]
           b == r[0].time
<1>1. t \in Int /\ p # NoPoint /\ Slots \in Nat \ {0}
  BY SizeAssumption DEF Point, NoPoint
<1>2. /\ z \in 0 .. Slots - 1 /\ 0 \in 0 .. Slots - 1 /\ b \in Int
      /\ \A s \in 0 .. Slots - 1 : r[s].time \in Int
  <2>1. /\ z \in 0 .. Slots - 1 /\ 0 \in 0 .. Slots - 1 /\ b \in Nat
        /\ \A s \in 0 .. Slots - 1 : r[s].time \in Nat
    BY <1>1, SlotType, Zenon
  <2> QED
    BY <2>1
<1>3. q[z] = p /\ \A s \in 0 .. Slots - 1 : s # z => q[s] = r[s]
  BY <1>2
<1>4. (t - t) % Slots = 0
  BY <1>1
<1> HIDE DEF q
<1>5. CASE r[0] = NoPoint
  <2>1. z = 0
    BY <1>5 DEF SlotOf
  <2>2. \A s \in 0 .. Slots - 1 : s # 0 => q[s] = NoPoint
    BY <1>3, <1>5, <2>1 DEF InPlace
  <2> HIDE DEF z
  <2>3. InPlace(q)
    BY <1>1, <1>3, <1>4, <2>1, <2>2 DEF InPlace
  <2> QED
    BY <2>3 DEF q, z
<1>6. CASE r[0] # NoPoint
  <2>1. z = (t - b) % Slots
    BY <1>6 DEF SlotOf
  <2> HIDE DEF z
  <2>2. CASE z # 0
    <3>1. q[0] = r[0]
      BY <1>2, <1>3, <2>2
    <3>2. InPlace(q)
      BY <1>3, <1>6, <2>1, <3>1 DEF InPlace
    <3> QED
      BY <3>2 DEF q, z
  <2>3. CASE z = 0
    <3> SUFFICES ASSUME NEW s \in 0 .. Slots - 1, q[s] # NoPoint
                 PROVE  q[0] # NoPoint /\ s = (q[s].time - q[0].time) % Slots
      BY DEF InPlace, q, z
    <3>1. q[0] = p /\ p # NoPoint
      BY <1>1, <1>3, <2>3
    <3>2. CASE s = 0
      BY <1>4, <3>1, <3>2
    <3>3. CASE s # 0
      <4>1. q[s] = r[s]
        BY <1>3, <2>3, <3>3
      <4>2. s = (r[s].time - b) % Slots
        BY <4>1 DEF InPlace
      <4>3. (r[s].time - t) % Slots = (r[s].time - b) % Slots
        <5>1. r[s].time \in Int /\ (t - b) % Slots = 0
          BY <1>2, <2>1, <2>3
        <5> HIDE DEF b, t
        <5> QED
          BY <1>1, <1>2, <5>1, BaseMoves, Zenon
      <4> QED
        BY <3>1, <4>1, <4>2, <4>3
    <3> QED
      BY <3>2, <3>3
  <2> QED
    BY <2>2, <2>3
<1> QED
  BY <1>5, <1>6

\* Writing a point where Locate puts it leaves every time its slot.
LEMMA SlotsStay ==
  ASSUME NEW r \in [0 .. Slots - 1 -> Point \union {NoPoint}], NEW p \in Point,
         NEW t \in Int, r[0] # NoPoint \/ t = p.time
  PROVE  SlotOf([r EXCEPT ![SlotOf(r, p.time)] = p], t) = SlotOf(r, t)
<1> DEFINE z == SlotOf(r, p.time)
           q == [r EXCEPT ![z] = p]
           b == r[0].time
<1>1. p.time \in Int /\ p # NoPoint /\ Slots \in Nat \ {0}
  BY SizeAssumption DEF Point, NoPoint
<1>2. z \in 0 .. Slots - 1 /\ 0 \in 0 .. Slots - 1 /\ b \in Int
  <2>1. z \in 0 .. Slots - 1 /\ 0 \in 0 .. Slots - 1 /\ b \in Nat
    BY <1>1, SlotType, Zenon
  <2> QED
    BY <2>1
<1>3. z # 0 => q[0] = r[0]
  BY <1>2
<1>4. z = 0 => q[0] = p
  BY <1>2
<1>5. CASE r[0] = NoPoint
  <2>1. z = 0 /\ t = p.time /\ SlotOf(r, t) = 0
    BY <1>5 DEF SlotOf
  <2>2. (t - t) % Slots = 0
    BY <1>1
  <2> HIDE DEF z, q
  <2>3. SlotOf(q, t) = 0
    BY <1>1, <1>4, <2>1, <2>2 DEF SlotOf
  <2> QED
    BY <2>1, <2>3 DEF q, z
<1>6. CASE r[0] # NoPoint
  <2>1. z = (p.time - b) % Slots
    BY <1>6 DEF SlotOf
  <2> HIDE DEF z, q
  <2>2. CASE z # 0
    <3>1. SlotOf(q, t) = SlotOf(r, t)
      BY <1>3, <2>2 DEF SlotOf
    <3> QED
      BY <3>1 DEF q, z
  <2>3. CASE z = 0
    <3>1. (t - p.time) % Slots = (t - b) % Slots
      <4>1. (p.time - b) % Slots = 0
        BY <2>1, <2>3
      <4> HIDE DEF b
      <4> QED
        BY <1>1, <1>2, <4>1, BaseMoves, Zenon
    <3>2. SlotOf(q, t) = SlotOf(r, t)
      BY <1>1, <1>4, <1>6, <2>3, <3>1 DEF SlotOf
    <3> QED
      BY <3>2 DEF q, z
  <2> QED
    BY <2>2, <2>3
<1> QED
  BY <1>5, <1>6

\* The point that has to make way for one of the times covered is no later.
LEMMA NoLaterInSlot ==
  ASSUME NEW r \in [0 .. Slots - 1 -> Point \union {NoPoint}], InPlace(r),
         NEW t \in Nat, now \in Int, Covered(t), r[SlotOf(r, t)].time <= now
  PROVE  r[SlotOf(r, t)].time <= t
<1> DEFINE z == SlotOf(r, t)
           u == r[z].time
           b == r[0].time
<1>1. z \in 0 .. Slots - 1 /\ b \in Int /\ u \in Int
  <2>1. t \in Int
    OBVIOUS
  <2>2. /\ z \in 0 .. Slots - 1 /\ b \in Nat
        /\ \A s \in 0 .. Slots - 1 : r[s].time \in Nat
    BY <2>1, SlotType, Zenon
  <2> QED
    BY <2>2
<1>2. CASE r[z] = NoPoint
  BY <1>2 DEF NoPoint
<1>3. CASE r[z] # NoPoint
  <2>1. r[0] # NoPoint /\ z = (u - b) % Slots
    BY <1>1, <1>3 DEF InPlace
  <2>2. z = (t - b) % Slots
    BY <2>1 DEF SlotOf
  <2>3. ASSUME u > t PROVE FALSE
    <3> HIDE DEF z, u, b
    <3>1. /\ Slots \in Nat \ {0} /\ u - b \in Int /\ t - b \in Int /\ t - b < u - b
          /\ (u - b) % Slots = (t - b) % Slots
      BY <1>1, <2>1, <2>2, <2>3, SizeAssumption
    <3>2. (u - b) - (t - b) >= Slots
      BY <3>1, TurnsApart
    <3>3. u <= now /\ now - t <= Slots - 1
      BY DEF Covered, u, z
    <3> QED
      BY <1>1, <3>1, <3>2, <3>3
  <2> QED
    BY <1>1, <2>3
<1> QED
  BY <1>2, <1>3

-----------------------------------------------------------------------------
(* Points *)

\* Every point of a file has been written to it and is not ahead of the clock.
WrittenInv ==
  /\ \A f \in File, s \in 0 .. Slots - 1 :
       /\ ring[f][s].time <= now
       /\ ring[f][s] # NoPoint => [file |-> f, point |-> ring[f][s]] \in stored
  /\ \A c \in Child : pc[c] = "store" => line[c].point.time <= now

\* Without overlap every point is in its place, what is about to be written goes where
\* no later point is, and the place of what was written holds that or a later point.
KeptInv ==
  ~overlapped =>
    /\ \A f \in File : InPlace(ring[f])
    /\ \A c \in Child :
         pc[c] = "store" =>
           /\ slot[c] = SlotOf(ring[line[c].file], line[c].point.time)
           /\ ring[line[c].file][slot[c]].time <= line[c].point.time
    /\ \A l \in stored :
         LET r == ring[l.file]
         IN  r[SlotOf(r, l.point.time)].time >= l.point.time

LEMMA PointsInit == Init => WrittenInv /\ KeptInv
BY DEF Init, StoreInit, WrittenInv, KeptInv, EmptyRing, NoPoint, InPlace

\* Times are numbers, those of empty slots too.
LEMMA TimeTypes ==
  ASSUME StoreInv
  PROVE  /\ now \in Int /\ ring \in [File -> [0 .. Slots - 1 -> Point \union {NoPoint}]]
         /\ slot \in [Child -> 0 .. Slots - 1]
         /\ \A f \in File, s \in 0 .. Slots - 1 : ring[f][s].time \in Int
         /\ \A c \in Child : pc[c] = "store" => line[c].point.time \in Int
<1>1. \A p \in Point \union {NoPoint} : p.time \in Int
  BY DEF Point, NoPoint
<1>2. /\ ring \in [File -> [0 .. Slots - 1 -> Point \union {NoPoint}]]
      /\ slot \in [Child -> 0 .. Slots - 1] /\ now \in Int
  BY BoundAssumption DEF StoreInv, FileTypes, ChildTypes, WorldTypes
<1>3. ASSUME NEW f \in File, NEW s \in 0 .. Slots - 1
      PROVE  ring[f][s].time \in Int
  <2>1. ring[f][s] \in Point \union {NoPoint}
    BY <1>2
  <2> QED
    BY <1>1, <2>1
<1>4. ASSUME NEW c \in Child, pc[c] = "store"
      PROVE  line[c].point.time \in Int
  <2>1. line[c].point \in Point
    BY <1>4, FileOfLine DEF AtWork
  <2> QED
    BY <1>1, <2>1
<1> QED
  BY <1>2, <1>3, <1>4

\* What the step of a child does to the points of each ring.
LEMMA RingEffect ==
  ASSUME StoreInv, NEW c \in Child, main(c) \/ Kill(c)
  PROVE  \/ /\ pc[c] \in {"open", "fill"} /\ stored' = stored
            /\ ring' = [ring EXCEPT ![line[c].file] = EmptyRing]
         \/ /\ pc[c] = "store"
            /\ ring' = [ring EXCEPT ![line[c].file] = [@ EXCEPT ![slot[c]] = line[c].point]]
            /\ stored' = stored \union {line[c]}
         \/ UNCHANGED <<ring, stored>>
<1>1. Effect(c)
  BY ChildEffect
<1> QED
  BY <1>1 DEF Effect, FilesRest

\* Every step keeps WrittenInv.
LEMMA WrittenStep ==
  ASSUME StoreInv, WrittenInv, [StoreNext]_storeVars
  PROVE  WrittenInv'
<1>0. /\ now \in Int /\ ring \in [File -> [0 .. Slots - 1 -> Point \union {NoPoint}]]
      /\ slot \in [Child -> 0 .. Slots - 1]
      /\ \A f \in File, s \in 0 .. Slots - 1 : ring[f][s].time \in Int
  BY TimeTypes
<1>1. CASE World \/ UNCHANGED storeVars
  <2>1. /\ UNCHANGED <<ring, stored, line>> /\ now' >= now /\ now' \in Int
        /\ \A d \in Child : pc'[d] = "store" => pc[d] = "store"
    <3>1. now' \in Int
      BY <1>1, StoreStep, BoundAssumption DEF StoreNext, StoreInv, WorldTypes
    <3> QED
      BY <1>1, <3>1, WorldEffect DEF FilesRest, StoreInv, ChildTypes
  <2>2. \A d \in Child : pc[d] = "store" => line[d].point.time \in Int
    BY TimeTypes
  <2> QED
    BY <1>0, <2>1, <2>2 DEF WrittenInv
<1>2. ASSUME NEW c \in Child, main(c) \/ Kill(c) PROVE WrittenInv'
  <2>1. /\ now' = now /\ Effect(c)
        /\ \A d \in Child \ {c} : pc'[d] = pc[d] /\ line'[d] = line[d]
    BY <1>2, ChildEffect
  <2> DEFINE f == line[c].file
             p == line[c].point
  <2>2. pc[c] \in AtWork => f \in File /\ p \in Point /\ line[c] = [file |-> f, point |-> p]
    BY FileOfLine
  <2>3. \A d \in Child : pc'[d] = "store" => line'[d].point.time <= now'
    <3>1. pc'[c] = "store" => line'[c] = line[c] /\ Covered(p.time) /\ pc[c] \in AtWork
      BY <2>1 DEF Effect, WorksOn, AtWork
    <3>2. pc'[c] = "store" => p.time <= now
      BY <1>0, <2>2, <3>1, SizeAssumption DEF Covered, Point
    <3> QED
      BY <2>1, <3>1, <3>2 DEF WrittenInv
  <2>4. ASSUME NEW g \in File, NEW s \in 0 .. Slots - 1
        PROVE  /\ ring'[g][s].time <= now'
               /\ ring'[g][s] # NoPoint => [file |-> g, point |-> ring'[g][s]] \in stored'
    <3>1. /\ ring[g][s].time <= now
          /\ ring[g][s] # NoPoint => [file |-> g, point |-> ring[g][s]] \in stored
      BY DEF WrittenInv
    <3>2. CASE UNCHANGED <<ring, stored>>
      BY <2>1, <3>1, <3>2
    <3>3. CASE /\ pc[c] \in {"open", "fill"} /\ stored' = stored
               /\ ring' = [ring EXCEPT ![f] = EmptyRing]
      <4>1. ring'[g][s] = ring[g][s] \/ ring'[g][s] = NoPoint
        BY <1>0, <3>3 DEF EmptyRing
      <4>2. NoPoint.time <= now
        BY BoundAssumption DEF NoPoint, StoreInv, WorldTypes
      <4> QED
        BY <2>1, <3>1, <3>3, <4>1, <4>2
    <3>4. CASE /\ pc[c] = "store" /\ stored' = stored \union {line[c]}
               /\ ring' = [ring EXCEPT ![f] = [@ EXCEPT ![slot[c]] = p]]
      <4>1. ring'[g][s] = ring[g][s] \/ (g = f /\ ring'[g][s] = p)
        BY <1>0, <3>4
      <4>2. p.time <= now /\ line[c] = [file |-> f, point |-> p]
        BY <2>2, <3>4 DEF WrittenInv, AtWork
      <4> QED
        BY <2>1, <3>1, <3>4, <4>1, <4>2
    <3> QED
      BY <1>2, <3>2, <3>3, <3>4, RingEffect
  <2> QED
    BY <2>3, <2>4 DEF WrittenInv
<1> QED
  BY <1>1, <1>2 DEF StoreNext

\* Without overlap no slot of a ring goes back in time.
TimesGrow ==
  \A f \in File, s \in 0 .. Slots - 1 : ring'[f][s].time >= ring[f][s].time

LEMMA TimesGrowStep ==
  ASSUME StoreInv, AloneInv, KeptInv, ~overlapped, [StoreNext]_storeVars
  PROVE  TimesGrow
<1>0. /\ ring \in [File -> [0 .. Slots - 1 -> Point \union {NoPoint}]]
      /\ slot \in [Child -> 0 .. Slots - 1]
      /\ \A f \in File, s \in 0 .. Slots - 1 : ring[f][s].time \in Int
  BY TimeTypes
<1>1. CASE ring' = ring
  BY <1>0, <1>1 DEF TimesGrow
<1>2. ASSUME NEW c \in Child, main(c) \/ Kill(c), ring' # ring PROVE TimesGrow
  <2> DEFINE f == line[c].file
             p == line[c].point
  <2>1. CASE /\ pc[c] \in {"open", "fill"}
             /\ ring' = [ring EXCEPT ![f] = EmptyRing]
    <3>1. file[f] # "made" /\ f \in File
      BY <2>1, FileOfLine DEF AloneInv, AtWork
    <3>2. ring[f] = EmptyRing
      BY <3>1 DEF AloneInv
    <3> QED
      BY <1>0, <1>2, <2>1, <3>2
  <2>2. CASE /\ pc[c] = "store"
             /\ ring' = [ring EXCEPT ![f] = [@ EXCEPT ![slot[c]] = p]]
    <3>1. ring[f][slot[c]].time <= p.time /\ p.time \in Int
      BY <2>2, TimeTypes DEF KeptInv
    <3>2. ASSUME NEW g \in File, NEW s \in 0 .. Slots - 1
          PROVE  \/ ring'[g][s] = ring[g][s]
                 \/ g = f /\ s = slot[c] /\ ring'[g][s] = p
      BY <1>0, <2>2
    <3> QED
      BY <1>0, <3>1, <3>2 DEF TimesGrow
  <2> QED
    BY <1>2, <2>1, <2>2, RingEffect
<1> QED
  BY <1>1, <1>2, WorldEffect DEF StoreNext, FilesRest

\* Every step keeps KeptInv.
LEMMA KeptStep ==
  ASSUME StoreInv, StoreInv', AloneInv, WrittenInv, KeptInv, [StoreNext]_storeVars
  PROVE  KeptInv'
<1> SUFFICES ASSUME ~overlapped'
             PROVE  KeptInv'
  BY DEF KeptInv
<1>0. ~overlapped /\ (World \/ UNCHANGED storeVars \/ \E c \in Child : main(c) \/ Kill(c))
  BY WorldEffect, ChildEffect DEF StoreNext
<1>1. CASE World \/ UNCHANGED storeVars
  <2>1. /\ UNCHANGED <<ring, stored, line, slot>>
        /\ \A d \in Child : pc'[d] = "store" => pc[d] = "store"
    BY <1>1, WorldEffect DEF FilesRest, StoreInv, ChildTypes
  <2> QED
    BY <1>0, <2>1 DEF KeptInv, SlotOf, InPlace
<1>2. ASSUME NEW c \in Child, main(c) \/ Kill(c) PROVE KeptInv'
  <2> DEFINE f == line[c].file
             p == line[c].point
  <2>1. /\ Running(c) /\ Effect(c)
        /\ \A d \in Child \ {c} : pc'[d] = pc[d] /\ line'[d] = line[d] /\ slot'[d] = slot[d]
    BY <1>2, ChildEffect
  <2>2. \A d \in Child \ {c} : pc'[d] # "store"
    BY <1>0, <2>1 DEF AloneInv, Running, AtWork
  <2>3. TimesGrow
    BY <1>0, TimesGrowStep
  <2>4. pc[c] \in AtWork => f \in File /\ p \in Point /\ line[c] \in Line
    BY FileOfLine
  <2>5. ASSUME NEW g \in File PROVE InPlace(ring'[g])
    <3>0. InPlace(ring[g]) /\ ring[g] \in [0 .. Slots - 1 -> Point \union {NoPoint}]
      BY <1>0, TimeTypes DEF KeptInv
    <3>1. CASE ring' = ring
      BY <3>0, <3>1
    <3>2. CASE ring' = [ring EXCEPT ![f] = EmptyRing]
      <4>1. ring'[g] = ring[g] \/ ring'[g] = EmptyRing
        BY <3>2, TimeTypes
      <4>2. InPlace(EmptyRing)
        BY DEF InPlace, EmptyRing
      <4> QED
        BY <3>0, <4>1, <4>2
    <3>3. CASE /\ pc[c] = "store"
               /\ ring' = [ring EXCEPT ![f] = [@ EXCEPT ![slot[c]] = p]]
      <4>1. ring'[g] = ring[g] \/ (g = f /\ ring'[g] = [ring[g] EXCEPT ![slot[c]] = p])
        BY <3>3, TimeTypes
      <4>2. slot[c] = SlotOf(ring[f], p.time) /\ p \in Point
        BY <1>0, <2>4, <3>3 DEF KeptInv, AtWork
      <4> HIDE DEF f, p
      <4>3. InPlace([ring[g] EXCEPT ![SlotOf(ring[g], p.time)] = p])
        BY <3>0, <4>2, PutInPlace
      <4> QED
        BY <3>0, <4>1, <4>2, <4>3
    <3> QED
      BY <1>2, <3>1, <3>2, <3>3, RingEffect
  <2>6. ASSUME pc'[c] = "store"
        PROVE  /\ slot'[c] = SlotOf(ring'[line'[c].file], line'[c].point.time)
               /\ ring'[line'[c].file][slot'[c]].time <= line'[c].point.time
    <3>1. /\ pc[c] \in AtWork /\ ring' = ring /\ line'[c] = line[c]
          /\ Covered(p.time) /\ slot'[c] = SlotOf(ring[f], p.time)
      BY <2>1, <2>6 DEF Effect, WorksOn, FilesRest, AtWork
    <3>2. /\ InPlace(ring[f]) /\ ring[f] \in [0 .. Slots - 1 -> Point \union {NoPoint}]
          /\ p.time \in Nat /\ now \in Int
      BY <1>0, <2>4, <3>1, TimeTypes DEF KeptInv, Point
    <3>3. p.time \in Int
      BY <3>2
    <3>4. SlotOf(ring[f], p.time) \in 0 .. Slots - 1
      BY <3>2, <3>3, SlotType, Zenon
    <3>5. ring[f][SlotOf(ring[f], p.time)].time <= now
      BY <2>4, <3>1, <3>4 DEF WrittenInv
    <3>6. ring[f][SlotOf(ring[f], p.time)].time <= p.time
      BY <3>1, <3>2, <3>5, NoLaterInSlot
    <3> QED
      BY <3>1, <3>6
  <2>7. ASSUME NEW l \in stored'
        PROVE  ring'[l.file][SlotOf(ring'[l.file], l.point.time)].time >= l.point.time
    <3> DEFINE r == ring[l.file]
               q == ring'[l.file]
               t == l.point.time
               z == SlotOf(r, t)
    <3>0. /\ l.file \in File /\ l.point \in Point /\ t \in Nat \ {0}
          /\ r \in [0 .. Slots - 1 -> Point \union {NoPoint}]
      BY <2>7, TimeTypes DEF StoreInv, HistoryTypes, Line, Point
    <3>1. CASE l \in stored
      <4>1. r[z].time >= t
        BY <1>0, <3>1 DEF KeptInv
      <4>2. z \in 0 .. Slots - 1
        <5>1. t \in Int
          BY <3>0
        <5> QED
          BY <3>0, <5>1, SlotType, Zenon
      <4>3. q[z].time >= r[z].time
        BY <2>3, <3>0, <4>2 DEF TimesGrow
      <4>4. q[z].time \in Int /\ r[z].time \in Int
        <5>1. ring' \in [File -> [0 .. Slots - 1 -> Point \union {NoPoint}]]
          BY DEF StoreInv, FileTypes
        <5>2. q[z] \in Point \union {NoPoint} /\ r[z] \in Point \union {NoPoint}
          BY <3>0, <4>2, <5>1
        <5> QED
          BY <5>2 DEF Point, NoPoint
      <4>5. SlotOf(q, t) = z
        <5>1. r[z] # NoPoint
          BY <3>0, <4>1 DEF NoPoint
        <5>2. InPlace(r)
          BY <1>0, <3>0 DEF KeptInv
        <5>3. r[0] # NoPoint
          BY <4>2, <5>1, <5>2 DEF InPlace
        <5>4. CASE q = r
          BY <5>4
        <5>5. CASE q # r
          <6>1. CASE /\ pc[c] = "store"
                     /\ ring' = [ring EXCEPT ![f] = [@ EXCEPT ![slot[c]] = p]]
            <7>1. q = [r EXCEPT ![slot[c]] = p] /\ f = l.file
              BY <3>0, <5>5, <6>1, TimeTypes
            <7>2. slot[c] = SlotOf(r, p.time) /\ p \in Point
              BY <1>0, <2>4, <6>1, <7>1 DEF KeptInv, AtWork
            <7>3. t \in Int
              BY <3>0
            <7> HIDE DEF r, q, t, p
            <7>4. SlotOf([r EXCEPT ![SlotOf(r, p.time)] = p], t) = SlotOf(r, t)
              BY <3>0, <5>3, <7>2, <7>3, SlotsStay
            <7> QED
              BY <7>1, <7>2, <7>4
          <6>2. CASE /\ pc[c] \in {"open", "fill"}
                     /\ ring' = [ring EXCEPT ![f] = EmptyRing]
            <7>1. file[f] # "made" /\ f \in File
              BY <1>0, <2>4, <6>2 DEF AloneInv, AtWork
            <7>2. ring[f] = EmptyRing
              BY <1>0, <7>1 DEF AloneInv
            <7>3. ring'[l.file] = ring[l.file]
              BY <3>0, <6>2, <7>2, TimeTypes
            <7> QED
              BY <5>5, <7>3
          <6> QED
            BY <1>2, <5>5, <6>1, <6>2, RingEffect
        <5> QED
          BY <5>4, <5>5
      <4> QED
        BY <3>0, <4>1, <4>3, <4>4, <4>5
    <3>2. CASE l \notin stored
      <4>1. /\ pc[c] = "store" /\ l = line[c]
            /\ ring' = [ring EXCEPT ![f] = [@ EXCEPT ![slot[c]] = p]]
        BY <1>2, <2>7, <3>2, RingEffect
      <4>2. slot[c] \in 0 .. Slots - 1 /\ f \in File /\ slot[c] = SlotOf(r, p.time)
        BY <1>0, <2>4, <4>1, TimeTypes DEF KeptInv, AtWork
      <4>3. q = [r EXCEPT ![slot[c]] = p] /\ q[slot[c]] = p /\ t = p.time
        BY <3>0, <4>1, <4>2, TimeTypes
      <4>4. SlotOf(q, t) = slot[c]
        <5>1. t \in Int /\ p \in Point
          BY <3>0, <4>1
        <5> HIDE DEF r, q, t, p
        <5>2. SlotOf([r EXCEPT ![SlotOf(r, p.time)] = p], t) = SlotOf(r, t)
          BY <3>0, <4>3, <5>1, SlotsStay
        <5> QED
          BY <4>2, <4>3, <5>2
      <4> QED
        BY <3>0, <4>3, <4>4
    <3> QED
      BY <3>1, <3>2
  <2> QED
    BY <2>2, <2>5, <2>6, <2>7 DEF KeptInv
<1> QED
  BY <1>0, <1>1, <1>2

\* All of the store's invariants together, which the steps need of each other.
PointsInv == TypeInv /\ EmptyIsBeingMade /\ AloneInv /\ WrittenInv /\ KeptInv

LEMMA PointsStep == PointsInv /\ [Next]_vars => PointsInv'
<1> SUFFICES ASSUME PointsInv, [Next]_vars
             PROVE  PointsInv'
  OBVIOUS
<1>1. TypeInv' /\ [StoreNext]_storeVars
  BY TypeStep, WhoSteps DEF PointsInv
<1>2. EmptyIsBeingMade' /\ AloneInv'
  BY <1>1, HeaderStep, AloneStep DEF PointsInv, TypeInv
<1>3. WrittenInv' /\ KeptInv'
  BY <1>1, WrittenStep, KeptStep DEF PointsInv, TypeInv
<1> QED
  BY <1>1, <1>2, <1>3 DEF PointsInv

LEMMA PointsAreInvariant == Spec => []PointsInv
<1>1. Init => PointsInv
  BY TypeInit, HeaderInit, AloneInit, PointsInit DEF PointsInv
<1> QED
  BY <1>1, PointsStep, PTL DEF Spec

\* Without overlap no point gives way to an earlier one, nor to a ring of zeroes,
\* through late reports, kills and restarts of the collector.
THEOREM StorePointsAreKept == Spec => PointsAreKept
<1>1. ASSUME PointsInv, [Next]_vars
      PROVE  [~overlapped =>
                \A f \in File, s \in 0 .. Slots - 1 : ring'[f][s].time >= ring[f][s].time]_ring
  BY <1>1, WhoSteps, TimesGrowStep DEF PointsInv, TypeInv, TimesGrow
<1> QED
  BY <1>1, PointsAreInvariant, PTL DEF Spec, PointsAreKept

-----------------------------------------------------------------------------
(* Answers *)

\* Between the two reads the first slot may be written to, but it moves on by whole
\* turns: what was known at the start is still found from the base that was read.
ReadInv ==
  ~overlapped /\ request = "read" =>
    /\ base # 0 => /\ ring[cpu_file][0] # NoPoint
                   /\ (ring[cpu_file][0].time - base) % Slots = 0
    /\ \A l \in known : l.file = cpu_file => base # 0 /\ l.point.time <= until

\* The fetch begins with it.
LEMMA ReadBegins ==
  ASSUME PointsInv, ReadInv, Query
  PROVE  ReadInv'
<1> SUFFICES ASSUME ~overlapped', request' = "read"
             PROVE  ReadInv'
  BY DEF ReadInv
<1>1. FetchBase /\ request' = "read"
  BY DEF Query, FindFile, FetchPoints
<1>2. /\ UNCHANGED <<ring, stored, now, overlapped, cpu_file>> /\ cpu_file \in File
      /\ until' = now /\ base' = ring[cpu_file][0].time /\ known' = stored
  BY <1>1 DEF FetchBase, storeVars, fileVars, history, PointsInv, TypeInv, QueryInv
<1> DEFINE r == ring[cpu_file]
<1>3. /\ r \in [0 .. Slots - 1 -> Point \union {NoPoint}] /\ now \in Int
      /\ InPlace(r) /\ 0 \in 0 .. Slots - 1 /\ r[0].time \in Int
  BY <1>2, TimeTypes, SizeAssumption DEF PointsInv, TypeInv, KeptInv
<1>4. ASSUME base' # 0
      PROVE  r[0] # NoPoint /\ (r[0].time - base') % Slots = 0
  <2>1. 0 % Slots = 0
    BY SizeAssumption
  <2> QED
    BY <1>2, <1>3, <1>4, <2>1 DEF NoPoint
<1>5. ASSUME NEW l \in stored, l.file = cpu_file
      PROVE  base' # 0 /\ l.point.time <= now
  <2> DEFINE t == l.point.time
             z == SlotOf(r, t)
  <2>1. t \in Nat \ {0}
    BY DEF PointsInv, TypeInv, StoreInv, HistoryTypes, Line, Point
  <2>2. z \in 0 .. Slots - 1
    <3>1. t \in Int
      BY <2>1
    <3> QED
      BY <1>3, <3>1, SlotType, Zenon
  <2>3. r[z].time >= t
    BY <1>2, <1>5 DEF PointsInv, KeptInv
  <2>4. r[z].time <= now /\ r[z].time \in Int
    BY <1>2, <2>2, TimeTypes DEF PointsInv, TypeInv, WrittenInv
  <2>5. r[z] # NoPoint
    BY <2>1, <2>3 DEF NoPoint
  <2>6. r[0] # NoPoint /\ r[0] \in Point \union {NoPoint}
    BY <1>3, <2>2, <2>5 DEF InPlace
  <2> QED
    BY <1>2, <1>3, <2>1, <2>3, <2>4, <2>6 DEF Point
<1> QED
  BY <1>2, <1>4, <1>5 DEF ReadInv

\* No step of the store breaks it.
LEMMA ReadGoesOn ==
  ASSUME PointsInv, ReadInv, [StoreNext]_storeVars, UNCHANGED queryVars
  PROVE  ReadInv'
<1> SUFFICES ASSUME ~overlapped', request' = "read"
             PROVE  ReadInv'
  BY DEF ReadInv
<1>1. /\ ~overlapped /\ request = "read" /\ UNCHANGED <<cpu_file, base, until, known>>
      /\ StoreInv /\ cpu_file \in File /\ base \in Nat
  BY StoreGrows DEF PointsInv, TypeInv, QueryInv, queryVars
<1> DEFINE r == ring[cpu_file]
           q == ring'[cpu_file]
<1>2. /\ r \in [0 .. Slots - 1 -> Point \union {NoPoint}]
      /\ 0 \in 0 .. Slots - 1 /\ Slots \in Nat \ {0}
  BY <1>1, TimeTypes, SizeAssumption
<1>3. ASSUME base # 0
      PROVE  q[0] # NoPoint /\ (q[0].time - base) % Slots = 0
  <2>1. r[0] # NoPoint /\ (r[0].time - base) % Slots = 0
    BY <1>1, <1>3 DEF ReadInv
  <2>2. CASE q[0] = r[0]
    BY <2>1, <2>2
  <2>3. CASE q[0] # r[0]
    <3>1. PICK c \in Child : main(c) \/ Kill(c)
      BY <1>1, <2>3, WorldEffect DEF StoreNext, FilesRest
    <3> DEFINE f == line[c].file
               p == line[c].point
    <3>2. CASE /\ pc[c] \in {"open", "fill"}
               /\ ring' = [ring EXCEPT ![f] = EmptyRing]
      <4>1. ring[f] = EmptyRing /\ f \in File
        BY <1>1, <3>2, FileOfLine DEF PointsInv, AloneInv, AtWork
      <4>2. ring'[cpu_file] = ring[cpu_file]
        BY <1>1, <3>2, <4>1, TimeTypes
      <4> QED
        BY <2>3, <4>2
    <3>3. CASE /\ pc[c] = "store"
               /\ ring' = [ring EXCEPT ![f] = [@ EXCEPT ![slot[c]] = p]]
      <4>1. q = [r EXCEPT ![slot[c]] = p] /\ f = cpu_file
        BY <1>1, <2>3, <3>3, TimeTypes
      <4>2. slot[c] = SlotOf(r, p.time) /\ p \in Point
        BY <1>1, <3>3, <4>1, FileOfLine DEF PointsInv, KeptInv, AtWork
      <4>3. slot[c] = 0 /\ q[0] = p
        BY <1>2, <2>3, <4>1
      <4>4. (p.time - r[0].time) % Slots = 0
        BY <2>1, <4>2, <4>3 DEF SlotOf
      <4>5. p.time \in Int /\ r[0].time \in Int /\ base \in Int /\ p # NoPoint
        BY <1>1, <1>2, <4>2 DEF Point, NoPoint
      <4> HIDE DEF p, r, q
      <4>6. (p.time - r[0].time) % Slots = (p.time - base) % Slots
        BY <1>2, <2>1, <4>5, BaseMoves
      <4> QED
        BY <4>3, <4>4, <4>5, <4>6
    <3> QED
      BY <1>1, <2>3, <3>1, <3>2, <3>3, RingEffect
  <2> QED
    BY <2>2, <2>3
<1> QED
  BY <1>1, <1>3 DEF ReadInv

LEMMA ReadIsInvariant == Spec => []ReadInv
<1>1. Init => ReadInv
  BY DEF Init, ReadInv
<1>2. PointsInv /\ ReadInv /\ [Next]_vars => ReadInv'
  <2> SUFFICES ASSUME PointsInv, ReadInv, [Next]_vars
               PROVE  ReadInv'
    OBVIOUS
  <2> QED
    BY WhoSteps, ReadBegins, ReadGoesOn
<1> QED
  BY <1>1, <1>2, PointsAreInvariant, PTL DEF Spec

\* What an answer is made of: the file that was found, and the latest point there.
LEMMA AnswerIsLatest ==
  ASSUME TypeInv, [Next]_vars, Answers
  PROVE  /\ cpu_file \in File
         /\ Fetched(ring[cpu_file]) # {} =>
              /\ snapshot'.time \in Int
              /\ \A u \in Fetched(ring[cpu_file]) : u <= snapshot'.time
<1>1. FetchPoints
  BY DEF Answers, Next, vars, queryVars, Query, FindFile, FetchBase, storeVars
<1> DEFINE r == ring[cpu_file]
<1>2. /\ cpu_file \in File
      /\ snapshot' = IF Fetched(r) = {} THEN NoPoint ELSE r[Place(Latest(r))]
  BY <1>1 DEF FetchPoints, TypeInv, QueryInv
<1>3. until \in Int /\ since \in Int
  BY BackAssumption, SizeAssumption, BoundAssumption DEF TypeInv, QueryInv
<1> HIDE DEF r
<1>4. ASSUME Fetched(r) # {}
      PROVE  snapshot'.time \in Int /\ \A u \in Fetched(r) : u <= snapshot'.time
  <2>1. /\ Latest(r) \in since + 1 .. until /\ r[Place(Latest(r))].time = Latest(r)
        /\ \A u \in Fetched(r) : u <= Latest(r)
    BY <1>3, <1>4, LatestIsLast
  <2>2. snapshot'.time = Latest(r)
    BY <1>2, <1>4, <2>1
  <2> QED
    BY <1>3, <2>1, <2>2
<1> QED
  BY <1>2, <1>4 DEF r

\* Without overlap of children, the ring is enough: what is shown is no older than any
\* point that was in the file when the fetch began, for any size of the ring and any
\* look-back within it, whatever is written while it is read.
THEOREM LatestIsShown == Spec => ShowsLatestOfFile
<1>1. ASSUME PointsInv, ReadInv, [Next]_vars, Answers, ~overlapped, now - since <= Slots
      PROVE  IsLatestOf({cpu_file})
  <2> SUFFICES ASSUME NEW l \in known, l.file = cpu_file, l.point.time > since
               PROVE  l.point.time <= snapshot'.time
    BY DEF IsLatestOf
  <2> DEFINE r == ring[cpu_file]
             t == l.point.time
             b == r[0].time
             z == SlotOf(r, t)
             u == r[z].time
  <2>1. /\ cpu_file \in File /\ l \in stored /\ request = "read"
    BY <1>1, AnswerIsLatest DEF PointsInv, TypeInv, QueryInv, Answers
  <2>2. /\ r \in [0 .. Slots - 1 -> Point \union {NoPoint}]
        /\ now \in Int /\ b \in Int /\ InPlace(r)
    BY <1>1, <2>1, TimeTypes, SizeAssumption DEF PointsInv, TypeInv, KeptInv
  <2>3. /\ since \in Int /\ until \in Int /\ base \in Int
        /\ t \in Nat \ {0} /\ Slots \in Nat \ {0}
    BY <1>1, <2>1, BackAssumption, SizeAssumption, BoundAssumption
    DEF PointsInv, TypeInv, QueryInv, StoreInv, HistoryTypes, Line, Point
  <2>4. base # 0 /\ t <= until /\ r[0] # NoPoint /\ (b - base) % Slots = 0
    BY <1>1, <2>1 DEF ReadInv
  <2>5. z \in 0 .. Slots - 1
    <3>1. t \in Int
      BY <2>3
    <3> QED
      BY <2>2, <3>1, SlotType, Zenon
  <2>6. u >= t /\ u <= now /\ u \in Int
    BY <1>1, <2>1, <2>5, TimeTypes DEF PointsInv, TypeInv, WrittenInv, KeptInv
  <2>7. r[z] # NoPoint
    BY <2>3, <2>6 DEF NoPoint
  <2>8. z = (u - b) % Slots /\ z = (t - b) % Slots
    BY <2>2, <2>4, <2>5, <2>7 DEF InPlace, SlotOf
  <2>9. u = t
    <3> HIDE DEF u, t, z, b, r
    <3>1. ASSUME u > t PROVE FALSE
      <4>1. u - b \in Int /\ t - b \in Int /\ t - b < u - b
        BY <2>2, <2>3, <2>6, <3>1
      <4>2. (u - b) - (t - b) >= Slots
        BY <2>3, <2>8, <4>1, TurnsApart
      <4>3. now - since <= Slots /\ t > since
        BY <1>1 DEF t
      <4> QED
        BY <2>2, <2>3, <2>6, <4>2, <4>3
    <3> QED
      BY <2>3, <2>6, <3>1
  <2>10. Place(t) = z
    <3> HIDE DEF t, b, r, z
    <3>1. t \in Int
      BY <2>3
    <3>2. (t - b) % Slots = (t - base) % Slots
      BY <2>2, <2>3, <2>4, <3>1, BaseMoves
    <3> QED
      BY <2>8, <3>2 DEF Place
  <2>11. t \in Fetched(r)
    <3>1. t \in since + 1 .. until
      BY <2>3, <2>4
    <3> QED
      BY <2>4, <2>9, <2>10, <3>1 DEF Fetched
  <2> QED
    BY <1>1, <2>11, AnswerIsLatest DEF PointsInv
<1>2. ASSUME PointsInv, ReadInv, [Next]_vars
      PROVE  [Answers /\ ~overlapped /\ now - since <= Slots => IsLatestOf({cpu_file})]_vars
  BY <1>1, <1>2
<1> QED
  BY <1>2, PointsAreInvariant, ReadIsInvariant, PTL DEF Spec, ShowsLatestOfFile

=============================================================================
