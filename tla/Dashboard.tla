------------------------------ MODULE Dashboard -----------------------------
(***************************************************************************)
(* The dashboard's CPU column, composed with the whisper files it reads.   *)
(*                                                                         *)
(* For every instance get_cpu_utilization_snapshot walks the data          *)
(* directory, keeps the files of the instance, and takes the most recent   *)
(* point of the last minute from the first one.  whisper.fetch reads the   *)
(* first slot of that file, and then the points, without a lock, while the *)
(* children of the collector go on making and writing files.  The memory   *)
(* column is computed likewise.                                            *)
(***************************************************************************)
EXTENDS WhisperStore

CONSTANT Back  \* how far the snapshot looks back, in seconds (60 in the code)

ASSUME BackAssumption == Back \in 1 .. Slots

VARIABLES
  request,   \* "none", "fetch" and "read" in whisper.fetch, "answered", "raised"
  cpu_file,  \* cpu_files[0], "none" when nothing is being fetched
  since,     \* time.time() - back
  until,     \* the time at which whisper.fetch has read the header
  base,      \* the time it has then found in the first slot
  snapshot,  \* the Point the answer is made of, NoPoint for "N/A"
  known      \* history: what was in the files at `until`

queryVars == <<request, cpu_file, since, until, base, snapshot, known>>
vars == <<storeVars, queryVars>>

-----------------------------------------------------------------------------
InstanceFiles_NotWalked(i) == {f \in File : f[2] = i}

\* get_whisper_files, _by_instance_id and _by_metric: what the walk comes across,
\* in any order.
InstanceFiles(i) == {f \in File : file[f] # "absent" /\ f[2] = i}

\* get_cpu_utilization_snapshot, as far as the call of whisper.fetch.
FindFile(i) ==
  /\ request = "none"
  /\ \/ /\ InstanceFiles(i) = {}
        /\ request' = "answered"
        /\ UNCHANGED <<cpu_file, since>>
     \/ /\ cpu_file' \in InstanceFiles(i)
        /\ since' = now - Back
        /\ request' = "fetch"
  /\ UNCHANGED <<storeVars, until, base, snapshot, known>>

\* whisper.fetch raises for a file without a header; of one that has a header it
\* reads the first slot, by which it finds the others.
FetchBase ==
  /\ request = "fetch"
  /\ \/ /\ file[cpu_file] # "made"
        /\ request' = "raised"
        /\ cpu_file' = "none"
        /\ since' = 0
        /\ UNCHANGED <<until, base, known>>
     \/ /\ file[cpu_file] = "made"
        /\ request' = "read"
        /\ until' = now
        /\ base' = ring[cpu_file][0].time
        /\ known' = stored
        /\ UNCHANGED <<cpu_file, since>>
  /\ UNCHANGED <<storeVars, snapshot>>

Place(t) == (t - base) % Slots

\* The times it returns values for: those after `since` of which the ring, as it is
\* by now, has a point where it should be; none if the first slot was empty.
Fetched(r) == {t \in since + 1 .. until : base # 0 /\ r[Place(t)].time = t}

Latest_First(r) == CHOOSE t \in Fetched(r) : \A u \in Fetched(r) : t <= u

\* The first of reversed(data) that is not None.
Latest(r) == CHOOSE t \in Fetched(r) : \A u \in Fetched(r) : u <= t

\* The points are read, and the loop over their values finds one, or the answer is
\* "N/A".
FetchPoints ==
  LET r == ring[cpu_file]
  IN  /\ request = "read"
      /\ request' = "answered"
      /\ snapshot' = IF Fetched(r) = {} THEN NoPoint ELSE r[Place(Latest(r))]
      /\ cpu_file' = "none"
      /\ since' = 0
      /\ until' = 0
      /\ base' = 0
      /\ known' = {}
      /\ UNCHANGED storeVars

-----------------------------------------------------------------------------
Init ==
  /\ StoreInit
  /\ request = "none"
  /\ cpu_file = "none"
  /\ since = 0
  /\ until = 0
  /\ base = 0
  /\ snapshot = NoPoint
  /\ known = {}

Query == (\E i \in Instance : FindFile(i)) \/ FetchBase \/ FetchPoints

Next == (StoreNext /\ UNCHANGED queryVars) \/ Query

Spec == Init /\ [][Next]_vars

-----------------------------------------------------------------------------
\* A file is being fetched exactly while a request is under way, and it is there.
TypeOK ==
  /\ StoreTypeOK
  /\ request \in {"none", "fetch", "read", "answered", "raised"}
  /\ since \in -Back .. MaxNow
  /\ until \in 0 .. now
  /\ base \in Nat
  /\ snapshot \in Point \union {NoPoint}
  /\ known \subseteq stored
  /\ IF request \in {"fetch", "read"} THEN file[cpu_file] # "absent" ELSE cpu_file = "none"

Answers == request = "read" /\ request' = "answered"

\* Nothing that was in the files, after `since`, when the fetch began, is later than
\* the answer.
IsLatestOf(files) ==
  \A l \in known :
    l.file \in files /\ l.point.time > since => l.point.time <= snapshot'.time

\* The ring loses nothing the snapshot needs, though a child may write to it, and move
\* its first slot on, between the two reads of whisper.fetch, and time may pass: "the
\* most recent data point that's not None" is no older than any that was in the file
\* when the fetch began, through restarts of the collector and late reports, as long
\* as children do not overlap and the fetch ends within a turn of the ring from `since`.
ShowsLatestOfFile ==
  [][Answers /\ ~overlapped /\ now - since <= Slots => IsLatestOf({cpu_file})]_vars

\* The same of all the files of the instance: "the most recent data point".
ShowsLatestOfInstance ==
  [][Answers /\ ~overlapped /\ now - since <= Slots
       => IsLatestOf(InstanceFiles(cpu_file[2]))]_vars

=============================================================================
