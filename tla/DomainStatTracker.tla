-------------------------- MODULE DomainStatTracker -------------------------
(***************************************************************************)
(* The tracker of one domain: update() asks libvirt for the domain's       *)
(* counters and reports what each has gained since the previous update.    *)
(*                                                                         *)
(* The guest works on between any two calls of one update(), so a report   *)
(* mixes readings of different moments; any call may fail, and its result  *)
(* is ignored or only logged, so the buffer of a failed call is used as it *)
(* is.  The buffers start uninitialised, and two of the calls pass the     *)
(* size of a pointer where the size of the structure is meant, so that     *)
(* libvirt fills in the first field alone.                                 *)
(*                                                                         *)
(* One counter stands for each group the code treats alike: cpuTime for    *)
(* virDomainInfo; of the block statistics the first field, rd_req, and one *)
(* of the others, wr_bytes; of the interface statistics the first field,   *)
(* rx_bytes, and one of the others, tx_bytes.                              *)
(***************************************************************************)
EXTENDS Integers, TimespecUtils

CONSTANTS
  M,             \* counters are words modulo M (2^64 in the code)
  Garbage,       \* what uninitialised memory may hold
  Driven,        \* the counters the guest drives
  MaxCount,      \* bound: none of them goes beyond this
  MaxNow,        \* bound: the clock goes no further than this, in nanoseconds
  CallsMayFail,  \* whether a libvirt call may return an error
  ClockMayStep   \* whether CLOCK_REALTIME may be set back

ASSUME WordAssumption == M \in Nat \ {0} /\ Garbage \subseteq 0 .. M - 1
ASSUME BoundAssumption == MaxCount \in 0 .. M - 1 /\ MaxNow \in Nat
ASSUME FaultAssumption == CallsMayFail \in BOOLEAN /\ ClockMayStep \in BOOLEAN

Info == {"cpuTime"}
BlockStats == {"rd_req", "wr_bytes"}
InterfaceStats == {"rx_bytes", "tx_bytes"}
Counter == Info \union BlockStats \union InterfaceStats

ASSUME DrivenAssumption == Driven \subseteq Counter

Word == 0 .. M - 1
Minus_NoWrap(a, b) == a - b
Minus(a, b) == (a - b) % M
NoReading == -1

VARIABLES
  \* The guest and its host.
  exists,        \* the domain has not been destroyed
  guest,         \* the true value of each counter
  now,           \* CLOCK_REALTIME, in nanoseconds; 0 when the tracker was made
  \* The tracker.
  pc,            \* the libvirt or clock call update() makes next
  m_domainID,
  sample,        \* m_tmpInfo, m_blockstats, m_interfaceinfo
  last,          \* m_domainInfo, m_lastblockstats, m_lastinterfaceinfo
  m_last_tov,
  prev_tov,      \* local to update()
  out,           \* the counters of the DomainStats, and the divisor of the CPU time
  \* History.
  updates,       \* calls of update() that returned, counted up to 2
  latest,        \* what each counter was at the latest call that succeeded
  first,         \* what it was at the first such call
  wiped,         \* a virDomainGetInfo has failed since, and wiped its buffer
  gained,        \* the sum of what was reported since that first call
  elapsedTotal,  \* the sum of all the divisors
  infoAt,        \* the clock at this update's virDomainGetInfo
  lag,           \* time between virDomainGetInfo and the clock reading,
                 \* this update's and the previous one's
  disturbed      \* a virDomainGetInfo has failed, or the clock was set back

guestVars == <<exists, guest, now>>
bufferVars == <<sample, last>>
clockVars == <<m_last_tov, prev_tov>>
countHistory == <<latest, first, wiped, gained>>
timeHistory == <<elapsedTotal, infoAt, lag, disturbed>>
vars == <<guestVars, pc, m_domainID, bufferVars, clockVars, out, updates,
          countHistory, timeHistory>>

-----------------------------------------------------------------------------
(* The guest and the clock, between any two calls. *)

Destroy ==
  /\ exists
  /\ exists' = FALSE
  /\ UNCHANGED <<guest, now, pc, m_domainID, bufferVars, clockVars, out, updates,
                 countHistory, timeHistory>>

\* The guest reads, writes, receives or transmits.
DoIO(c) ==
  /\ exists
  /\ c \in Driven \ Info
  /\ guest[c] < MaxCount
  /\ guest' = [guest EXCEPT ![c] = @ + 1]
  /\ UNCHANGED <<exists, now, pc, m_domainID, bufferVars, clockVars, out, updates,
                 countHistory, timeHistory>>

\* A nanosecond passes, which the guest's one virtual CPU spends working or idle.
Tick ==
  /\ now < MaxNow
  /\ now' = now + 1
  /\ \E work \in {0, 1} :
       /\ work = 1 => exists /\ "cpuTime" \in Driven /\ guest.cpuTime < MaxCount
       /\ guest' = [guest EXCEPT !.cpuTime = @ + work]
  /\ UNCHANGED <<exists, pc, m_domainID, bufferVars, clockVars, out, updates,
                 countHistory, timeHistory>>

SetClockBack ==
  /\ ClockMayStep
  /\ now > 0
  /\ now' = now - 1
  /\ disturbed' = TRUE
  /\ UNCHANGED <<exists, guest, pc, m_domainID, bufferVars, clockVars, out, updates,
                 countHistory, elapsedTotal, infoAt, lag>>

-----------------------------------------------------------------------------
(* update() *)

\* timespec_utils::realtime_now()
realtime_now == [tv_sec |-> now \div NsPerSec, tv_nsec |-> now % NsPerSec]

Fails == ~exists \/ CallsMayFail

Crash ==
  /\ pc' = "crashed"
  /\ UNCHANGED <<guestVars, m_domainID, bufferVars, clockVars, out, updates,
                 countHistory, timeHistory>>

\* DomainStats()
NoGain == [c \in Counter \union {"elapsed"} |-> 0]

\* Domain 0 is not measured: the zeroes of DomainStats() are returned.
ReturnZeroes ==
  /\ pc = "info"
  /\ m_domainID = 0
  /\ out' = NoGain
  /\ updates' = IF updates < 2 THEN updates + 1 ELSE 2
  /\ UNCHANGED <<guestVars, pc, m_domainID, bufferVars, clockVars, countHistory,
                 timeHistory>>

\* virDomainGetInfo, its result ignored: it fills m_tmpInfo, or fails and leaves it
\* as it was or wiped; the tracker goes on with the 0 as if it had been read.
GetInfo ==
  /\ pc = "info"
  /\ m_domainID # 0
  /\ \/ /\ exists
        /\ sample' = [sample EXCEPT !.cpuTime = guest.cpuTime]
        /\ latest' = [latest EXCEPT !.cpuTime = guest.cpuTime]
        /\ wiped' = FALSE
        /\ UNCHANGED disturbed
     \/ /\ Fails
        /\ \/ UNCHANGED <<sample, wiped>>
           \/ sample' = [sample EXCEPT !.cpuTime = 0] /\ wiped' = TRUE
        /\ disturbed' = TRUE
        /\ UNCHANGED latest
  /\ out' = NoGain
  /\ infoAt' = now
  /\ pc' = "clock"
  /\ UNCHANGED <<guestVars, m_domainID, last, clockVars, updates, first, gained,
                 elapsedTotal, lag>>

ReadClock ==
  /\ pc = "clock"
  /\ prev_tov' = m_last_tov
  /\ m_last_tov' = realtime_now
  /\ lag' = [previous |-> lag.current, current |-> now - infoAt]
  /\ infoAt' = 0
  /\ pc' = "xml"
  /\ UNCHANGED <<guestVars, m_domainID, bufferVars, out, updates, countHistory,
                 elapsedTotal, disturbed>>

\* virDomainGetXMLDesc, for the path of the disk; mxmlLoadString is given its
\* NULL when it fails.
GetXMLDesc ==
  /\ pc = "xml"
  /\ \/ /\ exists
        /\ pc' = "block"
        /\ UNCHANGED <<guestVars, m_domainID, bufferVars, clockVars, out, updates,
                       countHistory, timeHistory>>
     \/ Fails /\ Crash

\* The part of a structure libvirt copies into the caller's buffer: sizeof of the
\* pointer is that of the first field.
FirstField(struct) == struct \intersect {"rd_req", "rx_bytes"}

Report_StaleLast(struct) ==
  /\ last' = [c \in Counter |-> IF c \in struct /\ updates = 0 THEN sample'[c] ELSE last[c]]
  /\ gained' = [c \in Counter |-> IF c \in struct /\ first[c] # NoReading
                                   THEN (gained[c] + out'[c]) % M ELSE gained[c]]
  /\ first' = [c \in Counter |-> IF c \in struct /\ first[c] = NoReading
                                  THEN latest'[c] ELSE first[c]]

\* What update() does with every structure once it is sampled: it reports the
\* differences and keeps the readings for the next update.
Report(struct) ==
  /\ last' = [c \in Counter |-> IF c \in struct THEN sample'[c] ELSE last[c]]
  /\ gained' = [c \in Counter |-> IF c \in struct /\ first[c] # NoReading
                                   THEN (gained[c] + out'[c]) % M ELSE gained[c]]
  /\ first' = [c \in Counter |-> IF c \in struct /\ first[c] = NoReading
                                  THEN latest'[c] ELSE first[c]]

\* A call that fills the structure's buffer and tells that it did, or fails and
\* leaves it alone; the code goes on in either case.
SampleStats(struct) ==
  \/ /\ exists
     /\ sample' = [c \in Counter |-> IF c \in FirstField(struct) THEN guest[c] ELSE sample[c]]
     /\ latest' = [c \in Counter |-> IF c \in struct THEN guest[c] ELSE latest[c]]
  \/ /\ Fails
     /\ UNCHANGED <<sample, latest>>

\* virDomainBlockStats, then, with no call in between, the CPU utilisation and
\* the disk statistics.  (m_domainInfo is never null, so the branch for the first
\* update is never taken.)
GetBlockStats ==
  /\ pc = "block"
  /\ SampleStats(BlockStats)
  /\ LET struct == Info \union BlockStats
         elapsed == to_double(ts_diff(m_last_tov, prev_tov))
     IN  /\ out' = [c \in DOMAIN out |-> IF c = "elapsed" THEN elapsed
                                       ELSE IF c \in struct THEN Minus(sample'[c], last[c])
                                       ELSE out[c]]
         /\ elapsedTotal' = elapsedTotal + elapsed
         /\ Report(struct)
  /\ pc' = "interface"
  /\ UNCHANGED <<guestVars, m_domainID, clockVars, updates, wiped, infoAt, lag, disturbed>>

\* virDomainInterfaceStats, the network statistics, and the return.
GetInterfaceStats ==
  /\ pc = "interface"
  /\ SampleStats(InterfaceStats)
  /\ out' = [c \in DOMAIN out |->
               IF c \in InterfaceStats THEN Minus(sample'[c], last[c]) ELSE out[c]]
  /\ Report(InterfaceStats)
  /\ updates' = IF updates < 2 THEN updates + 1 ELSE 2
  /\ pc' = "info"
  /\ UNCHANGED <<guestVars, m_domainID, clockVars, wiped, timeHistory>>

-----------------------------------------------------------------------------
\* The constructor has found the domain; nothing fills its buffers.
Init ==
  /\ exists = TRUE
  /\ guest = [c \in Counter |-> 0]
  /\ now = 0
  /\ pc = "info"
  /\ m_domainID \in {0, 1}
  /\ sample \in [Counter -> Garbage]
  /\ last \in [Counter -> Garbage]
  /\ m_last_tov = realtime_now
  /\ prev_tov = realtime_now
  /\ out = NoGain
  /\ updates = 0
  /\ latest = [c \in Counter |-> NoReading]
  /\ first = [c \in Counter |-> NoReading]
  /\ wiped = FALSE
  /\ gained = [c \in Counter |-> 0]
  /\ elapsedTotal = 0
  /\ infoAt = now
  /\ lag = [previous |-> 0, current |-> 0]
  /\ disturbed = FALSE

update ==
  \/ ReturnZeroes
  \/ GetInfo
  \/ ReadClock
  \/ GetXMLDesc
  \/ GetBlockStats
  \/ GetInterfaceStats

Next ==
  \/ Destroy
  \/ \E c \in Counter : DoIO(c)
  \/ Tick
  \/ SetClockBack
  \/ update

Spec == Init /\ [][Next]_vars

-----------------------------------------------------------------------------
\* Buffers and reports hold words, readings hold words or nothing, and clock
\* readings are proper timespecs.
TypeOK ==
  /\ exists \in BOOLEAN
  /\ guest \in [Counter -> Word]
  /\ now \in 0 .. MaxNow
  /\ pc \in {"info", "clock", "xml", "block", "interface", "crashed"}
  /\ m_domainID \in {0, 1}
  /\ sample \in [Counter -> Word]
  /\ last \in [Counter -> Word]
  /\ m_last_tov \in Timespec
  /\ prev_tov \in Timespec
  /\ \A c \in Counter : out[c] \in Word
  /\ out.elapsed \in Int
  /\ updates \in 0 .. 2
  /\ latest \in [Counter -> Word \union {NoReading}]
  /\ first \in [Counter -> Word \union {NoReading}]
  /\ wiped \in BOOLEAN
  /\ gained \in [Counter -> Word]
  /\ elapsedTotal \in Int
  /\ infoAt \in 0 .. MaxNow
  /\ lag \in [previous : Int, current : Int]
  /\ disturbed \in BOOLEAN

\* The reports of counter c since its first reading add up to the way from there to
\* its latest reading.
AddsUp(c) ==
  pc = "info" /\ first[c] # NoReading => gained[c] = Minus(latest[c], first[c])

\* What is reported of a counter libvirt fills in adds up to what the guest did
\* between the first and the latest reading, whatever calls fail in between: a
\* reading that is missed is made up for by the next, nothing is lost and nothing
\* counted twice (update()'s last-value copies).  A virDomainGetInfo that wipes its
\* buffer is the exception as long as it is the latest: update() reports the way to
\* 0, modulo M, which the next reading has to take back.
ReportsAddUp ==
  /\ ~wiped => AddsUp("cpuTime")
  /\ AddsUp("rd_req")
  /\ AddsUp("rx_bytes")

\* The divisors of all the updates add up to the time since the tracker was made,
\* however the readings straddle a second and even if the clock is set back:
\* update() hands m_last_tov from one interval to the next.
ElapsedAddsUp ==
  pc = "interface" => elapsedTotal = Nanos(m_last_tov)

\* Unless virDomainGetInfo has failed or the clock was set back, a one-CPU guest is
\* never reported to have worked longer than the interval, but for the time that
\* passed between the previous update's virDomainGetInfo and its reading of the clock.
CpuTimeFitsInterval ==
  pc = "interface" /\ updates > 0 /\ ~disturbed => out.cpuTime <= out.elapsed + lag.previous

\* What the branch commented "dont have a previous update yet (this is the first)"
\* is for: the first update reports no difference.
FirstReportIsEmpty ==
  updates = 1 /\ pc = "info" => \A c \in Counter : out[c] = 0

=============================================================================
