----------------------- MODULE DomainStatTrackerProofs ----------------------
(* What update() reports, for every width of the counters, every resolution *)
(* of the clock and whatever the uninitialised buffers hold.                *)
EXTENDS DomainStatTracker, TimespecUtilsProofs

-----------------------------------------------------------------------------
(* Arithmetic *)

\* The difference of two counters is a word (the unsigned subtraction of update()).
LEMMA MinusIsWord ==
  ASSUME NEW a \in Int, NEW b \in Int
  PROVE  Minus(a, b) \in Word
BY WordAssumption DEF Minus, Word

\* Two numbers that differ by a multiple of the modulus leave the same remainder.
LEMMA SameRemainder ==
  ASSUME NEW m \in Nat \ {0}, NEW a \in Int, NEW q \in Int
  PROVE  (a + q * m) % m = a % m
<1> DEFINE p == a \div m
           r == a % m
<1>1. p \in Int /\ r \in 0 .. m - 1 /\ a = p * m + r
  OBVIOUS
<1>2. ASSUME NEW k \in Int, NEW s \in 0 .. m - 1
      PROVE  (k * m + s) % m = s
  OBVIOUS
<1> HIDE DEF p, r
<1>3. a + q * m = (p + q) * m + r
  BY <1>1
<1>4. p + q \in Int
  BY <1>1
<1>5. (a + q * m) % m = r
  BY <1>1, <1>2, <1>3, <1>4
<1> QED
  BY <1>5 DEF r

\* A sum of two remainders leaves the remainder of the sum.
LEMMA RemaindersAddUp ==
  ASSUME NEW m \in Nat \ {0}, NEW a \in Int, NEW b \in Int
  PROVE  ((a % m) + (b % m)) % m = (a + b) % m
<1> DEFINE p == a \div m
           q == b \div m
           x == a % m
           y == b % m
<1>1. p \in Int /\ x \in Int /\ a = p * m + x
  OBVIOUS
<1>2. q \in Int /\ y \in Int /\ b = q * m + y
  OBVIOUS
<1> HIDE DEF p, q, x, y
<1>3. a + b = (x + y) + (p + q) * m
  BY <1>1, <1>2
<1>4. x + y \in Int /\ p + q \in Int
  BY <1>1, <1>2
<1>5. ((x + y) + (p + q) * m) % m = (x + y) % m
  BY <1>4, SameRemainder
<1>6. (a + b) % m = (x + y) % m
  BY <1>3, <1>5
<1> QED
  BY <1>6 DEF x, y

\* Consecutive differences add up, although each is reduced to a word and so is
\* their sum.
LEMMA MinusAddsUp ==
  ASSUME NEW a \in Int, NEW b \in Int, NEW c \in Int
  PROVE  (Minus(b, a) + Minus(c, b)) % M = Minus(c, a)
<1> DEFINE x == b - a
           y == c - b
<1>1. x \in Int /\ y \in Int /\ x + y = c - a
  OBVIOUS
<1> HIDE DEF x, y
<1>2. ((x % M) + (y % M)) % M = (x + y) % M
  BY <1>1, WordAssumption, RemaindersAddUp
<1>3. ((x % M) + (y % M)) % M = (c - a) % M
  BY <1>1, <1>2
<1> QED
  BY <1>3 DEF x, y, Minus

\* A difference that is a word already is left alone.
LEMMA MinusOfSmall ==
  ASSUME NEW a \in Word, NEW b \in Word, b <= a
  PROVE  Minus(a, b) = a - b
BY WordAssumption DEF Minus, Word

\* The clock reading stands for the time at which it is made.
LEMMA ReadingIsExact ==
  ASSUME now \in Nat
  PROVE  realtime_now \in Timespec /\ Nanos(realtime_now) = now
BY NsPerSecAssumption DEF realtime_now, Timespec, Nanos

\* The divisor of update() is an integer, negative when the clock was set back.
LEMMA DivisorIsExact ==
  ASSUME NEW end \in Timespec, NEW start \in Timespec
  PROVE  /\ to_double(ts_diff(end, start)) = Nanos(end) - Nanos(start)
         /\ Nanos(end) \in Int /\ Nanos(start) \in Int
<1>1. Nanos(ts_diff(end, start)) = Nanos(end) - Nanos(start)
  BY DiffIsExact
<1>2. \A ts \in Timespec : Nanos(ts) \in Int
  BY NsPerSecAssumption DEF Nanos, Timespec
<1> QED
  BY <1>1, <1>2 DEF to_double

-----------------------------------------------------------------------------
(* Types *)

\* The guest does not outgrow its bound, a report has a field for every counter and
\* for the divisor, and only a tracked domain is asked about.
TypeInv ==
  /\ TypeOK
  /\ guest \in [Counter -> 0 .. MaxCount]
  /\ DOMAIN out = Counter \union {"elapsed"}
  /\ pc # "info" => m_domainID # 0

LEMMA TypeInit == Init => TypeInv
<1> SUFFICES ASSUME Init PROVE TypeInv
  OBVIOUS
<1>1. 0 \in Word /\ Garbage \subseteq Word /\ 0 \in 0 .. MaxCount /\ 0 .. MaxCount \subseteq Word
  BY WordAssumption, BoundAssumption DEF Word
<1>2. now = 0 /\ 0 \in 0 .. MaxNow
  BY BoundAssumption DEF Init
<1>3. realtime_now \in Timespec
  BY <1>2, ReadingIsExact
<1>4. /\ guest \in [Counter -> Word] /\ guest \in [Counter -> 0 .. MaxCount]
      /\ sample \in [Counter -> Word] /\ last \in [Counter -> Word]
      /\ latest \in [Counter -> Word \union {NoReading}]
      /\ first \in [Counter -> Word \union {NoReading}]
      /\ gained \in [Counter -> Word]
  BY <1>1 DEF Init
<1>5. /\ DOMAIN out = Counter \union {"elapsed"}
      /\ \A c \in Counter : out[c] \in Word
      /\ out.elapsed \in Int
  BY <1>1 DEF Init, NoGain
<1>6. /\ exists \in BOOLEAN /\ pc = "info" /\ m_domainID \in {0, 1}
      /\ updates = 0 /\ elapsedTotal = 0 /\ infoAt = now /\ disturbed \in BOOLEAN
      /\ wiped \in BOOLEAN
  BY DEF Init
<1>7. /\ m_last_tov \in Timespec /\ prev_tov \in Timespec
      /\ lag \in [previous : Int, current : Int]
  BY <1>3 DEF Init
<1> QED
  BY <1>2, <1>4, <1>5, <1>6, <1>7 DEF TypeInv, TypeOK

\* Report keeps words words: the copies are of readings, the sums are reduced.
LEMMA ReportTypes ==
  ASSUME NEW struct \in SUBSET Counter, Report(struct),
         last \in [Counter -> Word], sample' \in [Counter -> Word],
         gained \in [Counter -> Word],
         \A c \in struct : out'[c] \in Word,
         first \in [Counter -> Word \union {NoReading}],
         latest' \in [Counter -> Word \union {NoReading}]
  PROVE  /\ last' \in [Counter -> Word]
         /\ gained' \in [Counter -> Word]
         /\ first' \in [Counter -> Word \union {NoReading}]
<1>1. last' \in [Counter -> Word]
  BY DEF Report
<1>2. \A a, b \in Word : (a + b) % M \in Word
  BY WordAssumption DEF Word
<1>3. gained' \in [Counter -> Word]
  BY <1>2 DEF Report
<1>4. first' \in [Counter -> Word \union {NoReading}]
  BY DEF Report
<1> QED
  BY <1>1, <1>3, <1>4

\* Whether the call succeeds or fails, the buffer holds words.
LEMMA SampleTypes ==
  ASSUME NEW struct \in SUBSET Counter, SampleStats(struct),
         guest \in [Counter -> Word], sample \in [Counter -> Word],
         latest \in [Counter -> Word \union {NoReading}]
  PROVE  /\ sample' \in [Counter -> Word]
         /\ latest' \in [Counter -> Word \union {NoReading}]
BY DEF SampleStats

\* Every step keeps TypeInv.
LEMMA TypeStep == TypeInv /\ [Next]_vars => TypeInv'
<1> SUFFICES ASSUME TypeInv, [Next]_vars
             PROVE  TypeInv'
  OBVIOUS
<1> USE DEF TypeInv
<1>0. /\ 0 .. MaxCount \subseteq Word /\ 0 \in Word /\ MaxNow \in Nat /\ MaxCount \in Nat
      /\ "cpuTime" \in Counter /\ Info \subseteq Counter
      /\ BlockStats \subseteq Counter /\ InterfaceStats \subseteq Counter
  BY WordAssumption, BoundAssumption
  DEF Word, Counter, Info, BlockStats, InterfaceStats
<1>1. ASSUME Destroy PROVE TypeInv'
  BY <1>1 DEF Destroy, TypeOK, bufferVars, clockVars, countHistory, timeHistory
<1>2. ASSUME NEW c \in Counter, DoIO(c) PROVE TypeInv'
  <2>1. guest' \in [Counter -> 0 .. MaxCount]
    BY <1>0, <1>2 DEF DoIO
  <2>2. guest' \in [Counter -> Word]
    BY <1>0, <2>1
  <2> QED
    BY <1>2, <2>1, <2>2 DEF DoIO, TypeOK, bufferVars, clockVars, countHistory, timeHistory
<1>3. ASSUME Tick PROVE TypeInv'
  <2>1. guest' \in [Counter -> 0 .. MaxCount]
    BY <1>0, <1>3 DEF Tick
  <2>2. guest' \in [Counter -> Word]
    BY <1>0, <2>1
  <2>3. now' \in 0 .. MaxNow
    BY <1>0, <1>3 DEF Tick, TypeOK
  <2> QED
    BY <1>3, <2>1, <2>2, <2>3
    DEF Tick, TypeOK, bufferVars, clockVars, countHistory, timeHistory
<1>4. ASSUME SetClockBack PROVE TypeInv'
  <2>1. now' \in 0 .. MaxNow
    BY <1>0, <1>4 DEF SetClockBack, TypeOK
  <2> QED
    BY <1>4, <2>1 DEF SetClockBack, TypeOK, bufferVars, clockVars, countHistory
<1>5. ASSUME ReturnZeroes PROVE TypeInv'
  BY <1>0, <1>5 DEF ReturnZeroes, TypeOK, NoGain, guestVars, bufferVars, clockVars,
                    countHistory, timeHistory
<1>6. ASSUME GetInfo PROVE TypeInv'
  <2>1. sample' \in [Counter -> Word] /\ latest' \in [Counter -> Word \union {NoReading}]
    BY <1>0, <1>6 DEF GetInfo, TypeOK
  <2>2. /\ DOMAIN out' = Counter \union {"elapsed"}
        /\ (\A c \in Counter : out[c] \in Word)'
        /\ out'.elapsed \in Int
    BY <1>0, <1>6 DEF GetInfo, NoGain
  <2>3. disturbed' \in BOOLEAN
    BY <1>6 DEF GetInfo, TypeOK
  <2> QED
    BY <1>6, <2>1, <2>2, <2>3 DEF GetInfo, TypeOK, guestVars, clockVars
<1>7. ASSUME ReadClock PROVE TypeInv'
  <2>1. realtime_now \in Timespec
    BY <1>0, ReadingIsExact DEF TypeOK
  <2>2. lag' \in [previous : Int, current : Int] /\ infoAt' \in 0 .. MaxNow
    BY <1>0, <1>7 DEF ReadClock, TypeOK
  <2> QED
    BY <1>7, <2>1, <2>2 DEF ReadClock, TypeOK, guestVars, bufferVars, countHistory
<1>8. ASSUME GetXMLDesc PROVE TypeInv'
  BY <1>8 DEF GetXMLDesc, Crash, TypeOK, guestVars, bufferVars, clockVars, countHistory,
              timeHistory
<1>9. ASSUME GetBlockStats PROVE TypeInv'
  <2> DEFINE struct == Info \union BlockStats
             elapsed == to_double(ts_diff(m_last_tov, prev_tov))
  <2>1. elapsed \in Int
    BY DivisorIsExact DEF TypeOK
  <2>2. sample' \in [Counter -> Word] /\ latest' \in [Counter -> Word \union {NoReading}]
    BY <1>0, <1>9, SampleTypes DEF GetBlockStats, TypeOK
  <2>3. \A c \in Counter : Minus(sample'[c], last[c]) \in Word
    <3>1. ASSUME NEW c \in Counter PROVE sample'[c] \in Int /\ last[c] \in Int
      BY <2>2 DEF TypeOK, Word
    <3> QED
      BY <3>1, MinusIsWord
  <2>4. "elapsed" \notin Counter
    BY DEF Counter, Info, BlockStats, InterfaceStats
  <2> HIDE DEF elapsed
  <2>5. /\ out' = [c \in DOMAIN out |-> IF c = "elapsed" THEN elapsed
                                     ELSE IF c \in struct THEN Minus(sample'[c], last[c])
                                     ELSE out[c]]
        /\ elapsedTotal' = elapsedTotal + elapsed /\ Report(struct)
    BY <1>9 DEF GetBlockStats, elapsed
  <2>6. /\ DOMAIN out' = Counter \union {"elapsed"} /\ out'.elapsed \in Int
        /\ \A c \in Counter : out'[c] \in Word
    BY <2>1, <2>3, <2>4, <2>5 DEF TypeOK
  <2>7. /\ last' \in [Counter -> Word] /\ gained' \in [Counter -> Word]
        /\ first' \in [Counter -> Word \union {NoReading}]
    BY <1>0, <2>2, <2>5, <2>6, ReportTypes DEF TypeOK
  <2>8. elapsedTotal' \in Int
    BY <2>1, <2>5 DEF TypeOK
  <2> QED
    BY <1>9, <2>2, <2>6, <2>7, <2>8 DEF GetBlockStats, TypeOK, guestVars, clockVars
<1>10. ASSUME GetInterfaceStats PROVE TypeInv'
  <2>2. sample' \in [Counter -> Word] /\ latest' \in [Counter -> Word \union {NoReading}]
    BY <1>0, <1>10, SampleTypes DEF GetInterfaceStats, TypeOK
  <2>3. \A c \in Counter : Minus(sample'[c], last[c]) \in Word
    <3>1. ASSUME NEW c \in Counter PROVE sample'[c] \in Int /\ last[c] \in Int
      BY <2>2 DEF TypeOK, Word
    <3> QED
      BY <3>1, MinusIsWord
  <2>4. "elapsed" \notin InterfaceStats
    BY DEF InterfaceStats
  <2>6. /\ DOMAIN out' = Counter \union {"elapsed"} /\ out'.elapsed \in Int
        /\ \A c \in Counter : out'[c] \in Word
    BY <1>10, <2>3, <2>4 DEF GetInterfaceStats, TypeOK
  <2>7. /\ last' \in [Counter -> Word] /\ gained' \in [Counter -> Word]
        /\ first' \in [Counter -> Word \union {NoReading}]
    BY <1>0, <1>10, <2>2, <2>6, ReportTypes DEF TypeOK, GetInterfaceStats
  <2>8. updates' \in 0 .. 2
    BY <1>10 DEF GetInterfaceStats, TypeOK
  <2> QED
    BY <1>10, <2>2, <2>6, <2>7, <2>8
    DEF GetInterfaceStats, TypeOK, guestVars, clockVars, timeHistory
<1>11. CASE UNCHANGED vars
  BY <1>11 DEF vars, TypeOK, guestVars, bufferVars, clockVars, countHistory, timeHistory
<1> QED
  BY <1>1, <1>2, <1>3, <1>4, <1>5, <1>6, <1>7, <1>8, <1>9, <1>10, <1>11
  DEF Next, update

\* Counters and reports are words and clock readings proper timespecs, whatever the
\* buffers held at first and whichever calls fail.
THEOREM TrackerTypes == Spec => []TypeOK
<1>1. TypeInv => TypeOK
  BY DEF TypeInv
<1> QED
  BY <1>1, TypeInit, TypeStep, PTL DEF Spec

-----------------------------------------------------------------------------
(* What the reports add up to *)

\* The latest call for counter c to touch its buffer wiped it.
Wiped(c) == c = "cpuTime" /\ wiped

\* Counter c of the buffers is libvirt's latest answer, once there is one and unless
\* it has been wiped, and what was reported since the first is the way from there to
\* the last reading kept.
Accounted(c) ==
  /\ latest[c] # NoReading /\ ~Wiped(c) => sample[c] = latest[c]
  /\ latest[c] # NoReading /\ Wiped(c) => first[c] # NoReading
  /\ first[c] # NoReading => latest[c] # NoReading /\ gained[c] = Minus(last[c], first[c])
  /\ first[c] = NoReading => gained[c] = 0

\* Between the moment a structure is sampled and the moment it is reported, which
\* for virDomainInfo are calls apart, its last reading is behind.
Unreported == {"clock", "xml", "block", "crashed"}
InStep(c) ==
  (c = "cpuTime" => pc \notin Unreported) =>
    /\ first[c] # NoReading => last[c] = sample[c]
    /\ latest[c] # NoReading => first[c] # NoReading

Filled == {"cpuTime", "rd_req", "rx_bytes"}

AccountInv == \A c \in Filled : Accounted(c) /\ InStep(c)

LEMMA AccountInit == Init => AccountInv
<1> SUFFICES ASSUME Init, NEW c \in Filled
             PROVE  Accounted(c) /\ InStep(c)
  BY DEF AccountInv
<1>1. c \in Counter
  BY DEF Filled, Counter, Info, BlockStats, InterfaceStats
<1>2. latest[c] = NoReading /\ first[c] = NoReading /\ gained[c] = 0
  BY <1>1 DEF Init
<1> QED
  BY <1>2 DEF Accounted, InStep

\* Report, of a structure whose differences have just been taken, keeps the account.
LEMMA ReportAccounts ==
  ASSUME NEW struct \in SUBSET Counter, NEW c \in struct, Report(struct),
         TypeInv, TypeInv', Accounted(c),
         out'[c] = Minus(sample'[c], last[c]),
         latest'[c] # NoReading /\ ~Wiped(c)' => sample'[c] = latest'[c],
         latest'[c] # NoReading /\ Wiped(c)' => first[c] # NoReading,
         first[c] # NoReading => latest'[c] # NoReading
  PROVE  /\ Accounted(c)'
         /\ last'[c] = sample'[c]
         /\ latest'[c] # NoReading => first'[c] # NoReading
<1>1. last'[c] = sample'[c]
  BY DEF Report
<1>2. /\ gained'[c] = IF first[c] # NoReading THEN (gained[c] + out'[c]) % M ELSE gained[c]
      /\ first'[c] = IF first[c] = NoReading THEN latest'[c] ELSE first[c]
  BY DEF Report
<1>3. /\ last[c] \in Int /\ sample'[c] \in Int
      /\ (first[c] # NoReading => first[c] \in Int)
  BY DEF TypeInv, TypeOK, Word
<1>4. CASE first[c] # NoReading
  <2>1. gained'[c] = (Minus(last[c], first[c]) + Minus(sample'[c], last[c])) % M
    BY <1>2, <1>4 DEF Accounted
  <2>2. gained'[c] = Minus(sample'[c], first[c])
    BY <1>3, <1>4, <2>1, MinusAddsUp
  <2> QED
    BY <1>1, <1>2, <1>4, <2>2 DEF Accounted
<1>5. CASE first[c] = NoReading
  <2>1. gained'[c] = 0 /\ first'[c] = latest'[c]
    BY <1>2, <1>5 DEF Accounted
  <2>2. Minus(sample'[c], sample'[c]) = 0
    BY <1>3, WordAssumption DEF Minus
  <2> QED
    BY <1>1, <1>5, <2>1, <2>2 DEF Accounted
<1> QED
  BY <1>4, <1>5

\* A step that leaves a counter's buffer and report alone keeps its account.
LEMMA Unaccounted ==
  ASSUME NEW c, Accounted(c),
         sample'[c] = sample[c], last'[c] = last[c], latest'[c] = latest[c],
         first'[c] = first[c], gained'[c] = gained[c], wiped' = wiped
  PROVE  Accounted(c)'
BY DEF Accounted, Wiped

\* Every step keeps AccountInv.
LEMMA AccountStep == TypeInv /\ TypeInv' /\ AccountInv /\ [Next]_vars => AccountInv'
<1> SUFFICES ASSUME TypeInv, TypeInv', AccountInv, [Next]_vars, NEW c \in Filled
             PROVE  (Accounted(c) /\ InStep(c))'
  BY DEF AccountInv
<1>0. /\ Accounted(c) /\ InStep(c) /\ c \in Counter
      /\ c = "cpuTime" => c \in Info /\ c \notin BlockStats \union InterfaceStats
      /\ c = "rd_req" => c \in BlockStats /\ c \notin InterfaceStats
      /\ c = "rx_bytes" => c \in InterfaceStats /\ c \notin Info \union BlockStats
      /\ c \in {"cpuTime", "rd_req", "rx_bytes"}
      /\ Info \subseteq Counter /\ BlockStats \subseteq Counter /\ InterfaceStats \subseteq Counter
  BY DEF AccountInv, Filled, Counter, Info, BlockStats, InterfaceStats
<1>1. CASE UNCHANGED <<bufferVars, countHistory>> /\ (pc' \in Unreported \/ pc' = pc)
  BY <1>0, <1>1 DEF Accounted, Wiped, InStep, bufferVars, countHistory
<1>2. CASE GetInfo
  <2>1. pc = "info" /\ pc' \in Unreported /\ UNCHANGED <<last, first, gained>>
    BY <1>2 DEF GetInfo, Unreported
  <2>2. sample \in [Counter -> Word] /\ latest \in [Counter -> Word \union {NoReading}]
    BY DEF TypeInv, TypeOK
  <2>3. CASE c = "cpuTime"
    <3>1. latest[c] # NoReading => first[c] # NoReading
      BY <2>1, <2>3, <1>0 DEF InStep, Unreported
    <3>2. \/ sample'[c] = sample[c] /\ latest'[c] = latest[c] /\ wiped' = wiped
          \/ latest'[c] = latest[c] /\ wiped'
          \/ latest'[c] # NoReading /\ sample'[c] = latest'[c] /\ ~wiped'
      <4>1. guest.cpuTime # NoReading
        BY BoundAssumption, <1>0, <2>3 DEF TypeInv, NoReading
      <4> QED
        BY <1>0, <1>2, <2>2, <2>3, <4>1 DEF GetInfo
    <3>3. Accounted(c)'
      BY <1>0, <2>1, <2>3, <3>1, <3>2 DEF Accounted, Wiped
    <3> QED
      BY <2>1, <2>3, <3>3 DEF InStep
  <2>4. CASE c # "cpuTime"
    <3>1. sample'[c] = sample[c] /\ latest'[c] = latest[c]
      BY <1>0, <1>2, <2>2, <2>4 DEF GetInfo
    <3> QED
      BY <1>0, <2>1, <2>4, <3>1 DEF Accounted, Wiped, InStep
  <2> QED
    BY <2>3, <2>4
<1>3. CASE GetBlockStats
  <2> DEFINE struct == Info \union BlockStats
  <2>1. struct \in SUBSET Counter /\ Report(struct) /\ SampleStats(BlockStats)
    BY <1>0, <1>3 DEF GetBlockStats
  <2>2. CASE c \in struct
    <3>1. out'[c] = Minus(sample'[c], last[c])
      BY <1>0, <1>3, <2>2 DEF GetBlockStats, TypeInv
    <3>2. /\ latest'[c] # NoReading /\ ~Wiped(c)' => sample'[c] = latest'[c]
          /\ latest'[c] # NoReading /\ Wiped(c)' => first[c] # NoReading
          /\ first[c] # NoReading => latest'[c] # NoReading
      <4>1. guest[c] # NoReading
        BY BoundAssumption, <1>0 DEF TypeInv, NoReading
      <4>2. c \in BlockStats => c \in FirstField(BlockStats)
        BY <1>0, <2>2 DEF FirstField
      <4>3. \/ sample'[c] = guest[c] /\ latest'[c] = guest[c] /\ c \in BlockStats
            \/ sample'[c] = sample[c] /\ latest'[c] = latest[c]
        BY <1>0, <2>1, <4>2 DEF SampleStats, FirstField
      <4>4. wiped' = wiped
        BY <1>3 DEF GetBlockStats
      <4> QED
        BY <1>0, <4>1, <4>3, <4>4 DEF Accounted, Wiped
    <3>3. /\ Accounted(c)' /\ last'[c] = sample'[c]
          /\ latest'[c] # NoReading => first'[c] # NoReading
      BY <1>0, <2>1, <2>2, <3>1, <3>2, ReportAccounts
    <3> QED
      BY <3>3 DEF InStep
  <2>3. CASE c \notin struct
    <3>1. /\ sample'[c] = sample[c] /\ latest'[c] = latest[c]
      BY <1>0, <2>1, <2>3 DEF SampleStats, FirstField
    <3>2. last'[c] = last[c] /\ gained'[c] = gained[c] /\ first'[c] = first[c]
      BY <1>0, <2>1, <2>3 DEF Report
    <3>3. c # "cpuTime"
      BY <1>0, <2>3
    <3>4. Accounted(c)'
      <4>1. wiped' = wiped
        BY <1>3 DEF GetBlockStats
      <4> QED
        BY <1>0, <3>1, <3>2, <4>1, Unaccounted
    <3> QED
      BY <1>0, <3>1, <3>2, <3>3, <3>4 DEF InStep
  <2> QED
    BY <2>2, <2>3
<1>4. CASE GetInterfaceStats
  <2> DEFINE struct == InterfaceStats
  <2>1. struct \in SUBSET Counter /\ Report(struct) /\ SampleStats(struct)
    BY <1>0, <1>4 DEF GetInterfaceStats
  <2>2. CASE c \in struct
    <3>1. out'[c] = Minus(sample'[c], last[c])
      BY <1>0, <1>4, <2>2 DEF GetInterfaceStats, TypeInv
    <3>2. /\ latest'[c] # NoReading /\ ~Wiped(c)' => sample'[c] = latest'[c]
          /\ latest'[c] # NoReading /\ Wiped(c)' => first[c] # NoReading
          /\ first[c] # NoReading => latest'[c] # NoReading
      <4>1. guest[c] # NoReading
        BY BoundAssumption, <1>0 DEF TypeInv, NoReading
      <4>2. c \in FirstField(struct)
        BY <1>0, <2>2 DEF FirstField
      <4>3. \/ sample'[c] = guest[c] /\ latest'[c] = guest[c]
            \/ sample'[c] = sample[c] /\ latest'[c] = latest[c]
        BY <1>0, <2>1, <2>2, <4>2 DEF SampleStats
      <4>4. wiped' = wiped
        BY <1>4 DEF GetInterfaceStats
      <4> QED
        BY <1>0, <2>2, <4>1, <4>3, <4>4 DEF Accounted, Wiped
    <3>3. /\ Accounted(c)' /\ last'[c] = sample'[c]
          /\ latest'[c] # NoReading => first'[c] # NoReading
      BY <1>0, <2>1, <2>2, <3>1, <3>2, ReportAccounts
    <3> QED
      BY <3>3 DEF InStep
  <2>3. CASE c \notin struct
    <3>1. /\ sample'[c] = sample[c] /\ latest'[c] = latest[c]
      BY <1>0, <2>1, <2>3 DEF SampleStats, FirstField
    <3>2. last'[c] = last[c] /\ gained'[c] = gained[c] /\ first'[c] = first[c]
      BY <1>0, <2>1, <2>3 DEF Report
    <3>3. pc \notin Unreported
      BY <1>4 DEF GetInterfaceStats, Unreported
    <3>4. Accounted(c)'
      <4>1. wiped' = wiped
        BY <1>4 DEF GetInterfaceStats
      <4> QED
        BY <1>0, <3>1, <3>2, <4>1, Unaccounted
    <3> QED
      BY <1>0, <3>1, <3>2, <3>3, <3>4 DEF InStep
  <2> QED
    BY <2>2, <2>3
<1> QED
  BY <1>1, <1>2, <1>3, <1>4
  DEF Next, update, vars, Unreported, Destroy, DoIO, Tick, SetClockBack, ReturnZeroes,
      ReadClock, GetXMLDesc, Crash, bufferVars, countHistory

\* Of a counter libvirt fills in nothing is lost and nothing counted twice, whatever
\* calls fail between two reports and although each difference wraps around; what is
\* reported of a wiped buffer is taken back by the report of the next reading.
THEOREM TrackerReportsAddUp == Spec => []ReportsAddUp
<1>1. AccountInv => ReportsAddUp
  <2> SUFFICES ASSUME AccountInv
               PROVE  ReportsAddUp
    OBVIOUS
  <2>1. ASSUME NEW c \in Filled, ~Wiped(c)
        PROVE  AddsUp(c)
    BY <2>1 DEF AddsUp, AccountInv, Accounted, InStep, Unreported
  <2> QED
    BY <2>1 DEF ReportsAddUp, Filled, Wiped
<1> QED
  BY <1>1, TypeInit, TypeStep, AccountInit, AccountStep, PTL DEF Spec

-----------------------------------------------------------------------------
(* The intervals *)

\* The divisors so far add up to the latest clock reading whose divisor is reported:
\* that is the previous one between ReadClock and the report.
ElapsedInv ==
  /\ pc \in {"info", "clock", "interface"} => elapsedTotal = Nanos(m_last_tov)
  /\ pc \in {"xml", "block"} => elapsedTotal = Nanos(prev_tov)

LEMMA ElapsedInit == Init => ElapsedInv
<1> SUFFICES ASSUME Init PROVE ElapsedInv
  OBVIOUS
<1>1. now = 0 /\ elapsedTotal = 0 /\ m_last_tov = realtime_now /\ pc = "info"
  BY DEF Init
<1>2. Nanos(m_last_tov) = 0
  BY <1>1, ReadingIsExact
<1> QED
  BY <1>1, <1>2 DEF ElapsedInv

\* Every step keeps ElapsedInv.
LEMMA ElapsedStep == TypeInv /\ ElapsedInv /\ [Next]_vars => ElapsedInv'
<1> SUFFICES ASSUME TypeInv, ElapsedInv, [Next]_vars
             PROVE  ElapsedInv'
  OBVIOUS
<1>1. CASE UNCHANGED <<pc, clockVars, elapsedTotal>>
  BY <1>1 DEF ElapsedInv, clockVars, Nanos
<1>2. CASE GetInfo
  BY <1>2 DEF GetInfo, ElapsedInv, clockVars, Nanos
<1>3. CASE ReadClock
  BY <1>3 DEF ReadClock, ElapsedInv, Nanos
<1>4. CASE GetXMLDesc
  BY <1>4 DEF GetXMLDesc, Crash, ElapsedInv, clockVars, timeHistory, Nanos
<1>5. CASE GetBlockStats
  <2>1. elapsedTotal' = elapsedTotal + to_double(ts_diff(m_last_tov, prev_tov))
    BY <1>5 DEF GetBlockStats
  <2>2. elapsedTotal = Nanos(prev_tov)
    BY <1>5 DEF GetBlockStats, ElapsedInv
  <2>3. elapsedTotal' = Nanos(m_last_tov)
    BY <2>1, <2>2, DivisorIsExact DEF TypeInv, TypeOK
  <2>4. pc' = "interface" /\ m_last_tov' = m_last_tov
    BY <1>5 DEF GetBlockStats, clockVars
  <2> QED
    BY <2>3, <2>4 DEF ElapsedInv, Nanos
<1>6. CASE GetInterfaceStats
  BY <1>6 DEF GetInterfaceStats, ElapsedInv, clockVars, timeHistory, Nanos
<1> QED
  BY <1>1, <1>2, <1>3, <1>4, <1>5, <1>6
  DEF Next, update, vars, Destroy, DoIO, Tick, SetClockBack, ReturnZeroes, clockVars,
      timeHistory

\* The intervals join without a gap or an overlap, at any resolution of the clock and
\* although it may be set back: their sum is the time since the tracker was made.
THEOREM TrackerElapsedAddsUp == Spec => []ElapsedAddsUp
<1>1. ElapsedInv => ElapsedAddsUp
  BY DEF ElapsedInv, ElapsedAddsUp
<1> QED
  BY <1>1, TypeInit, TypeStep, ElapsedInit, ElapsedStep, PTL DEF Spec

-----------------------------------------------------------------------------
(* CPU time against the interval *)

\* A one-CPU guest that worked from b to a did so within a time.
Within(a, b, time) == b <= a /\ a - b <= time

\* The clock when virDomainGetInfo was called for the latest reading of the clock,
\* and for the one before.
askedAt == Nanos(m_last_tov) - lag.current
askedBefore == Nanos(prev_tov) - lag.previous

\* As long as virDomainGetInfo succeeds and the clock goes forward, the samples of the
\* CPU time lag behind the guest, and each other, by no more than the time between
\* the calls that took them.
FitInv ==
  ~disturbed /\ m_domainID # 0 =>
    /\ pc = "clock" => /\ infoAt <= now
                       /\ Within(guest.cpuTime, sample.cpuTime, now - infoAt)
    /\ pc \in {"xml", "block", "interface"} \/ (pc = "info" /\ updates > 0) =>
         Within(guest.cpuTime, sample.cpuTime, now - askedAt)
    /\ (pc = "info" /\ updates > 0) \/ pc = "interface" => last.cpuTime = sample.cpuTime
    /\ pc = "clock" /\ updates > 0 =>
         Within(sample.cpuTime, last.cpuTime, infoAt - askedAt)
    /\ pc \in {"xml", "block"} => lag.current >= 0
    /\ pc \in {"xml", "block"} /\ updates > 0 =>
         Within(sample.cpuTime, last.cpuTime, askedAt - askedBefore)
    /\ pc = "interface" /\ updates > 0 => out.cpuTime <= out.elapsed + lag.previous

LEMMA FitInit == Init => FitInv
BY DEF Init, FitInv

\* Every step keeps FitInv.
LEMMA FitStep == TypeInv /\ TypeInv' /\ FitInv /\ [Next]_vars => FitInv'
<1> SUFFICES ASSUME TypeInv, TypeInv', FitInv, [Next]_vars, ~disturbed', m_domainID' # 0
             PROVE  FitInv'
  BY DEF FitInv
<1>0. /\ "cpuTime" \in Counter /\ "elapsed" \notin Counter /\ "cpuTime" \notin InterfaceStats
      /\ "cpuTime" \notin BlockStats /\ "cpuTime" \in Info
      /\ Info \subseteq Counter /\ BlockStats \subseteq Counter
  BY DEF Counter, Info, BlockStats, InterfaceStats
<1>1. /\ guest.cpuTime \in Int /\ sample.cpuTime \in Int /\ last.cpuTime \in Int
      /\ now \in Int /\ infoAt \in Int /\ lag.current \in Int /\ lag.previous \in Int
      /\ Nanos(m_last_tov) \in Int /\ Nanos(prev_tov) \in Int
      /\ updates \in Int /\ m_last_tov \in Timespec /\ prev_tov \in Timespec
      /\ sample.cpuTime \in Word /\ last.cpuTime \in Word
  BY <1>0, BoundAssumption, DivisorIsExact DEF TypeInv, TypeOK, Word
<1>2. CASE UNCHANGED <<guest, now, pc, m_domainID, bufferVars, clockVars, out, updates,
                       infoAt, lag, disturbed>>
  BY <1>2 DEF FitInv, bufferVars, clockVars, askedAt, askedBefore, Nanos, Within
<1>3. CASE \E c \in Counter : DoIO(c)
  <2>1. PICK c \in Counter \ Info : guest' = [guest EXCEPT ![c] = @ + 1]
    BY <1>3 DEF DoIO
  <2>2. guest'.cpuTime = guest.cpuTime
    BY <1>0, <2>1 DEF TypeInv
  <2> QED
    BY <1>3, <2>2
    DEF DoIO, FitInv, bufferVars, clockVars, timeHistory, askedAt, askedBefore, Nanos, Within
<1>4. CASE Tick
  <2>1. /\ now' = now + 1 /\ guest'.cpuTime \in {guest.cpuTime, guest.cpuTime + 1}
        /\ UNCHANGED <<pc, m_domainID, bufferVars, clockVars, out, updates, infoAt, lag,
                       disturbed>>
    BY <1>0, <1>1, <1>4 DEF Tick, TypeInv, timeHistory
  <2>2. askedAt' = askedAt /\ askedBefore' = askedBefore /\ askedAt \in Int
    BY <1>1, <2>1 DEF askedAt, askedBefore, clockVars, Nanos
  <2>3. \A a, b, t \in Int :
          Within(a, b, t) => Within(a, b, t + 1) /\ Within(a + 1, b, t + 1)
    BY DEF Within
  <2>4. sample' = sample /\ last' = last /\ now - infoAt \in Int /\ now - askedAt \in Int
        /\ now' - infoAt = (now - infoAt) + 1 /\ now' - askedAt = (now - askedAt) + 1
    BY <1>1, <2>1, <2>2 DEF bufferVars
  <2>5. Within(guest.cpuTime, sample.cpuTime, now - infoAt)
          => Within(guest'.cpuTime, sample.cpuTime, now' - infoAt)
    BY <1>1, <2>1, <2>3, <2>4
  <2>6. Within(guest.cpuTime, sample.cpuTime, now - askedAt)
          => Within(guest'.cpuTime, sample.cpuTime, now' - askedAt)
    BY <1>1, <2>1, <2>3, <2>4
  <2>7. infoAt <= now => infoAt <= now'
    BY <1>1, <2>1
  <2> QED
    BY <2>1, <2>2, <2>4, <2>5, <2>6, <2>7 DEF FitInv, Within
<1>5. CASE SetClockBack
  BY <1>5 DEF SetClockBack
<1>6. CASE ReturnZeroes
  BY <1>6 DEF ReturnZeroes
<1>7. CASE GetInfo
  <2>1. /\ pc = "info" /\ pc' = "clock" /\ infoAt' = now /\ now' = now
        /\ UNCHANGED <<guest, last, clockVars, updates, lag, disturbed, m_domainID>>
        /\ sample'.cpuTime = guest.cpuTime
    BY <1>0, <1>7 DEF GetInfo, guestVars, TypeInv, TypeOK
  <2>2. updates > 0 => Within(guest.cpuTime, sample.cpuTime, now - askedAt)
                         /\ last.cpuTime = sample.cpuTime
    BY <2>1 DEF FitInv
  <2>3. askedAt' = askedAt
    BY <2>1 DEF askedAt, clockVars, Nanos
  <2>4. Within(guest.cpuTime, guest.cpuTime, now - now)
    BY <1>1 DEF Within
  <2> QED
    BY <1>1, <2>1, <2>2, <2>3, <2>4 DEF FitInv, Within
<1>8. CASE ReadClock
  <2>1. /\ pc = "clock" /\ pc' = "xml" /\ prev_tov' = m_last_tov
        /\ m_last_tov' = realtime_now
        /\ lag'.current = now - infoAt /\ lag'.previous = lag.current
        /\ UNCHANGED <<guest, now, bufferVars, updates, disturbed, m_domainID>>
    BY <1>8 DEF ReadClock, guestVars
  <2>2. Nanos(realtime_now) = now
    BY BoundAssumption, ReadingIsExact DEF TypeInv, TypeOK
  <2>3. askedAt' = infoAt /\ askedBefore' = askedAt
    BY <1>1, <2>1, <2>2 DEF askedAt, askedBefore, Nanos
  <2> QED
    BY <1>1, <2>1, <2>3 DEF FitInv, Within, bufferVars
<1>9. CASE GetXMLDesc
  <2>1. /\ pc = "xml" /\ pc' \in {"block", "crashed"}
        /\ UNCHANGED <<guest, now, bufferVars, clockVars, updates, lag, disturbed, m_domainID>>
    BY <1>9 DEF GetXMLDesc, Crash, guestVars, timeHistory
  <2> QED
    BY <1>1, <2>1 DEF FitInv, Within, bufferVars, clockVars, askedAt, askedBefore, Nanos
<1>10. CASE GetBlockStats
  <2>1. /\ pc = "block" /\ pc' = "interface"
        /\ UNCHANGED <<guest, now, clockVars, updates, lag, disturbed, m_domainID>>
    BY <1>10 DEF GetBlockStats, guestVars
  <2>2. sample'.cpuTime = sample.cpuTime
    BY <1>0, <1>10 DEF GetBlockStats, SampleStats, FirstField, TypeInv, TypeOK
  <2>3. last'.cpuTime = sample.cpuTime
    BY <1>0, <1>10, <2>2 DEF GetBlockStats, Report
  <2>4. /\ out'.cpuTime = Minus(sample.cpuTime, last.cpuTime)
        /\ out'.elapsed = to_double(ts_diff(m_last_tov, prev_tov))
    BY <1>0, <1>10, <2>2 DEF GetBlockStats, TypeInv
  <2>5. out'.elapsed = Nanos(m_last_tov) - Nanos(prev_tov)
    BY <1>1, <2>4, DivisorIsExact
  <2>6. ASSUME updates > 0
        PROVE  out'.cpuTime <= out'.elapsed + lag.previous
    <3>1. Within(sample.cpuTime, last.cpuTime, askedAt - askedBefore) /\ lag.current >= 0
      BY <2>1, <2>6 DEF FitInv
    <3>2. out'.cpuTime = sample.cpuTime - last.cpuTime
      BY <1>1, <2>4, <3>1, MinusOfSmall DEF Within
    <3> QED
      BY <1>1, <2>5, <3>1, <3>2 DEF Within, askedAt, askedBefore
  <2>7. askedAt' = askedAt
    BY <2>1 DEF askedAt, clockVars, Nanos
  <2> QED
    BY <2>1, <2>2, <2>3, <2>6, <2>7 DEF FitInv, Within
<1>11. CASE GetInterfaceStats
  <2>1. /\ pc = "interface" /\ pc' = "info"
        /\ UNCHANGED <<guest, now, clockVars, lag, disturbed, m_domainID>>
    BY <1>11 DEF GetInterfaceStats, guestVars, timeHistory
  <2>2. sample'.cpuTime = sample.cpuTime /\ last'.cpuTime = last.cpuTime
    BY <1>0, <1>11 DEF GetInterfaceStats, SampleStats, FirstField, Report, TypeInv, TypeOK
  <2>3. askedAt' = askedAt
    BY <2>1 DEF askedAt, clockVars, Nanos
  <2> QED
    BY <2>1, <2>2, <2>3 DEF FitInv, Within
<1> QED
  BY <1>2, <1>3, <1>4, <1>5, <1>6, <1>7, <1>8, <1>9, <1>10, <1>11
  DEF Next, update, vars, guestVars, Destroy, timeHistory

\* The CPU time reported for an interval fits into it, but for the previous update's
\* delay between the two calls, at every width of the counters and of a second.
THEOREM TrackerCpuTimeFits == Spec => []CpuTimeFitsInterval
<1>1. TypeInv /\ FitInv => CpuTimeFitsInterval
  BY DEF TypeInv, FitInv, CpuTimeFitsInterval
<1> QED
  BY <1>1, TypeInit, TypeStep, FitInit, FitStep, PTL DEF Spec

=============================================================================
