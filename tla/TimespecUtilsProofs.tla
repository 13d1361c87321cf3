------------------------- MODULE TimespecUtilsProofs ------------------------
(* What ts_diff returns, for all readings and any resolution of the clock. *)
EXTENDS TimespecUtils, Integers, TLAPS

\* The result is a proper timespec, even when end is earlier than start: its
\* seconds may be negative, its nanoseconds never are (ts_diff's borrow).
THEOREM DiffIsNormal ==
  ASSUME NEW end \in Timespec, NEW start \in Timespec
  PROVE  ts_diff(end, start) \in Timespec
BY NsPerSecAssumption DEF Timespec, ts_diff

\* ts_diff is subtraction: no nanosecond is lost or gained at a borrow.
THEOREM DiffIsExact ==
  ASSUME NEW end \in Timespec, NEW start \in Timespec
  PROVE  Nanos(ts_diff(end, start)) = Nanos(end) - Nanos(start)
<1> DEFINE N == NsPerSec
           diff == ts_diff(end, start)
<1>1. /\ N \in Int
      /\ end.tv_sec \in Int /\ start.tv_sec \in Int
      /\ end.tv_nsec \in Int /\ start.tv_nsec \in Int
  BY NsPerSecAssumption DEF Timespec
<1>2. ASSUME NEW a \in Int, NEW b \in Int, NEW n \in Int
      PROVE  /\ (a - b) * n = a * n - b * n
             /\ (a - b - 1) * n = a * n - b * n - n
             /\ a * n \in Int /\ b * n \in Int
  OBVIOUS
<1>3. /\ (end.tv_sec - start.tv_sec) * N = end.tv_sec * N - start.tv_sec * N
      /\ (end.tv_sec - start.tv_sec - 1) * N = end.tv_sec * N - start.tv_sec * N - N
      /\ end.tv_sec * N \in Int /\ start.tv_sec * N \in Int
  BY <1>1, <1>2
<1>4. ASSUME NEW p \in Int, NEW q \in Int, NEW x \in Int, NEW y \in Int, NEW n \in Int
      PROVE  /\ (p - q) + (x - y) = (p + x) - (q + y)
             /\ (p - q - n) + (n + x - y) = (p + x) - (q + y)
  OBVIOUS
<1>5. CASE end.tv_nsec - start.tv_nsec < 0
  <2>1. Nanos(diff) = (end.tv_sec - start.tv_sec - 1) * N
                        + (N + end.tv_nsec - start.tv_nsec)
    BY <1>5 DEF Nanos, ts_diff
  <2>2. Nanos(diff) = (end.tv_sec * N - start.tv_sec * N - N)
                        + (N + end.tv_nsec - start.tv_nsec)
    BY <1>3, <2>1
  <2>3. Nanos(diff) = (end.tv_sec * N + end.tv_nsec)
                        - (start.tv_sec * N + start.tv_nsec)
    BY <1>1, <1>3, <1>4, <2>2
  <2> QED
    BY <2>3 DEF Nanos
<1>6. CASE ~(end.tv_nsec - start.tv_nsec < 0)
  <2>1. Nanos(diff) = (end.tv_sec - start.tv_sec) * N
                        + (end.tv_nsec - start.tv_nsec)
    BY <1>6 DEF Nanos, ts_diff
  <2>2. Nanos(diff) = (end.tv_sec * N - start.tv_sec * N)
                        + (end.tv_nsec - start.tv_nsec)
    BY <1>3, <2>1
  <2>3. Nanos(diff) = (end.tv_sec * N + end.tv_nsec)
                        - (start.tv_sec * N + start.tv_nsec)
    BY <1>1, <1>3, <1>4, <2>2
  <2> QED
    BY <2>3 DEF Nanos
<1> QED
  BY <1>5, <1>6

=============================================================================
