---------------------------- MODULE TimespecUtils ---------------------------
(***************************************************************************)
(* timespec_utils: the difference of two CLOCK_REALTIME readings and its   *)
(* conversion to seconds.  NsPerSec is 10^9 in the code; the definitions   *)
(* and the proofs about them do not depend on its value.  to_double is     *)
(* modelled by the number of nanoseconds it stands for, so its rounding is *)
(* left out (a double holds any elapsed time of this program to the        *)
(* nanosecond).                                                            *)
(***************************************************************************)
LOCAL INSTANCE Integers

CONSTANT NsPerSec

ASSUME NsPerSecAssumption == NsPerSec \in Nat \ {0}

\* What clock_gettime answers: the nanoseconds are a proper fraction of a second.
Timespec == [tv_sec : Int, tv_nsec : 0 .. NsPerSec - 1]

Nanos(ts) == ts.tv_sec * NsPerSec + ts.tv_nsec

to_double(ts) == Nanos(ts)

ts_diff_NoBorrow(end, start) ==
  IF end.tv_nsec - start.tv_nsec < 0
  THEN [tv_sec  |-> end.tv_sec - start.tv_sec,
        tv_nsec |-> NsPerSec + end.tv_nsec - start.tv_nsec]
  ELSE [tv_sec  |-> end.tv_sec - start.tv_sec,
        tv_nsec |-> end.tv_nsec - start.tv_nsec]

\* The difference, with a second borrowed when the nanoseconds run short.
ts_diff(end, start) ==
  IF end.tv_nsec - start.tv_nsec < 0
  THEN [tv_sec  |-> end.tv_sec - start.tv_sec - 1,
        tv_nsec |-> NsPerSec + end.tv_nsec - start.tv_nsec]
  ELSE [tv_sec  |-> end.tv_sec - start.tv_sec,
        tv_nsec |-> end.tv_nsec - start.tv_nsec]

=============================================================================
