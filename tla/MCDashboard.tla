----------------------------- MODULE MCDashboard ----------------------------
(* Constants for checking Dashboard. *)
EXTENDS Dashboard, TLC

\* A monitor's clock is right, or up to two seconds slow: as far as a ring reaches, or
\* too far.
ClockOffsets == -2 .. 0

\* No property is temporal beyond a step, so that nodes may be exchanged.
Symmetry == Permutations(Node)
=============================================================================
