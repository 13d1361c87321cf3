------------------------ MODULE MCDomainStatTracker -------------------------
(* DomainStatTracker with counters modulo 5 and two nanoseconds to a second. *)
EXTENDS DomainStatTracker

MCGarbage == {3}
TwoGarbage == {0, 3}

=============================================================================
