-------------------------- MODULE MCServiceControl --------------------------
(* ServiceControl with model values for the operators and the process ids. *)
EXTENDS ServiceControl

CONSTANTS alice, bob, p1, p2, p3

OneOperator == {alice}
TwoOperators == {alice, bob}
MCPid == {p1, p2, p3}

=============================================================================
