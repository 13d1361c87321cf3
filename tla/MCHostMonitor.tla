--------------------------- MODULE MCHostMonitor ----------------------------
(***************************************************************************)
(* HostMonitor on small instances.  Ids 0, 1, 2 and 3; id 0 is domain 0,   *)
(* and ids 1 and 3 are two boots of the same instance.                     *)
(***************************************************************************)
EXTENDS HostMonitor

CONSTANTS host, guest1, guest2

MCDomainID == 0..3
MCInstance == {host, guest1, guest2}
MCUuid == [d \in MCDomainID |-> CASE d = 0 -> host
                                  [] d \in {1, 3} -> guest1
                                  [] d = 2 -> guest2]

=============================================================================
