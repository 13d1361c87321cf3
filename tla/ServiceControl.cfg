\* Two operators, either service, crashes.
SPECIFICATION Spec
CONSTANTS
  alice = alice
  bob = bob
  p1 = p1
  p2 = p2
  p3 = p3
  Operator <- TwoOperators
  Pid <- MCPid
  ServiceMayCrash = TRUE
INVARIANTS
  TypeOK
  ServesOnce
  NoOrphan
  StopHitsService
  NeverLeftEmpty
PROPERTIES
  StopMakesWay
