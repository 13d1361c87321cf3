\* One operator; the service crashes and leaves its pid file.
SPECIFICATION Spec
CONSTANTS
  alice = alice
  bob = bob
  p1 = p1
  p2 = p2
  p3 = p3
  Operator <- OneOperator
  Pid <- MCPid
  ServiceMayCrash = TRUE
PROPERTIES
  StopAlwaysMakesWay
