\* A collector that comes and goes, interrupts and exceptions.
SPECIFICATION FairSpec
CONSTANTS
  HWM = 2
  MaxMessages = 5
INVARIANTS
  TypeOK
  RelayOrdered
  AtMostOneMore
PROPERTIES
  DropsHaveACause
  InterruptIsHonoured
  ShutdownEnds
CHECK_DEADLOCK FALSE
