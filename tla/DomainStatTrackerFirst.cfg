\* The first update, as the comment in update() has it.
SPECIFICATION Spec
CONSTANTS
  M = 5
  NsPerSec = 2
  Garbage <- TwoGarbage
  Driven = {}
  MaxCount = 1
  MaxNow = 1
  CallsMayFail = FALSE
  ClockMayStep = FALSE
INVARIANTS
  FirstReportIsEmpty
CHECK_DEADLOCK FALSE
