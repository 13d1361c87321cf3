\* Calls that may fail and a clock that may be set back.
SPECIFICATION Spec
CONSTANTS
  M = 5
  NsPerSec = 2
  Garbage <- MCGarbage
  Driven = {"cpuTime", "rd_req"}
  MaxCount = 2
  MaxNow = 2
  CallsMayFail = TRUE
  ClockMayStep = TRUE
INVARIANTS
  TypeOK
  ReportsAddUp
  ElapsedAddsUp
  CpuTimeFitsInterval
CHECK_DEADLOCK FALSE
