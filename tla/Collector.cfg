\* Safety and liveness, with a child that may die.
SPECIFICATION FairSpec
CONSTANTS
  LinesPerUpdate = 2
  HWM = 2
  BufferSize = 3
  PipeSize = 1
  MaxMessages = 4
  UpdateMayRaise = TRUE
INVARIANTS
  TypeOK
  PipelineOrdered
  OnlyNoticesLinger
PROPERTIES
  LossesHaveACause
  UpdatesAreWritten
  JoinReturns
  DeadChildIsNoticed
CHECK_DEADLOCK FALSE
