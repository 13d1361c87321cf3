\* The socket of the updater thread is never closed.
SPECIFICATION FairSpec
CONSTANTS
  LinesPerUpdate = 2
  HWM = 2
  BufferSize = 2
  PipeSize = 1
  MaxMessages = 1
  UpdateMayRaise = FALSE
PROPERTIES
  ShutdownCompletes
CHECK_DEADLOCK FALSE
