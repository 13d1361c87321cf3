\* An instance that moves, and a ring that holds more than is looked at.
CONSTANTS
  Node = {n1, n2}
  Instance = {i1}
  Slots = 3
  PipeSize = 1
  Offsets <- ClockOffsets
  MaxChildren = 1
  MaxReports = 2
  MaxNow = 3
  Back = 2
SPECIFICATION Spec
PROPERTY ShowsLatestOfInstance
CHECK_DEADLOCK FALSE
