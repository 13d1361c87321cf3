\* Two nodes, a second child, rings that wrap round.
CONSTANTS
  Node = {n1, n2}
  Instance = {i1}
  Slots = 2
  PipeSize = 1
  Offsets <- ClockOffsets
  MaxChildren = 2
  MaxReports = 3
  MaxNow = 3
  Back = 1
SPECIFICATION Spec
INVARIANTS TypeOK RaisesOnlyAfterTrouble EmptyIsBeingMade
PROPERTIES PointsAreKept ShowsLatestOfFile
SYMMETRY Symmetry
CHECK_DEADLOCK FALSE
