\* Two connections, two gaps, two days of three moments.
SPECIFICATION Spec
CONSTANTS
  Connections = {c1, c2}
  Gaps = {g1, g2}
  Log <- MCLog
  MaxBuffer = 8
  Ticks = 3
  MaxDay = 1
  FormalStart = 1
  RatioOver = 1
  RatioUnder = 2
  MaxFaults = 2
  MaxSnapshots = 2
SYMMETRY MCSymmetry
CHECK_DEADLOCK FALSE
INVARIANTS
  BookIsExact
  ValidTimeIsTrue
  CoverageIsExact
PROPERTIES
  
  CheckpointIsEnough
  ProcessedDayIsTrue
