\* Two days, one crash or stop, one full disk.
SPECIFICATION Spec
CONSTANTS
  Gaps = {g1, g2, g3, g4, g5}
  SourceGaps = {g1}
  DayLength = 8
  MaxDay = 1
  Grace = 3
  MaxCrashes = 1
  MaxFull = 1
CHECK_DEADLOCK FALSE
INVARIANTS
  NoUnderReport
  
  
