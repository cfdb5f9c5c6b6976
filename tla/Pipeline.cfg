\* A depth update and a snapshot around midnight, with a disk error.
SPECIFICATION FairSpec
CONSTANTS
  depth = depth
  metadata = metadata
  Groups = {depth, metadata}
  Critical = {depth}
  Control = metadata
  Events = {e1, e2}
  Depths = {e1, e2}
  Slow = {e2}
  GroupOf <- MCGroupOf
  BootMark = m0
  DayMark = m1
  MaxBytes = 2
  ResumeBytes = 1
  BatchEvents = 2
  MaxEvents = 2
  DayLength = 1
  MaxTime = 1
  MaxFaults = 1
CHECK_DEADLOCK FALSE
INVARIANTS
  ChunkKeepsContract
  WatermarkCoversLoss
  CleanMeansComplete
  
PROPERTIES
  AdmittedIsRecorded
  OverloadEnds
  BoundaryEnds
