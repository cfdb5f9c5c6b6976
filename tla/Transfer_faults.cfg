\* One data chunk with up to three faults, and boots that span midnight.
SPECIFICATION Spec
CONSTANTS
  DataChunks = {d1}
  GapChunks = {}
  RollChunks = {}
  LateChunks = {}
  DayOf <- MCDayOf
  MaxDay = 2
  MaxFaults = 3
  BootSpansMidnight = TRUE
INVARIANTS
  IInv
  AuthorityIsDurable
  NoLoss
  DownloadsStillOnEdge
PROPERTY
  GenuineAckHonoured
