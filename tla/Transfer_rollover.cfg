\* A rollover fact that crashes make the collector publish again.
SPECIFICATION Spec
CONSTANTS
  DataChunks = {}
  GapChunks = {}
  RollChunks = {r1}
  LateChunks = {}
  DayOf <- MCDayOf
  MaxDay = 2
  MaxFaults = 2
  BootSpansMidnight = TRUE
INVARIANTS
  NoTransactionConflict
PROPERTIES
  RawIsImmutable
  ImplementsHandoff
