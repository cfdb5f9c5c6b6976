\* Everything is delivered once the faults are over, and every day as a whole.
SPECIFICATION FairSpec
CONSTANTS
  DataChunks = {d1}
  GapChunks = {}
  RollChunks = {}
  LateChunks = {}
  DayOf <- MCDayOf
  MaxDay = 2
  MaxFaults = 2
  BootSpansMidnight = FALSE
INVARIANTS
  SealedInventoryComplete
  PublishedDayIsWhole
PROPERTIES
  BacklogDrains
  PastDayArrives
