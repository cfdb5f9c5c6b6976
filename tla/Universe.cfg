\* Three days, with crashes, overrides and a full disk.
SPECIFICATION Spec
CONSTANTS
  Symbols = {1, 2, 3, 4, 5}
  CoreSize = 1
  BucketSize = 1
  EntryRank = 1
  RetainRank = 2
  BoundaryRetainRank = 1
  WeeklyReplacements = 1
  DailyReplacements = 2
  CandidateDwell = 6
  CoreDwell = 6
  Bootstrap <- MCBootstrap
  Evidences <- MCEvidences
  Proposals <- MCProposals
  Week = 2
  Automation = TRUE
  MaxDay = 2
  MaxFaults = 2

  
PROPERTIES
  ReadsWhatWasCollected
  CandidatesDwell
CHECK_DEADLOCK FALSE
