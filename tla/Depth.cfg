\* Bootstrap, reanchor and refresh of one depth stream.
SPECIFICATION FairSpec
CONSTANTS
  MaxBuffer = 2
  Attempts = 2
  MaxId = 4
  MaxLosses = 2
  MaxFaults = 1
  MaxRefreshes = 1
INVARIANTS
  BridgeIsSound
  SuppressionHasOwner
PROPERTIES
  GapClosedAfterBridge
  
\* The exchange may fall silent for good.
CHECK_DEADLOCK FALSE
