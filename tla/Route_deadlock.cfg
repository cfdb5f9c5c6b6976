\* One symbol, one fault and one rotation.
SPECIFICATION FairSpec
CONSTANTS
  Symbols = {a}
  Instruments = {a}
  Targets = {}
  LivenessTimeout = 1
  RefreshLimit = 1
  MaxTime = 2
  MaxFaults = 1
  MaxUpdates = 0
  MaxRotations = 1
CHECK_DEADLOCK FALSE
PROPERTY RouteRecovers
