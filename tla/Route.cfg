\* One symbol and one that comes and goes, one fault.
SPECIFICATION Spec
CONSTANTS
  Symbols = {a, b}
  Instruments = {a}
  Targets = {{b}, {a, b}}
  LivenessTimeout = 2
  RefreshLimit = 1
  MaxTime = 3
  MaxFaults = 1
  MaxUpdates = 1
  MaxRotations = 1
CHECK_DEADLOCK FALSE
INVARIANTS
  OutageIsCovered
  SubscriptionsAgree
