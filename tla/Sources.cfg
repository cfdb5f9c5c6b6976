\* Two public routes, four members; one enters for another at a boundary.
SPECIFICATION FairSpec
CONSTANTS
  Symbols = {1, 2, 3, 4, 5}
  Count = 2
  Members = {1, 2, 3, 4}
  Universes = {{1, 2, 3, 5}, {2, 3, 4, 5}, {1, 2, 3, 4}}
  Tables <- MCTables
  MaxDay = 1
  MaxFailures = 2
  MaxRebalances = 2
  MaxStops = 1
CHECK_DEADLOCK FALSE
INVARIANTS
  UnmarkedAreCollected
PROPERTIES
  MovesAreJustified
  
