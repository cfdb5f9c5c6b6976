\* Two public routes, four members; a failed update, and a storage stop over the second boundary.
SPECIFICATION Spec
CONSTANTS
  Symbols = {1, 2, 3, 4, 5}
  Count = 2
  Members = {1, 2, 3, 4}
  Universes = {{1, 2, 3, 5}, {2, 3, 4, 5}, {1, 2, 3, 4}}
  Tables <- MCTables
  MaxDay = 2
  MaxFailures = 1
  MaxRebalances = 0
  MaxStops = 1
CHECK_DEADLOCK FALSE
INVARIANT UnmarkedAreCollected
