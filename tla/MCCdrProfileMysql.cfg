SPECIFICATION Spec
CONSTANTS
  Calls = {}
  Stores = {"mysql"}
  MaxFaults = 0
  NumFilters = 2
INVARIANT RegisteredWhole
CHECK_DEADLOCK FALSE
