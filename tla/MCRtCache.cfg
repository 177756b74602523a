SPECIFICATION Spec
CONSTANTS
  Workers = {w1, w2}
  Lookups <- MCLookups
  Needs <- MCNeeds
  Values = {v1}
  None = None
  TTL = 1
  Slow = 1
  MaxTime = 3
  MaxChanges = 1
INVARIANTS
  StaleBounded
  CopiesLive
SYMMETRY Symmetry
CHECK_DEADLOCK FALSE
