SPECIFICATION FairSpec
CONSTANTS
  x = x
  y = y
  Cdrs = {1, 2, 3}
  Legs <- MCBothLegs
  Accounts = {x, y}
  Owner <- MCOwner
  FreeCdrs = {1}
  SplitCdrs = {2}
  Cached = TRUE
  Limit = 2
  RefreshEvery = 2
  Faults = {"stmt", "late", "crash"}
  MaxFaults = 2
INVARIANTS
  RatingWithLeg
  NoOvercharge
PROPERTIES
  OutcomeFinal
  NeverBuried
  BacklogDrains
CHECK_DEADLOCK FALSE
