SPECIFICATION Spec
CONSTANTS
  f1 = f1
  f2 = f2
  c1 = c1
  c2 = c2
  bad = bad
  Calls = {c1, c2}
  Stores = {"pgsql"}
  MaxFaults = 1
  Files = {f1, f2}
  NameOf <- MCNameOf
  Content <- MCContent
  BadRow = bad
  SchedTs = 0
  Day = 3
  Margin = 2
  MaxsecLimit = 1
  Remote = {c2}
  Delay = 1
  Interval = 1
  NumFilters = 0
  MaxTime = 0
  Profiles <- MCProfiles
INVARIANTS
  MovedIsStored
  RatedOnce
CHECK_DEADLOCK FALSE
PROPERTIES
  FilesMoved
