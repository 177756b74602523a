SPECIFICATION Spec
CONSTANTS
  f1 = f1
  f2 = f2
  c1 = c1
  c2 = c2
  bad = bad
  Calls = {c2}
  Stores = {"pgsql"}
  MaxFaults = 1
  Files = {}
  NameOf <- MCNone
  Content <- MCNone
  BadRow = bad
  SchedTs = 0
  Day = 6
  Margin = 3
  MaxsecLimit = 1
  Remote = {c2}
  Delay = 1
  Interval = 1
  NumFilters = 2
  MaxTime = 18
  Profiles <- MCProfilesDb
INVARIANTS
  CaughtUp
  RegisteredWhole
CHECK_DEADLOCK FALSE
