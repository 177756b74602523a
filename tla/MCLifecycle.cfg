SPECIFICATION FairSpec
CONSTANTS
  d = d
  k = k
  x = x
  NULL = NULL
  Procs = {d, k, x}
  Options <- MCOptions
  Loads <- MCLoads
  MaxKills = 1
INVARIANTS
  FileIsDaemons
  UnmappedUnused
PROPERTIES
  StopEffective
  ForegroundEnds
CHECK_DEADLOCK FALSE
