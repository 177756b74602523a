SPECIFICATION Spec
CONSTANTS
  d = d
  k = k
  x = x
  NULL = NULL
  Procs = {d, k, x}
  Options <- MCOptions
  Loads <- MCLoads
  MaxKills = 0
INVARIANT SingleInstance
CHECK_DEADLOCK FALSE
