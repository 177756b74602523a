SPECIFICATION FairSpec
CONSTANTS
  Engines = {"pgsql", "mysql", "duckdb", "redis", "mongodb"}
  Retries = 5
  CheckRetries = 2
  MaxOps = 4
  MaxOutages = 2
  MaxRefused = 2
INVARIANTS
  OwnAnswer
PROPERTIES
  CommandReturns
CHECK_DEADLOCK FALSE
