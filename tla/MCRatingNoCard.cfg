SPECIFICATION Spec
CONSTANTS
  NULL = NULL
  a1 = a1
  a2 = a2
  Cdrs <- MCCdrs
  Accs <- MCAccs
  Acc <- MCAcc
  Billsec <- MCBillsec
  Online <- MCNone
  Skipped <- MCNone
  NoRate <- MCNone
  Carded <- MCNone
  Blockable <- MCNone
  Flaky <- MCNone
  NumThreads = 2
  BatchLimit = 2
  Limit = 0
  Delta = 1
  MaxCrashes = 0
  MaxFreeRows = 2
PROPERTIES
  BacklogDrained
CHECK_DEADLOCK FALSE
