SPECIFICATION SafeSpec
CONSTANTS
  NULL = NULL
  a1 = a1
  a2 = a2
  Cdrs <- MCCdrs
  Accs <- MCAccs
  Acc <- MCAcc
  Billsec <- MCBillsec
  Online <- MCFirst
  Skipped <- MCNone
  NoRate <- MCNone
  Carded <- MCAccs
  Blockable <- MCAccs
  Flaky <- MCSecond
  NumThreads = 2
  BatchLimit = 2
  Limit = 2
  Delta = 1
  MaxCrashes = 0
  MaxFreeRows = 2
INVARIANTS
  OneRowPerCall
  ChargedOnce
  SharesDisjoint
  BilledOrFree
CHECK_DEADLOCK FALSE
