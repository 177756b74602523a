SPECIFICATION Spec
CONSTANTS
  NULL = NULL
  a1 = a1
  a2 = a2
  Cdrs <- MCCdrsLive
  Accs <- MCAccsLive
  Acc <- MCAccLive
  Billsec <- MCBillsecLive
  Online <- MCNone
  Skipped <- MCThird
  NoRate <- MCFourth
  Carded <- MCAccsLive
  Blockable <- MCNone
  Flaky <- MCNone
  NumThreads = 2
  BatchLimit = 2
  Limit = 2
  Delta = 2
  MaxCrashes = 1
  MaxFreeRows = 2
PROPERTIES
  BacklogDrained
CHECK_DEADLOCK FALSE
