SPECIFICATION Spec
CONSTANTS
  NULL = NULL
  Sentinel = Sentinel
  w1 = w1
  w2 = w2
  w3 = w3
  w4 = w4
  c1 = c1
  c2 = c2
  c3 = c3
  c4 = c4
  QCap = 2
  Workers <- MCWorkers
  NoBuffer <- MCNoBuffer
  Conns <- MCConns
  Silent <- MCSilent
INVARIANTS
  NoLostWakeup
  DrainedAtShutdown
PROPERTIES
  ServesInOrder
  TalkingServed
  ShutdownCompletes
CHECK_DEADLOCK FALSE
