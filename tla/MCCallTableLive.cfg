SPECIFICATION Spec
CONSTANTS
  NULL = NULL
  w1 = w1
  w2 = w2
  m1 = m1
  m2 = m2
  m3 = m3
  t1 = t1
  t2 = t2
  u1 = u1
  u2 = u2
  s1 = s1
  SimCalls = 1
  Workers <- MCWorkers
  MyCC <- MCFirstWorker
  DbWorkers <- MCFirstWorker
  Maxsecs <- MCMaxsecsLive
  Terms <- MCTerms
  Uids <- MCUids
  MaxUid <- MCMaxUidLive
  TermUid <- MCTermUidLive
  NormalClear <- MCTerms
  Billed <- MCFirstTerm
  Subscribers <- MCSubscribers
  Clg <- MCClg
  CallNumber <- MCCallNumberLive
INVARIANTS
  GrantedIsHeld
PROPERTIES
  SlotEventuallyReleased
