SPECIFICATION SafeSpec
CONSTANTS
  NULL = NULL
  w1 = w1
  w2 = w2
  m1 = m1
  m2 = m2
  m3 = m3
  t1 = t1
  t2 = t2
  u1 = u1
  u2 = u2
  s1 = s1
  SimCalls = 2
  Workers <- MCWorkers
  MyCC <- MCWorkers
  DbWorkers <- MCWorkers
  Maxsecs <- MCMaxsecs
  Terms <- MCTerms
  Uids <- MCUids
  MaxUid <- MCMaxUid
  TermUid <- MCTermUid
  NormalClear <- MCTerms
  Billed <- MCTerms
  Subscribers <- MCSubscribers
  Clg <- MCClg
  CallNumber <- MCCallNumber
PROPERTIES
  HeldUntilTerm
