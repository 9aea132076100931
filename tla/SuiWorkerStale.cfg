CONSTANTS
  t1 = t1
  t2 = t2
  p1 = p1
  p2 = p2
  Row = {2}
  Thread = {t1, t2}
  Process = {p1, p2}
  ProcessOf <- TwoProcesses
  Limit = 1
  ChunksOf <- UnevenChunks
  MaxTry = 5
  MaxFault = 2
SPECIFICATION Spec
INVARIANTS
  ClaimExclusive
  LockProtectsClaim
  DoneMeansProduced
  EventsLostOnlyToCache
  RetriesBounded
