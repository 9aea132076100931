CONSTANTS
  t1 = t1
  t2 = t2
  p1 = p1
  p2 = p2
  Row = {1}
  Thread = {t1, t2}
  Process = {p1}
  ProcessOf <- OneProcess
  Limit = 2
  ChunksOf <- OneChunk
  MaxTry = 3
  MaxFault = 1
SPECIFICATION Spec
INVARIANT
  DoneMeansEventsProduced
