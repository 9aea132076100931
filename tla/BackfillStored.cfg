CONSTANTS
  t1 = t1
  t2 = t2
  Thread = {t1}
  Row = {1}
  Limit = 2
  ChunksOf <- TwoChunks
  Large = {}
  Capacity = 1
  Workers = 2
  MaxTry = 3
  MaxFault = 0
SPECIFICATION Spec
INVARIANTS
  DoneMeansStored
