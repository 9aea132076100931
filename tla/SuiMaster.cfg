CONSTANTS
  m1 = m1
  m2 = m2
  t1 = t1
  t2 = t2
  Master = {m1, m2}
  MaxBlock = 4
  Delay = 1
  ChunkSize = 2
  NumWorkers = 2
  MaxFault = 2
  WorkerThread = {t1, t2}
  PageLimit = 2
  Poison = {1}
SPECIFICATION MCSpec
INVARIANTS
  TableTypeOK
  HolesExplained
  DelayKept
  CopiesBounded
PROPERTY
  SavedAndIndexed
