CONSTANTS
  t1 = t1
  t2 = t2
  Thread = {t1}
  Row = {1, 2}
  Limit = 2
  ChunksOf <- TwoAndNone
  Large = {1}
  Capacity = 1
  Workers = 2
  MaxTry = 3
  MaxFault = 1
SPECIFICATION FairSpec
INVARIANTS
  TypeOK
  ChannelsKept
  DoneMeansObjects
PROPERTIES
  EventuallyDone
  ShutdownEndsOrHangs
