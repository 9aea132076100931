CONSTANTS
  Topic <- UnsortedTopic
  File <- UnsortedFile
  First = 1
  Checkpoint = 6
  BackfillBatch = 2
  MaxFetch = 2
  MaxFault = 2
SPECIFICATION FairSpec
INVARIANTS
  TypeOK
  CopiesExplained
  LossesExplained
PROPERTY
  EventuallyPassed ImplementsConsumer
