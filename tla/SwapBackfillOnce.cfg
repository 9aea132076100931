CONSTANTS
  Topic <- ShortTopic
  File <- ShortFile
  First = 1
  Checkpoint = 6
  BackfillBatch = 2
  MaxFetch = 2
  MaxFault = 0
SPECIFICATION Spec
INVARIANT
  BackfilledOnce
