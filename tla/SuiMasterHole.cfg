CONSTANTS
  Master = {m1}
  MaxBlock = 3
  Delay = 1
  ChunkSize = 1
  NumWorkers = 2
  MaxFault = 1
SPECIFICATION FairSpec
PROPERTY
  EveryCheckpointSaved
