SPECIFICATION FairSpec
CONSTANTS
  request = request
  request2 = request2
  worker = worker
  Sessions <- OneWorker
  Background <- OneWorker
  Threshold = 1
  MaxItems = 2
  MaxRows = 3
  MaxRemembered = 3
  MaxMemories = 2
  MaxBatch = 2
INVARIANTS
  LaterMemoriesAreCounted
PROPERTIES
  HonestPruneKeepsHalf
  PruneOnlyShown
  DueIsReflected
CHECK_DEADLOCK FALSE
