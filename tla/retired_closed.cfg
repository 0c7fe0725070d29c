SPECIFICATION Spec
CONSTANTS
  request = request
  request2 = request2
  worker = worker
  Sessions <- OneRequest
  Background <- NoWorker
  Threshold = 1
  MaxItems = 2
  MaxRows = 2
  MaxRemembered = 0
  MaxMemories = 0
  MaxBatch = 2
INVARIANT
  RetiredIsClosed
