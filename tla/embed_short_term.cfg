SPECIFICATION Spec
CONSTANTS
  w1 = w1
  w2 = w2
  Workers <- OneWorker
  ShortTerm <- LastRow
  MaxRows = 2
  BatchSize = 1
  MaxAttempts = 2
  TopN = 1
INVARIANT
  ShortTermIsNotEmbedded
CHECK_DEADLOCK FALSE
