SPECIFICATION FairSpec
CONSTANTS
  w1 = w1
  w2 = w2
  Workers <- TwoWorkers
  ShortTerm <- LastRow
  MaxRows = 2
  BatchSize = 1
  MaxAttempts = 3
  TopN = 1
INVARIANTS
  TypeOK
  AttemptsBounded
  LinksAreSymmetric
  ForgetCleansLinks
PROPERTIES
  RowsSettle
CHECK_DEADLOCK FALSE
