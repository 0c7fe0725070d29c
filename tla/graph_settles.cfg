SPECIFICATION FairSpec
CONSTANTS
  w1 = w1
  w2 = w2
  alice = alice
  acme = acme
  team = team
  Workers = {w1, w2}
  MaxRows = 2
  Org = {}
  ShortTerm = {1}
  Nodes = {alice, acme}
  Lists <- Circles2
  MergeEvery = 3
  BatchLimit = 2
  MaxFaults = 1
INVARIANTS
  GraphedIsLinked
  ForgetCleansNodes
PROPERTIES
  RowsAreGraphed
  ForgetsEnd
CHECK_DEADLOCK FALSE
