SPECIFICATION Spec
CONSTANTS
  w1 = w1
  w2 = w2
  alice = alice
  acme = acme
  team = team
  Workers = {w1, w2}
  MaxRows = 3
  Org = {3}
  ShortTerm = {1}
  Nodes = {alice, acme, team}
  Lists <- Lists3
  MergeEvery = 2
  BatchLimit = 1
  MaxFaults = 0
INVARIANTS
  TypeOK
  GraphedIsLinked
  LinkedHasSummary
  ForgetCleansNodes
  MergedOnce
SYMMETRY WorkerSymmetry
CHECK_DEADLOCK FALSE
