SPECIFICATION Spec
CONSTANTS
  worker1 = worker1
  worker2 = worker2
  Workers <- TwoWorkers
  NoWorker = NoWorker
  TicksPerDay = 2
  DaysPerWeek = 2
  DayOffset = 1
  MinHandoffs = 1
  Delay = 1
  Horizon = 7
  MaxHandoffs = 3
  MaxFaults = 1
SYMMETRY WorkerSymmetry
INVARIANTS
  TypeOK
  SummariesDoNotOverlap
PROPERTY
  NoHandoffIsLost
CHECK_DEADLOCK FALSE
