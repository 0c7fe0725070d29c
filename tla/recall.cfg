SPECIFICATION Spec
CONSTANTS
  model = model
  lesson = lesson
  episode = episode
  note = note
  chunk = chunk
  scratch = scratch
  order1 = order1
  order2 = order2
  call1 = call1
  Calls = {call1}
  Requests <- OneOfMixed
  Private <- FourRows
  Org = {note}
  Chunks = {chunk}
  Type <- TypeOf
  Consolidated = {model, lesson}
  Weight <- WeightOf
  Length <- LengthOf
  Readable = {chunk, note}
  ThenValid = {model, episode}
  Links <- LinkPairs
  NoRow = NoRow
  NoOrder = NoOrder
  Unset = Unset
  Orders = {order1, order2}
  TopImportance = 2
  RrfK = 1
  MaxDiverse = 4
  MaxFound = 2
  TopSources = 2
  PerSource = 1
  MaxConfidence = 3
  DefaultBudget = 2
  ContextLimit = 2
  MaxCount = 2
  FirstCount <- Counted
  FirstReads <- ReadBefore
  MaxReports = 2
  MaxChanges = 1
  MaxNamed = 2
INVARIANTS
  TypeOK
  CountsAreAnswers
  DecayIsReported
PROPERTIES
  AnswersWereEligible
  MemoriesAnsweredOnce
  FusionRespectsLists
  RerankLosesNothing
  BudgetsKeepTheBest
CHECK_DEADLOCK FALSE
