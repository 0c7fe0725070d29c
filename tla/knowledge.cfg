SPECIFICATION FairSpec
CONSTANTS
  q1 = q1
  q2 = q2
  readme = readme
  notes = notes
  Requests = {q1, q2}
  Sources = {readme, notes}
  Documents <- TwoSources
  Size <- Paragraphs
  MinSize = 2
  MaxSize = 4
INVARIANTS
  TypeOK
  EmbeddingIsOfText
  SourcesAreWhole
PROPERTIES
  ImplementsRegister
  RequestsEnd
CHECK_DEADLOCK FALSE
