SPECIFICATION Spec
CONSTANTS
  q1 = q1
  q2 = q2
  readme = readme
  notes = notes
  Requests = {q1}
  Sources = {readme}
  Documents <- OneSource
  Size <- Paragraphs
  MinSize = 2
  MaxSize = 4
PROPERTY
  ReingestKeepsEmbeddings
CHECK_DEADLOCK FALSE
