SPECIFICATION Spec
CONSTANTS
  s1 = s1
  s2 = s2
  c1 = c1
  c2 = c2
  c3 = c3
  NoRow = NoRow
  Screens <- OneScreen
  Commands <- OneCommand
  MaxRevision = 2
  MaxGeneration = 4
  MaxBatch = 2
  Floors = {1}
PROPERTIES
  LaterAnswersStay
\* The generations are used up.
CHECK_DEADLOCK FALSE
