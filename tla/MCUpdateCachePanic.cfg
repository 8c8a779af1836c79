SPECIFICATION Spec
CONSTANTS
  s1 = s1
  s2 = s2
  c1 = c1
  c2 = c2
  c3 = c3
  NoRow = NoRow
  Screens <- NoProcess
  Commands <- OneCommand
  MaxRevision = 2
  MaxGeneration = 2
  MaxBatch = 1
  Floors = {1}
INVARIANT PlansKeepTheirSource
\* The generations are used up.
CHECK_DEADLOCK FALSE
