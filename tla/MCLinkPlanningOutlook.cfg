SPECIFICATION PlanSpec
CONSTANTS
  v1 = v1
  v2 = v2
  s1 = s1
  s2 = s2
  Variants <- VS
  SourceOf <- SrcOf
  Cases <- Families
INVARIANTS
  PredictionsAreKept
CHECK_DEADLOCK FALSE
