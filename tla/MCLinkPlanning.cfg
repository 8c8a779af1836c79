SPECIFICATION PlanSpec
CONSTANTS
  v1 = v1
  v2 = v2
  s1 = s1
  s2 = s2
  Variants <- VS
  SourceOf <- SrcOf
  Cases <- Families
INVARIANTS
  ScanIsTrue
  PlansAreTrue
  SuccessIsTrue
  OffersMatchPlans
PROPERTIES
  LabelsAreTrue
CHECK_DEADLOCK FALSE
