SPECIFICATION Spec
CONSTANTS
  Old = Old
  New = New
  Nothing = Nothing
  lookalikeOld = lookalikeOld
  lookalikeNew = lookalikeNew
  foreignLink = foreignLink
  directory = directory
  Strangers <- MCStrangers
  StrangerText <- MCStrangerText
INVARIANTS
  ArrivalsSurvive
  ResidueIsReported
PROPERTIES
  Refines
