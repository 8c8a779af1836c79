SPECIFICATION Spec
CONSTANTS
  a = a
  d = d
  x = x
  like = like
  unlike = unlike
  Nothing = Nothing
  Folder = Folder
  None = None
  Paths <- MCPaths
  Old <- MCOld
  New <- MCNew
  Under <- MCUnder
  Strangers <- MCStrangers
  StrangerText <- MCStrangerText
INVARIANTS
  NothingDestroyed
  ReportIsTrue
  RecordFollowsFiles
