SPECIFICATION FairShell
CONSTANTS
  Lengths <- MCLengths
  Heights <- MCHeights
INVARIANTS
  KeyboardIsOnScreen
  WritesAreReported
PROPERTIES
  ConfirmedWasShown
  AnswersMeetTheirQuestion
  AppliesEnd
CHECK_DEADLOCK FALSE
