SPECIFICATION ShellSpec
CONSTANTS
  Lengths <- MCLengths
  Heights <- MCHeights
PROPERTIES
  ConfirmedWasRead
CHECK_DEADLOCK FALSE
