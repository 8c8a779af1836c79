SPECIFICATION ShellSpec
CONSTANTS
  Lengths <- MCLengths
  Heights <- MCHeights
PROPERTIES
  DegradedIsReadOnly
CHECK_DEADLOCK FALSE
