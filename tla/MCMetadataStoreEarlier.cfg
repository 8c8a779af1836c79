SPECIFICATION Spec
CONSTANTS
  p1 = p1
  p2 = p2
  original = original
  clone = clone
  unrelated = unrelated
  Nobody = Nobody
  None = None
  Procs <- MCProcs
  Newest = 3
  Destructive <- MCDestructive
  Identified = 3
  Checkouts <- MCCheckouts
  Holds <- MCHolds
  MaxId = 2
SYMMETRY Symmetry
PROPERTY BackupIsWhole
CHECK_DEADLOCK FALSE
