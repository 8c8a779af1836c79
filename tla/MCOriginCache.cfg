SPECIFICATION LiveSpec
CONSTANTS
  p1 = p1
  p2 = p2
  c1 = c1
  c2 = c2
  pack = pack
  index = index
  None = None
  Foreign = Foreign
  Partial = Partial
  Piece = Piece
  Procs <- MCProcs
  Children <- MCChildren
  Entries <- MCEntries
  MaxGen = 3
INVARIANTS
  ActiveRepositoryIntact
  CrashResidueReclaimable
PROPERTIES
  NeverWaits
