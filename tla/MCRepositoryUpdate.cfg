SPECIFICATION UpdateSpec
CONSTANTS
  Names <- MCNames
  Slots <- MCSlots
  RowOf <- MCRowOf
  Situations <- MCSituations
  MaxOthers = 2
INVARIANTS
  PlansAreKept
  WhatChangedWasStated
  ChecksKeepToTheirWord
CHECK_DEADLOCK FALSE
