SPECIFICATION LiveSpec
CONSTANTS
  w1 = w1
  w2 = w2
  None = None
  Workers <- MCWorkers
INVARIANTS
  SignalsReachOwnChild
  NoChildOutlivesItsWorker
  CancellationWins
PROPERTIES
  CancelledRunsEnd
\* The application may have been closed.
CHECK_DEADLOCK FALSE
