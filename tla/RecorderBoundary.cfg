SPECIFICATION Spec
CONSTANTS
  Requests <- MCOne
  ClipLength = 2
  BufferSafety = 1
  RetentionSlack = 3
  BoundaryWait = 3
  FallbackWait = 2
  MaxSegment = 2
  MaxPending = 1
  MaxBus = 2
  Word = 16
  MaxTime = 6
CHECK_DEADLOCK FALSE
INVARIANT ClipEndsAtBoundary
