SPECIFICATION Spec
CONSTANTS
  Callers <- MCListener
  Capacity = 2
  Debounce = 1
  MaxCalls = 1
  MaxTime = 4
  ClipLength = 1
  BufferSafety = 1
  RetentionSlack = 0
  BoundaryWait = 1
  FallbackWait = 1
  MaxSegment = 1
  MaxPending = 1
  MaxBus = 2
  Word = 16
CHECK_DEADLOCK FALSE
PROPERTIES
  BufferIsBounded
