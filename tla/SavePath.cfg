SPECIFICATION FairSpec
CONSTANTS
  Callers <- MCListener
  Capacity = 2
  Debounce = 1
  MaxCalls = 2
  MaxTime = 1
  ClipLength = 1
  BufferSafety = 1
  RetentionSlack = 0
  BoundaryWait = 1
  FallbackWait = 1
  MaxSegment = 1
  MaxPending = 1
  MaxBus = 1
  Word = 16
CHECK_DEADLOCK FALSE
INVARIANTS
  AnsweredInOrder
  StopWaitsForSave
PROPERTIES
  AcceptedIsAnswered
