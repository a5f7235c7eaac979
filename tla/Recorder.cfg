SPECIFICATION Spec
CONSTANTS
  Requests <- MCTwo
  ClipLength = 2
  BufferSafety = 1
  RetentionSlack = 0
  BoundaryWait = 1
  FallbackWait = 1
  MaxSegment = 2
  MaxPending = 1
  MaxBus = 1
  Word = 16
  MaxTime = 5
CHECK_DEADLOCK FALSE
INVARIANTS
  TypeOK
  SelectedStayOnDisk
  ClipIsRequestedWindow
  CutoffsAreOutstanding
  NoOrphanFiles
PROPERTIES
  RetentionBounded
