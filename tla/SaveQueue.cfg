SPECIFICATION FairSpec
CONSTANTS
  c1 = c1
  c2 = c2
  Callers <- MCCallers
  Capacity = 2
  Debounce = 1
  MaxCalls = 3
  MaxTime = 1
INVARIANTS
  TypeOK
  WithinCapacity
  ServedInOrder
  NoRequestLost
  KeybindsSpaced
  NoSaveAfterStop
  IInv
PROPERTIES
  DebouncedByAccepted
  AcceptedIsServed
  StopReturns
  ImplementsQueue
