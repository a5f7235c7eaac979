SPECIFICATION FairSpec
CONSTANTS
  Commands = {"first", "second", "third"}
  Ops <- MCOps
  None = None
  MaxCrashes = 1
CHECK_DEADLOCK FALSE
INVARIANTS
  DaemonIsReachable
PROPERTIES
  StopIsThorough
  CommandsReturn
