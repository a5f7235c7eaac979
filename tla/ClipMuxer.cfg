SPECIFICATION FairSpec
CONSTANTS
  Writers = {"daemon", "command"}
  Calls <- MCCalls
  LongClip = 2
  MaxKills = 1
CHECK_DEADLOCK FALSE
INVARIANTS
  TypeOK
  PublishedIsRequested
  NothingLeftBehind
PROPERTIES
  WriterReturns
