SPECIFICATION FairSpec
CONSTANTS
  Capacity = 2
  MaxSaves = 2
  MaxChooses = 1
  MaxPresses = 1
CHECK_DEADLOCK FALSE
INVARIANTS
  TypeOK
  ShutdownOrder
  EarlierSavesAreServed
PROPERTIES
  SaveSignalIsServed
  EndedWindowStops
  ShutdownCompletes
