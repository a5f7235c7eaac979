SPECIFICATION Spec
CONSTANTS
  Capacity = 2
  MaxSaves = 1
  MaxChooses = 1
  MaxPresses = 2
CHECK_DEADLOCK FALSE
INVARIANT ReselectionWaitsForSave
