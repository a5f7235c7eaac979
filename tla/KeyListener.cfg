SPECIFICATION FairSpec
CONSTANTS
  Devices = {"left", "right"}
  Keys = {"leftctrl", "rightctrl", "f", "g"}
  Keybinds = {"save", "stop"}
  Exposes <- MCExposes
  Configs <- MCConfigs
  Debounce = 1
  RetryInterval = 1
  MaxKeyEvents = 3
  MaxPlugs = 1
CHECK_DEADLOCK FALSE
INVARIANTS
  TypeOK
  NoPhantomKeys
PROPERTIES
  ExactlyBrokenRemoved
  ReportedOncePerPress
  AttachedIsOpened
