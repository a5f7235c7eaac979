SPECIFICATION Spec
CONSTANTS
  Commands <- MCCommands
  MaxAttempts = 2
CHECK_DEADLOCK FALSE
INVARIANTS
  SettingsSurvive
  PortalReleased
