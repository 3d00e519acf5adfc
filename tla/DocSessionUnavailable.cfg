CONSTANTS
  MaxPrompts = 3
  MaxCalls = 1
  MaxUpdates = 0
  Calls = {"Interrupt"}
SPECIFICATION FairSpec
PROPERTIES NoSilentDrop
CHECK_DEADLOCK FALSE
