\* One question or permission.
CONSTANTS
  MaxPrompts = 1
  MaxCalls = 0
  MaxForeign = 0
  MaxTexts = 0
  MaxRequests = 1
  MaxMisses = 0
  Calls = {}
SPECIFICATION Spec
INVARIANTS BlockedMeansPending
CHECK_DEADLOCK FALSE
