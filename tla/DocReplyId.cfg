CONSTANTS
  MaxPrompts = 2
  MaxCalls = 2
  MaxUpdates = 1
  MaxConnections = 1
  Calls = {"IsBusy", "IsBlocked"}
SPECIFICATION RelayedSpec
INVARIANTS ReplyIdIsItsPrompts
CHECK_DEADLOCK FALSE
