\* The bounds are the scenarios' largest; a session that was shut down stops.
CONSTANTS
  MaxPrompts = 2
  MaxCalls = 4
  MaxForeign = 1
  MaxTexts = 2
  MaxRequests = 2
  MaxMisses = 1
  MaxConnections = 2
  Calls = {"Interrupt", "Answer", "IsBusy", "IsBlocked"}
SPECIFICATION MCSpec
INVARIANTS QueueOnlyBehindATurn CancelsCounted PromptsPostedInOrder UpdatesAreTheAgents BlockedHasARequest BlockedReachesServer
CHECK_DEADLOCK FALSE
