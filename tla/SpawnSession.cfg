\* The bounds are the scenarios' largest; a session that was shut down stops.
CONSTANTS
  MaxPrompts = 3
  MaxCalls = 2
  MaxUpdates = 1
  Calls = {"Interrupt", "Answer", "IsBusy", "IsBlocked"}
SPECIFICATION MCSpec
INVARIANTS OneTurnAtATime QueueOnlyBehindATurn BusyMeansATurn EventsInTurnOrder
PROPERTIES LedgerSpec NoTurnInFlightIsTrue NobodyWaitsForEver ResponsiveAgentIsReached
CHECK_DEADLOCK FALSE
