\* The bounds are the scenarios' largest; a session that was shut down stops.
CONSTANTS
  MaxPrompts = 2
  MaxCalls = 1
  MaxForeign = 0
  MaxTexts = 0
  MaxRequests = 2
  MaxMisses = 1
  Calls = {"Interrupt", "Answer"}
SPECIFICATION MCSpec
PROPERTIES NobodyWaitsForEver ServedSessionGoesOn
CHECK_DEADLOCK FALSE
