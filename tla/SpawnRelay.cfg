\* The bounds are the scenarios' largest; a session that was shut down stops.
CONSTANTS
  MaxPrompts = 2
  MaxCalls = 4
  MaxUpdates = 2
  MaxConnections = 2
  Calls <- RelayCalls
SPECIFICATION MCSpec
INVARIANTS NoChunkLostWhileLive NothingAfterDone PatientServerCorrelates FramesKeepTurnsApart
PROPERTIES SessionSpec LiveServerIsAnswered
CHECK_DEADLOCK FALSE
