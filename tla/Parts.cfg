\* A hello and three more frames of every kind; every kind of
\* session, on a box that changes; every word of four and five symbols.  Parts stop.
CONSTANTS
  Interval = 3
  Latency = 2
  MaxFrames = 2
  MaxVersion = 2
  VersionModulus = 16
  MaxIncoming = 4
  MaxChoice = 4
  MaxAddress = 5
  Names = {"a", "b"}
  Harnesses = {"opencode", "claude"}
  Commands = {"opencode", "other"}
  EndpointStates = {"up", "down"}
  Queries <- SomeQueries
SPECIFICATION MCSpec
INVARIANTS HeartbeatTellsSilence FramesAreHandled HostedWhole QueriesAgree TypedIsUnderstood
PROPERTIES OddFramesAreHarmless StartupEnds
CHECK_DEADLOCK FALSE
