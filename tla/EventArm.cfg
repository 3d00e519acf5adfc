\* Three channels; two sessions whose windows overlap; a cap three small chunks or two
\* large ones reach.
CONSTANTS
  Channels = 3
  MaxQueued = 2
  Sessions = {s1, s2}
  Window = 2
  MaxBytes = 3
  Sizes <- MCSizes
  MaxChunks = 3
  MaxTime = 6
SPECIFICATION MCSpec
INVARIANTS NothingLost BatchesKeepTheirBounds
PROPERTIES FlushDoesItsWork EveryChunkDelivered EventsAreTaken
