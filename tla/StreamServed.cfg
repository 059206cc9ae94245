SPECIFICATION FairSpec
CONSTANTS
  FallbackConfigured = TRUE
  MaxDeltas = 3
  MaxArtifacts = 2
INVARIANTS
  StreamSound
  CompletedIsRecorded
PROPERTIES
  KeepsContract
  StreamsEnd
CHECK_DEADLOCK TRUE
