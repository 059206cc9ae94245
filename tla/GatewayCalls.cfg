SPECIFICATION FairSpec
CONSTANTS
  LastProfile = 2
  Retries <- TwoRetriesNoneOne
INVARIANTS
  GatewaySound
  OneAttemptSpeaks
PROPERTIES
  KeepsPromise
  CallsEnd
CHECK_DEADLOCK TRUE
