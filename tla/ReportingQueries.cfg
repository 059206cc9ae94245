SPECIFICATION FairSpec
CONSTANTS
  q1 = q1
  q2 = q2
  q3 = q3
  k1 = k1
  Queries = {q1, q2, q3}
  Keys = {k1}
  Permits = 1
  Attempts = 2
  Threshold = 2
INVARIANTS
  QueriesSound
  FailuresBounded
PROPERTIES
  QueriesEnd
