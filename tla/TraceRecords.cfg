SPECIFICATION Spec
CONSTANTS
  a = a
  b = b
  j1 = j1
  j2 = j2
  r1 = r1
  Traces = {a, b}
  Kinds <- SomeKinds
  Legacy <- SomeLegacy
  Jobs = {j1, j2}
  Batches <- SomeBatches
  Readers = {r1}
  Limits <- SomeLimits
  Keep = 0
  CleanupBatch = 1
  MaxEvents = 3
  MaxTime = 3
  MaxCrashes = 1
  NoRun = NoRun
  Nobody = Nobody
SYMMETRY JobSymmetry
INVARIANTS
  SummariesAgree
  EventsAccounted
  ReadsFit
PROPERTIES
  KeepsLog
