\* A session nobody used yet, deletions, and a reset that removes the state row.
SPECIFICATION Spec
CONSTANTS
  Turns = {t1, t2}
  Sessions = {s1}
  SeededSessions = {}
  ResetMode = "delete_state_row"
  ResetRequests = {r1}
  ChartTurns = {}
  SavePolicy = {"cancelled", "failed"}
  DeleteEnabled = TRUE
  MaxDeletes = 1
  MaxCrashes = 0
SYMMETRY TurnSymmetry
INVARIANTS
  ResetAuditAgrees
  VersionsIdentifyDocuments
PROPERTIES
  OnlyBlindSavesLose
