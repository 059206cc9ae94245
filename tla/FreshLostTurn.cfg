\* Two turns race on a session nobody used yet.
SPECIFICATION Spec
CONSTANTS
  Turns = {t1, t2}
  Sessions = {s1}
  SeededSessions = {}
  ResetMode = "replace_with_empty_state"
  ResetRequests = {}
  ChartTurns = {}
  SavePolicy = {"cancelled", "failed"}
  DeleteEnabled = FALSE
  MaxDeletes = 0
  MaxCrashes = 0
INVARIANT
  CompletedTurnsAreKept
