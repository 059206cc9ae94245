\* Fair scheduling: every turn and every reset ends.
SPECIFICATION FairSpec
CONSTANTS
  Turns = {t1}
  Sessions = {s1}
  SeededSessions = {s1}
  ResetMode = "replace_with_empty_state"
  ResetRequests = {r1}
  ChartTurns = {t1}
  SavePolicy = {"cancelled", "failed"}
  DeleteEnabled = FALSE
  MaxDeletes = 0
  MaxCrashes = 1
PROPERTIES
  RequestsEnd
