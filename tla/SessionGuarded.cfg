\* Two turns and one reset on one session that has its row, full save policy.
SPECIFICATION Spec
CONSTANTS
  Turns = {t1, t2}
  Sessions = {s1}
  SeededSessions = {s1}
  ResetMode = "replace_with_empty_state"
  ResetRequests = {r1}
  ChartTurns = {}
  SavePolicy = {"cancelled", "failed"}
  DeleteEnabled = FALSE
  MaxDeletes = 0
  MaxCrashes = 1
SYMMETRY TurnSymmetry
INVARIANTS
  Inductive
  CompletedTurnsAreKept
  OneSavePerTurn
  EventsMatchOutcomes
PROPERTIES
  NoSaveAcrossReset
  SavesExtendConversation
  ImplementsPromise
