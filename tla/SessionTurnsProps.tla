------------------------- MODULE SessionTurnsProps -------------------------
(***************************************************************************)
(* What the session service owes its callers, stated over SessionTurns.    *)
(***************************************************************************)
EXTENDS SessionTurns

(* Where no row is removed, a version only grows.                          *)
RowsStay == ResetMode = "replace_with_empty_state" /\ ~DeleteEnabled

(* The deployment the compare-and-swap fully protects: every session also  *)
(* has its state row from the start, so every turn loads a version.        *)
Guarded == SeededSessions = Sessions /\ RowsStay

Committed(t, j) == saveJob[t][j] = "committed"

(* The conversation of t's session was not cleared since t loaded it.      *)
NotCleared(t) == base[t].generation = resetCount[SessionOf(t)]

-----------------------------------------------------------------------------
(* A turn that still expects what is stored (same row, same version) holds *)
(* exactly the stored document: no two documents of one row ever share a   *)
(* version, whatever saves, resets and deletions happened in between.      *)
VersionsIdentifyDocuments ==
  \A t \in Turns :
    LET s == SessionOf(t) IN
      /\ base[t].version # NoVersion
      /\ base[t].epoch = epoch[s]
      /\ base[t].version = current[s].version
      => base[t].doc = current[s].doc

(* A turn whose caller saw it complete stays in the conversation, question *)
(* and answer, until a reset clears the session: no concurrent turn,       *)
(* cancellation or restart loses it.                                       *)
CompletedTurnsAreKept ==
  \A t \in Turns :
    outcome[t] = "completed" /\ NotCleared(t) => HoldsExchange(current[SessionOf(t)].doc, t)

(* A turn saves once: its answer, or one closing checkpoint, never one     *)
(* over the other, although a cancelled stream may have both saves under   *)
(* way.                                                                    *)
OneSavePerTurn == \A t \in Turns : ~(Committed(t, "final") /\ Committed(t, "closing"))

(* The session event a turn leaves behind is true of it: an answer is      *)
(* announced only when saved, no stream is recorded as cancelled after its *)
(* completion went out, nor as failed unless its record of that was lost   *)
(* (the answer is saved all the same).                                     *)
EventsMatchOutcomes ==
  \A t \in Turns :
    /\ event[t] \in {"stream_completed", "session_created", "session_resumed"}
         => Committed(t, "final") /\ outcome[t] \in {"completed", "cancelled"}
    /\ event[t] = "stream_cancelled" => outcome[t] # "completed"
    /\ event[t] = "stream_failed" /\ outcome[t] = "completed" => Committed(t, "final")

-----------------------------------------------------------------------------
SaveOf(t) == \E j \in JobNames : saveJob[t][j] # "committed" /\ saveJob'[t][j] = "committed"

(* A save never writes a document drafted before a reset over the cleared  *)
(* session: an old stream does not bring back what the user cleared.       *)
NoSaveAcrossReset ==
  [][\A t \in Turns : SaveOf(t) => NotCleared(t)]_vars

(* Every save extends the stored conversation, by this turn's messages     *)
(* alone: what other turns saved is never dropped or rewritten.            *)
SavesExtendConversation ==
  [][\A t \in Turns : SaveOf(t) =>
       LET old == current[SessionOf(t)].doc.messages
           new == current'[SessionOf(t)].doc.messages
       IN  /\ Len(new) > Len(old)
           /\ \A i \in 1 .. Len(old) : new[i] = old[i]
           /\ \A i \in Len(old) + 1 .. Len(new) : new[i].turn = t]_vars

(* In every deployment, with rows that are missing, removed or inserted    *)
(* again: a stored conversation keeps its messages in their order except   *)
(* at a reset, at a deletion, and at a save that expects no version or one *)
(* of a row since removed (sqlite_workflow_state_store.py:492, :684).      *)
Expects(t) == base[t].version # NoVersion /\ base[t].epoch = epoch[SessionOf(t)]

Keeps(old, new) == Len(old) <= Len(new) /\ \A i \in 1 .. Len(old) : new[i] = old[i]

OnlyBlindSavesLose ==
  [][\A s \in Sessions :
       \/ Keeps(current[s].doc.messages, current'[s].doc.messages)
       \/ resetCount'[s] # resetCount[s] \/ current'[s].version = NoVersion
       \/ \E t \in Turns : SessionOf(t) = s /\ SaveOf(t) /\ ~Expects(t)]_vars

(* Where no row is removed, a completed exchange that is missing though    *)
(* its session was not reset was overwritten by another turn that found no *)
(* row: the first turns of a session are its only hazard                   *)
(* (sqlite_workflow_state_store.py:436).                                   *)
Missing(t) == NotCleared(t) /\ ~HoldsExchange(current[SessionOf(t)].doc, t)

SavedBlindly(u) == base[u].version = NoVersion /\ \E j \in JobNames : Committed(u, j)

LostOnlyToFirstTurns ==
  RowsStay =>
    \A t \in Turns : outcome[t] = "completed" /\ Missing(t) =>
      \E u \in Turns \ {t} : SessionOf(u) = SessionOf(t) /\ SavedBlindly(u)

(* Every request that starts ends, with an answer to its caller or with    *)
(* the process, and leaves no save job behind.                             *)
TurnEnded(t) ==
  /\ pc[t] \in {"done", "crashed"}
  /\ \A j \in JobNames : saveJob[t][j] \notin {"queued", "running"}

RequestsEnd ==
  /\ \A t \in Turns : (pc[t] # "idle") ~> TurnEnded(t)
  /\ \A r \in ResetRequests :
       (resetPc[r] # "idle") ~> (resetPc[r] \in {"reset", "failed", "abandoned"})

-----------------------------------------------------------------------------
(* Why the deployments that keep their rows are safe, but for first turns: *)
(* an inductive strengthening.                                             *)

Based(t) == base[t].version # NoVersion

(* Every row is stamped with its session's reset count.                    *)
RowsAreStamped ==
  \A s \in Sessions :
    /\ Guarded => HasRow(s)
    /\ HasRow(s) => current[s].generation = resetCount[s]

(* A turn has jobs only after it loaded, its closing save is handed out    *)
(* only when it closes, and where every row is there whoever loaded got a  *)
(* version.                                                                *)
WorkersAreBased ==
  \A t \in Turns :
    /\ pc[t] \in {"idle", "loading", "running"} =>
         \A j \in JobNames : saveJob[t][j] = "none"
    /\ pc[t] \in {"saving", "completing"} => saveJob[t]["closing"] = "none"
    /\ Guarded /\ pc[t] \in {"running", "saving", "closing", "completing"} => Based(t)
    /\ \A j \in JobNames : Guarded /\ saveJob[t][j] # "none" => Based(t)

(* What a turn loaded is what is stored, or an older version of it.        *)
BasesAreBehind ==
  \A t \in Turns :
    LET s == SessionOf(t) IN
      /\ base[t].generation <= resetCount[s]
      /\ Based(t) => /\ base[t].version <= current[s].version
                     /\ base[t].version = current[s].version
                          => base[t].doc = current[s].doc /\ NotCleared(t)

(* After a turn's save the version it expects is gone for good.            *)
SavedBasesArePassed ==
  \A t \in Turns, j \in JobNames :
    Committed(t, j) => base[t].version < current[SessionOf(t)].version

BasedTurnsSaveOnce ==
  \A t \in Turns : Based(t) => ~(Committed(t, "final") /\ Committed(t, "closing"))

(* A stored answer goes missing only by the save of a turn that found no   *)
(* row: another turn's, or this one's own closing save after its answer.   *)
Overwrites(u, t) ==
  /\ SessionOf(u) = SessionOf(t) /\ SavedBlindly(u)
  /\ u # t \/ Committed(t, "closing")

AnswersAreKept ==
  \A t \in Turns :
    Committed(t, "final") /\ Missing(t) => \E u \in Turns : Overwrites(u, t)

(* Completion comes after the answer's commit and nothing revokes it: a    *)
(* completed turn has no closing save.                                     *)
CompletionsAreSaved ==
  \A t \in Turns :
    /\ pc[t] = "completing" \/ outcome[t] = "completed" =>
         Committed(t, "final") /\ saveJob[t]["closing"] = "none"
    /\ outcome[t] = "completed" =>
         \/ pc[t] \in {"done", "crashed"}
         \/ pc[t] = "completing" /\ IsStream(t)

Inductive ==
  /\ TypeOK
  /\ RowsAreStamped
  /\ WorkersAreBased
  /\ BasesAreBehind
  /\ SavedBasesArePassed
  /\ BasedTurnsSaveOnce
  /\ AnswersAreKept
  /\ CompletionsAreSaved

-----------------------------------------------------------------------------
(* The protected deployment implements the one-log-per-session promise.    *)
AddedBy(t) ==
  IF Committed(t, "final") THEN "answer"
  ELSE IF Committed(t, "closing") THEN "question" ELSE "nothing"

Promise == INSTANCE SessionLog WITH
  log     <- [s \in Sessions |-> current[s].doc.messages],
  cleared <- resetCount,
  began   <- [t \in Turns |-> [session |-> SessionOf(t), cleared |-> base[t].generation]],
  added   <- [t \in Turns |-> AddedBy(t)],
  acked   <- {t \in Turns : outcome[t] = "completed"}

ImplementsPromise == Promise!Spec
=============================================================================
