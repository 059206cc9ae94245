---------------------------- MODULE SessionTurns ----------------------------
(***************************************************************************)
(* Chat turns, resets and deletions of sessions over the workflow-state    *)
(* store (backend/app/session/service.py), with the visualization          *)
(* artifacts a reset clears.                                               *)
(*                                                                         *)
(* A turn loads the session's row, lets the orchestration runtime answer,  *)
(* and saves the answered document expecting the version it loaded.  A     *)
(* stream that is cancelled or fails saves a closing checkpoint instead,   *)
(* with the same expected version.  Saves run in worker threads            *)
(* (asyncio.to_thread): cancelling the coroutine that waits for one drops  *)
(* the work only while it is queued; once a thread has started it, the     *)
(* transaction runs to its end and nobody learns its result.               *)
(*                                                                         *)
(* The trace store is required, as configured by default: a session event  *)
(* that cannot be recorded raises where it is.                             *)
(***************************************************************************)
EXTENDS WorkflowStateStore

CONSTANTS
  ResetRequests,    \* calls of reset_session
  ChartTurns,       \* turns whose answer includes a chart
  SavePolicy,       \* closings that are saved: save_on_stream_cancellation, _failure
  DeleteEnabled,    \* setting session.management.delete_enabled
  MaxDeletes,       \* bound: successful deletions
  MaxCrashes        \* bound: process crashes

ASSUME TurnsAssumption ==
  /\ ChartTurns \subseteq Turns
  /\ SavePolicy \subseteq {"cancelled", "failed"}
  /\ DeleteEnabled \in BOOLEAN
  /\ MaxDeletes \in Nat
  /\ MaxCrashes \in Nat

VARIABLES
  pc,           \* where each turn's coroutine is
  call,         \* the turn's kind and session
  base,         \* the record the turn loaded
  saveJob,      \* the turn's save jobs in the thread pool
  closingAs,    \* the step a closing checkpoint marks
  outcome,      \* what the turn's caller was told
  event,        \* the last session event recorded for the turn
  interrupted,  \* history: streams cancelled or closed before completion
  resetPc,      \* where each reset request is
  resetOf,      \* the session a reset request names
  artifacts,    \* turns with a stored visualization artifact, per session
  deletes,      \* bound counter
  crashes       \* bound counter

turnVars == <<pc, call, base, saveJob, closingAs, outcome, event, interrupted>>
resetVars == <<resetPc, resetOf>>
vars == <<storeVars, turnVars, resetVars, artifacts, deletes, crashes>>

Calls == [kind : {"chat", "stream"}, session : Sessions]

Locations == {"idle", "loading", "running", "saving", "closing", "completing",
              "done", "crashed"}

JobStatus == {"none", "queued", "running", "committed", "conflict", "error", "dropped"}

Outcomes == {"none", "completed", "failed", "cancelled", "conflict", "unavailable"}

Events == {"none", "session_created", "session_resumed", "stream_started",
           "stream_completed", "stream_cancelled", "stream_failed"}

ResetLocations == {"idle", "loading", "resetting", "detached", "clearing",
                   "reset", "failed", "abandoned"}

JobNames == {"final", "closing"}

SessionOf(t) == call[t].session

IsStream(t) == call[t].kind = "stream"

Draft(t) == PrepareForChat(base[t].doc, t)

TypeOK ==
  /\ StoreTypeOK
  /\ pc \in [Turns -> Locations]
  /\ call \in [Turns -> Calls]
  /\ base \in [Turns -> LoadedRecord]
  /\ saveJob \in [Turns -> [JobNames -> JobStatus]]
  /\ closingAs \in [Turns -> {"cancelled", "failed"}]
  /\ outcome \in [Turns -> Outcomes]
  /\ event \in [Turns -> Events]
  /\ interrupted \in SUBSET Turns
  /\ resetPc \in [ResetRequests -> ResetLocations]
  /\ resetOf \in [ResetRequests -> Sessions]
  /\ artifacts \in [Sessions -> SUBSET Turns]
  /\ deletes \in Nat
  /\ crashes \in Nat

NoRecord == [version |-> NoVersion, doc |-> EmptyDocument, generation |-> 0, epoch |-> 0]

Init ==
  /\ StoreInit
  /\ pc = [t \in Turns |-> "idle"]
  /\ call \in [Turns -> Calls]
  /\ base = [t \in Turns |-> NoRecord]
  /\ saveJob = [t \in Turns |-> [j \in JobNames |-> "none"]]
  /\ closingAs = [t \in Turns |-> "cancelled"]
  /\ outcome = [t \in Turns |-> "none"]
  /\ event = [t \in Turns |-> "none"]
  /\ interrupted = {}
  /\ resetPc = [r \in ResetRequests |-> "idle"]
  /\ resetOf \in [ResetRequests -> Sessions]
  /\ artifacts = [s \in Sessions |-> {}]
  /\ deletes = 0
  /\ crashes = 0

-----------------------------------------------------------------------------
(* Chat turns.  handle_chat and stream_chat begin alike.                   *)

Goto(t, from, to) == pc[t] = from /\ pc' = [pc EXCEPT ![t] = to]

Finish(t, how) ==
  /\ pc' = [pc EXCEPT ![t] = "done"]
  /\ outcome' = [outcome EXCEPT ![t] = how]

Start(t) ==
  /\ Goto(t, "idle", "loading")
  /\ UNCHANGED <<storeVars, call, base, saveJob, closingAs, outcome, event,
                 interrupted, resetVars, artifacts, deletes, crashes>>

LoadState(t) ==
  /\ Goto(t, "loading", "running")
  /\ base' = [base EXCEPT ![t] = Loaded(SessionOf(t))]
  /\ event' = [event EXCEPT ![t] = IF IsStream(t) THEN "stream_started" ELSE @]
  /\ UNCHANGED <<storeVars, call, saveJob, closingAs, outcome, interrupted,
                 resetVars, artifacts, deletes, crashes>>

LoadFails(t) ==
  /\ pc[t] = "loading"
  /\ Finish(t, "unavailable")
  /\ UNCHANGED <<storeVars, call, base, saveJob, closingAs, event, interrupted,
                 resetVars, artifacts, deletes, crashes>>

(* While the runtime works the visualization gateway may store a chart.    *)
SaveArtifact(t) ==
  /\ t \in ChartTurns /\ pc[t] = "running"
  /\ t \notin artifacts[SessionOf(t)]
  /\ artifacts' = [artifacts EXCEPT ![SessionOf(t)] = @ \cup {t}]
  /\ UNCHANGED <<storeVars, turnVars, resetVars, deletes, crashes>>

(* The runtime's result is in: the save of the answered document is handed *)
(* to a thread.                                                            *)
RuntimeReturns(t) ==
  /\ Goto(t, "running", "saving")
  /\ saveJob' = [saveJob EXCEPT ![t]["final"] = "queued"]
  /\ UNCHANGED <<storeVars, call, base, closingAs, outcome, event, interrupted,
                 resetVars, artifacts, deletes, crashes>>

LifecycleEvent(how) == IF how = "failed" THEN "stream_failed" ELSE "stream_cancelled"

(* The last thing a stream that did not complete does.                     *)
EndRecorded(t, how) ==
  \/ /\ Finish(t, how)
     /\ event' = [event EXCEPT ![t] = LifecycleEvent(how)]
  \/ /\ Finish(t, "failed")
     /\ UNCHANGED event

(* A stream that cannot complete saves its draft marked with the reason,   *)
(* when the setting asks for it, before it records the event and ends.     *)
CloseStream(t, how) ==
  \/ /\ how \in SavePolicy
     /\ pc' = [pc EXCEPT ![t] = "closing"]
     /\ closingAs' = [closingAs EXCEPT ![t] = how]
     /\ UNCHANGED <<outcome, event>>
  \/ /\ how \notin SavePolicy
     /\ EndRecorded(t, how)
     /\ UNCHANGED closingAs

(* Cancelling the waiter drops a job no thread has taken yet.              *)
Abandoned(status) == IF status = "queued" THEN "dropped" ELSE status

CloseJobs(t, how) ==
  saveJob' = [saveJob EXCEPT ![t] =
    [j \in JobNames |->
       IF j = "final" THEN Abandoned(@[j])
       ELSE IF how \in SavePolicy THEN "queued" ELSE @[j]]]

(* The record that the stream started fails: nothing was streamed yet, the *)
(* question is saved nevertheless.                                         *)
StartUnrecorded(t) ==
  /\ IsStream(t) /\ pc[t] = "loading"
  /\ base' = [base EXCEPT ![t] = Loaded(SessionOf(t))]
  /\ CloseStream(t, "failed")
  /\ CloseJobs(t, "failed")
  /\ UNCHANGED <<storeVars, call, interrupted, resetVars, artifacts, deletes, crashes>>

RuntimeFails(t) ==
  /\ pc[t] = "running"
  /\ \/ /\ ~IsStream(t)
        /\ Finish(t, "failed")
        /\ UNCHANGED <<saveJob, closingAs, event>>
     \/ /\ IsStream(t)
        /\ CloseStream(t, "failed")
        /\ CloseJobs(t, "failed")
  /\ UNCHANGED <<storeVars, call, base, interrupted, resetVars, artifacts,
                 deletes, crashes>>

(* Mutated SaveReturns: a conflict is taken for a save.                    *)
SaveReturnsSwallowing(t) ==
  /\ pc[t] = "saving"
  /\ \/ /\ saveJob[t]["final"] \in {"committed", "conflict"}
        /\ pc' = [pc EXCEPT ![t] = "completing"]
        /\ outcome' = [outcome EXCEPT ![t] = IF IsStream(t) THEN "completed" ELSE @]
     \/ saveJob[t]["final"] = "error" /\ Finish(t, "unavailable")
  /\ UNCHANGED <<storeVars, call, base, saveJob, closingAs, event, interrupted,
                 resetVars, artifacts, deletes, crashes>>

(* The final save came back.  A stream yields response.completed, a chat   *)
(* still has its session event to record.                                  *)
SaveReturns(t) ==
  /\ pc[t] = "saving"
  /\ \/ /\ saveJob[t]["final"] = "committed"
        /\ pc' = [pc EXCEPT ![t] = "completing"]
        /\ outcome' = [outcome EXCEPT ![t] = IF IsStream(t) THEN "completed" ELSE @]
     \/ saveJob[t]["final"] = "conflict" /\ Finish(t, "conflict")
     \/ saveJob[t]["final"] = "error" /\ Finish(t, "unavailable")
  /\ UNCHANGED <<storeVars, call, base, saveJob, closingAs, event, interrupted,
                 resetVars, artifacts, deletes, crashes>>

ChatEvent(t) ==
  [event EXCEPT ![t] =
     IF base[t].doc = EmptyDocument THEN "session_created" ELSE "session_resumed"]

(* A chat whose event cannot be recorded fails with its answer stored.     *)
FinishChat(t) ==
  /\ pc[t] = "completing" /\ ~IsStream(t)
  /\ \/ Finish(t, "completed") /\ event' = ChatEvent(t)
     \/ Finish(t, "failed") /\ UNCHANGED event
  /\ UNCHANGED <<storeVars, call, base, saveJob, closingAs, interrupted,
                 resetVars, artifacts, deletes, crashes>>

(* After response.completed the generator records the end of the stream    *)
(* only if its consumer asks for one more event.  If that record fails the *)
(* completed stream is recorded as failed.                                 *)
DrainStream(t) ==
  /\ IsStream(t) /\ Goto(t, "completing", "done")
  /\ \E last \in {"stream_completed", "stream_failed"} :
       event' = [event EXCEPT ![t] = last]
  /\ UNCHANGED <<storeVars, call, base, saveJob, closingAs, outcome, interrupted,
                 resetVars, artifacts, deletes, crashes>>

(* The HTTP route returns at response.completed: the generator is closed   *)
(* where it stands.                                                        *)
CloseCompletedStream(t) ==
  /\ IsStream(t) /\ Goto(t, "completing", "done")
  /\ UNCHANGED <<storeVars, call, base, saveJob, closingAs, outcome, event,
                 interrupted, resetVars, artifacts, deletes, crashes>>

(* Mutated ClosingReturns: the store's error is not handled.               *)
ClosingReturnsUnlessError(t) ==
  /\ pc[t] = "closing"
  /\ \/ /\ saveJob[t]["closing"] = "committed"
        /\ Finish(t, closingAs[t])
        /\ event' = [event EXCEPT ![t] = LifecycleEvent(closingAs[t])]
     \/ /\ saveJob[t]["closing"] = "conflict"
        /\ Finish(t, "conflict")
        /\ UNCHANGED event
  /\ UNCHANGED <<storeVars, call, base, saveJob, closingAs, interrupted,
                 resetVars, artifacts, deletes, crashes>>

(* The closing checkpoint came back.  A conflict or a store error is       *)
(* raised from inside the handler, before the lifecycle event.             *)
ClosingReturns(t) ==
  /\ pc[t] = "closing"
  /\ \/ /\ saveJob[t]["closing"] = "committed"
        /\ EndRecorded(t, closingAs[t])
     \/ /\ saveJob[t]["closing"] = "conflict"
        /\ Finish(t, "conflict")
        /\ UNCHANGED event
     \/ /\ saveJob[t]["closing"] = "error"
        /\ Finish(t, "unavailable")
        /\ UNCHANGED event
  /\ UNCHANGED <<storeVars, call, base, saveJob, closingAs, interrupted,
                 resetVars, artifacts, deletes, crashes>>

(* A stream's task is cancelled, or its generator closed at a yield, while *)
(* the runtime works or the final save is awaited.                         *)
InterruptStream(t) ==
  /\ IsStream(t) /\ pc[t] \in {"running", "saving"}
  /\ CloseStream(t, "cancelled")
  /\ CloseJobs(t, "cancelled")
  /\ interrupted' = interrupted \cup {t}
  /\ UNCHANGED <<storeVars, call, base, resetVars, artifacts, deletes, crashes>>

(* Cancelled before anything was loaded there is no draft to save.         *)
InterruptLoading(t) ==
  /\ IsStream(t) /\ pc[t] = "loading"
  /\ EndRecorded(t, "cancelled")
  /\ interrupted' = interrupted \cup {t}
  /\ UNCHANGED <<storeVars, call, base, saveJob, closingAs, resetVars, artifacts,
                 deletes, crashes>>

(* Cancelled again while the closing checkpoint is being saved.            *)
InterruptClosing(t) ==
  /\ pc[t] = "closing"
  /\ Finish(t, "cancelled")
  /\ saveJob' = [saveJob EXCEPT ![t]["closing"] = Abandoned(@)]
  /\ interrupted' = interrupted \cup {t}
  /\ UNCHANGED <<storeVars, call, base, closingAs, event, resetVars, artifacts,
                 deletes, crashes>>

(* handle_chat has no cancellation handler: nothing more is saved, and the *)
(* event only if a thread was recording it.                                *)
CancelChat(t) ==
  /\ ~IsStream(t) /\ pc[t] \in {"loading", "running", "saving", "completing"}
  /\ Finish(t, "cancelled")
  /\ saveJob' = [saveJob EXCEPT ![t]["final"] = Abandoned(@)]
  /\ event' \in IF pc[t] = "completing" THEN {event, ChatEvent(t)} ELSE {event}
  /\ UNCHANGED <<storeVars, call, base, closingAs, interrupted,
                 resetVars, artifacts, deletes, crashes>>

-----------------------------------------------------------------------------
(* Worker threads.  A job expects the version its turn loaded.             *)

(* Mutated JobDocument: the answer is added to what was loaded, not to the *)
(* draft.                                                                  *)
JobDocumentWithoutQuestion(t, j) ==
  IF j = "final" THEN Answered(base[t].doc, t) ELSE Closed(Draft(t), closingAs[t])

JobDocument(t, j) ==
  IF j = "final" THEN Answered(Draft(t), t) ELSE Closed(Draft(t), closingAs[t])

ThreadTakes(t, j) ==
  /\ saveJob[t][j] = "queued"
  /\ saveJob' = [saveJob EXCEPT ![t][j] = "running"]
  /\ UNCHANGED <<storeVars, pc, call, base, closingAs, outcome, event, interrupted,
                 resetVars, artifacts, deletes, crashes>>

ThreadCommits(t, j) ==
  /\ saveJob[t][j] = "running"
  /\ ~SaveConflicts(SessionOf(t), base[t].version)
  /\ CommitSave(SessionOf(t), JobDocument(t, j))
  /\ saveJob' = [saveJob EXCEPT ![t][j] = "committed"]
  /\ UNCHANGED <<pc, call, base, closingAs, outcome, event, interrupted,
                 resetVars, artifacts, deletes, crashes>>

ThreadConflicts(t, j) ==
  /\ saveJob[t][j] = "running"
  /\ SaveConflicts(SessionOf(t), base[t].version)
  /\ saveJob' = [saveJob EXCEPT ![t][j] = "conflict"]
  /\ UNCHANGED <<storeVars, pc, call, base, closingAs, outcome, event, interrupted,
                 resetVars, artifacts, deletes, crashes>>

(* The document is too large or unsafe, or the database is locked or down. *)
ThreadFails(t, j) ==
  /\ saveJob[t][j] = "running"
  /\ saveJob' = [saveJob EXCEPT ![t][j] = "error"]
  /\ UNCHANGED <<storeVars, pc, call, base, closingAs, outcome, event, interrupted,
                 resetVars, artifacts, deletes, crashes>>

-----------------------------------------------------------------------------
(* reset_session: load, policy, reset in the store, then clear artifacts.  *)

GotoReset(r, from, to) == resetPc[r] = from /\ resetPc' = [resetPc EXCEPT ![r] = to]

StartReset(r) ==
  /\ GotoReset(r, "idle", "loading")
  /\ UNCHANGED <<storeVars, turnVars, resetOf, artifacts, deletes, crashes>>

(* The loaded record only tells the policy who owns the session.           *)
AllowReset(r) ==
  /\ GotoReset(r, "loading", "resetting")
  /\ UNCHANGED <<storeVars, turnVars, resetOf, artifacts, deletes, crashes>>

RefuseReset(r) ==
  /\ GotoReset(r, "loading", "failed")
  /\ UNCHANGED <<storeVars, turnVars, resetOf, artifacts, deletes, crashes>>

ResetCommits(r) ==
  /\ \/ GotoReset(r, "resetting", "clearing")
     \/ GotoReset(r, "detached", "abandoned")
  /\ CommitReset(resetOf[r])
  /\ UNCHANGED <<turnVars, resetOf, artifacts, deletes, crashes>>

ResetFails(r) ==
  /\ \/ GotoReset(r, "resetting", "failed")
     \/ GotoReset(r, "detached", "abandoned")
  /\ UNCHANGED <<storeVars, turnVars, resetOf, artifacts, deletes, crashes>>

(* The reset fails all the same if it cannot be recorded, or is cancelled. *)
ClearArtifacts(r) ==
  /\ \/ GotoReset(r, "clearing", "reset")
     \/ GotoReset(r, "clearing", "failed")
     \/ GotoReset(r, "clearing", "abandoned")
  /\ artifacts' = [artifacts EXCEPT ![resetOf[r]] = {}]
  /\ UNCHANGED <<storeVars, turnVars, resetOf, deletes, crashes>>

(* The state is reset already when the artifact store fails, and the       *)
(* caller is told that the reset failed.                                   *)
ClearFails(r) ==
  /\ GotoReset(r, "clearing", "failed")
  /\ UNCHANGED <<storeVars, turnVars, resetOf, artifacts, deletes, crashes>>

(* The reset's task is cancelled; its thread, once started, goes on.       *)
CancelReset(r) ==
  /\ \/ GotoReset(r, "loading", "abandoned")
     \/ GotoReset(r, "resetting", "detached")
     \/ GotoReset(r, "clearing", "abandoned")
  /\ UNCHANGED <<storeVars, turnVars, resetOf, artifacts, deletes, crashes>>

-----------------------------------------------------------------------------
(* Deletion leaves the session's artifacts in the artifact store.          *)
DeleteSession(s) ==
  /\ DeleteEnabled /\ deletes < MaxDeletes
  /\ CommitDelete(s)
  /\ deletes' = deletes + 1
  /\ UNCHANGED <<turnVars, resetVars, artifacts, crashes>>

(* Artifacts outlive their time to live: each store operation purges them. *)
ExpireArtifacts(s) ==
  /\ artifacts[s] # {}
  /\ \E kept \in SUBSET artifacts[s] :
       /\ kept # artifacts[s]
       /\ artifacts' = [artifacts EXCEPT ![s] = kept]
  /\ UNCHANGED <<storeVars, turnVars, resetVars, deletes, crashes>>

InFlight(t) == pc[t] \notin {"idle", "done", "crashed"}

ResetInFlight(r) == resetPc[r] \notin {"idle", "reset", "failed", "abandoned"}

(* The process dies: coroutines and queued or unfinished thread work are   *)
(* gone, the tables stay; so do the artifacts, if their provider is SQLite *)
(* and not memory.                                                         *)
Crash ==
  /\ crashes < MaxCrashes
  /\ crashes' = crashes + 1
  /\ pc' = [t \in Turns |-> IF InFlight(t) THEN "crashed" ELSE pc[t]]
  /\ saveJob' = [t \in Turns |-> [j \in JobNames |->
       IF saveJob[t][j] \in {"queued", "running"} THEN "dropped" ELSE saveJob[t][j]]]
  /\ resetPc' = [r \in ResetRequests |-> IF ResetInFlight(r) THEN "abandoned" ELSE resetPc[r]]
  /\ artifacts' \in {artifacts, [s \in Sessions |-> {}]}
  /\ UNCHANGED <<storeVars, call, base, closingAs, outcome, event, interrupted,
                 resetOf, deletes>>

(* Every request has ended and no thread is left at work.                  *)
AllEnded ==
  /\ \A t \in Turns : /\ pc[t] \in {"done", "crashed"}
                      /\ \A j \in JobNames : saveJob[t][j] \notin {"queued", "running"}
  /\ \A r \in ResetRequests : resetPc[r] \in {"reset", "failed", "abandoned"}

Terminated == AllEnded /\ UNCHANGED vars

TurnStep(t) ==
  \/ Start(t) \/ LoadState(t) \/ LoadFails(t) \/ StartUnrecorded(t)
  \/ RuntimeReturns(t) \/ RuntimeFails(t)
  \/ SaveReturns(t) \/ ClosingReturns(t)
  \/ FinishChat(t) \/ DrainStream(t) \/ CloseCompletedStream(t)

JobStep(t, j) ==
  \/ ThreadTakes(t, j) \/ ThreadCommits(t, j)
  \/ ThreadConflicts(t, j) \/ ThreadFails(t, j)

ResetStep(r) ==
  \/ StartReset(r) \/ AllowReset(r) \/ RefuseReset(r) \/ ResetCommits(r)
  \/ ResetFails(r) \/ ClearArtifacts(r) \/ ClearFails(r)

Cancellation ==
  \/ \E t \in Turns : \/ InterruptStream(t) \/ InterruptLoading(t)
                     \/ InterruptClosing(t) \/ CancelChat(t)
  \/ \E r \in ResetRequests : CancelReset(r)

Environment ==
  \/ Cancellation
  \/ Crash
  \/ \E s \in Sessions : DeleteSession(s) \/ ExpireArtifacts(s)
  \/ \E t \in Turns : SaveArtifact(t)

Next ==
  \/ \E t \in Turns : TurnStep(t)
  \/ \E t \in Turns, j \in JobNames : JobStep(t, j)
  \/ \E r \in ResetRequests : ResetStep(r)
  \/ Environment
  \/ Terminated

Spec == Init /\ [][Next]_vars

(* The event loop runs every ready coroutine, the thread pool every job,   *)
(* and the runtime and SQLite answer within their own time limits; nobody  *)
(* has to cancel, delete, expire or crash.                                 *)
FairSpec ==
  /\ Spec
  /\ \A t \in Turns : WF_vars(TurnStep(t))
  /\ \A t \in Turns, j \in JobNames : WF_vars(JobStep(t, j))
  /\ \A r \in ResetRequests : WF_vars(ResetStep(r))
=============================================================================
