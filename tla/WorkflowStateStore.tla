------------------------- MODULE WorkflowStateStore -------------------------
(***************************************************************************)
(* The SQLite workflow-state store                                         *)
(* (backend/app/persistence/sqlite_workflow_state_store.py).               *)
(*                                                                         *)
(* Every operation is one write transaction (BEGIN IMMEDIATE, or a first   *)
(* statement that takes the write lock) on a connection of its own, rolled *)
(* back when it is closed uncommitted, so each is one step here.  This     *)
(* module gives the tables and the effect of each transaction; the modules *)
(* that extend it say who calls them.                                      *)
(***************************************************************************)
EXTENDS ConversationDocument, FiniteSets

CONSTANTS
  Sessions,         \* session identifiers
  SeededSessions,   \* sessions that already have a state row at the start
  ResetMode         \* persistence setting reset_mode

ASSUME StoreAssumption ==
  /\ SeededSessions \subseteq Sessions
  /\ ResetMode \in {"replace_with_empty_state", "delete_state_row"}

VARIABLES
  current,      \* table workflow_state_current
  registered,   \* the session ids of table workflow_sessions
  resetCount,   \* workflow_sessions.reset_count, 0 for an absent session
  resets,       \* table workflow_state_resets, per session, oldest first
  epoch         \* history: how many times a state row was inserted

storeVars == <<current, registered, resetCount, resets, epoch>>

(* state_version starts at 1; 0 stands for Python's None and marks the     *)
(* session that has no row.                                                *)
NoVersion == 0

Row == [version : Nat, doc : Document, generation : Nat]

AbsentRow == [version |-> NoVersion, doc |-> EmptyDocument, generation |-> 0]

HasRow(s) == current[s].version # NoVersion

StoreTypeOK ==
  /\ current \in [Sessions -> Row]
  /\ registered \in SUBSET Sessions
  /\ resetCount \in [Sessions -> Nat]
  /\ resets \in [Sessions -> Seq([generation : Nat, cleared : Nat])]
  /\ epoch \in [Sessions -> Nat]

(* A seeded session is one that was reset once and not used since.         *)
StoreInit ==
  /\ current = [s \in Sessions |->
       IF s \in SeededSessions
         THEN [version |-> 1, doc |-> EmptyDocument, generation |-> 1]
         ELSE AbsentRow]
  /\ registered = SeededSessions
  /\ resetCount = [s \in Sessions |-> IF s \in SeededSessions THEN 1 ELSE 0]
  /\ resets = [s \in Sessions |->
       IF s \in SeededSessions
         THEN <<[generation |-> 1, cleared |-> NoVersion]>>
         ELSE << >>]
  /\ epoch = [s \in Sessions |-> IF s \in SeededSessions THEN 1 ELSE 0]

-----------------------------------------------------------------------------
(* What load returns: the row, or an empty document with no version.       *)
LoadedRecord == [version : Nat, doc : Document, generation : Nat, epoch : Nat]

Loaded(s) ==
  [version    |-> current[s].version,
   doc        |-> current[s].doc,
   generation |-> IF HasRow(s) THEN current[s].generation ELSE resetCount[s],
   epoch      |-> epoch[s]]

(* Mutated SaveConflicts: a stale version passes.                          *)
SaveConflictsIfAhead(s, expected) ==
  /\ expected # NoVersion
  /\ current[s].version < expected

(* The compare of compare-and-swap: made only when the caller passes a     *)
(* version.                                                                *)
SaveConflicts(s, expected) ==
  /\ expected # NoVersion
  /\ current[s].version # expected

(* Mutated WriteRow: an update keeps the version it found.                 *)
WriteRowSameVersion(s, doc, generation) ==
  /\ current' = [current EXCEPT ![s] =
       [version |-> IF HasRow(s) THEN @.version ELSE 1, doc |-> doc,
        generation |-> generation]]
  /\ epoch' = [epoch EXCEPT ![s] = IF HasRow(s) THEN @ ELSE @ + 1]

(* INSERT ... ON CONFLICT DO UPDATE: a missing row is inserted at version  *)
(* 1, an existing one moves to version + 1; the row is stamped with the    *)
(* session's reset_count.                                                  *)
WriteRow(s, doc, generation) ==
  /\ current' = [current EXCEPT ![s] =
       [version |-> @.version + 1, doc |-> doc, generation |-> generation]]
  /\ epoch' = [epoch EXCEPT ![s] = IF HasRow(s) THEN @ ELSE @ + 1]

CommitSave(s, doc) ==
  /\ WriteRow(s, doc, resetCount[s])
  /\ registered' = registered \cup {s}
  /\ UNCHANGED <<resetCount, resets>>

(* Mutated CommitReset: replacing the row starts its version over.         *)
CommitResetFromOne(s) ==
  /\ registered' = registered \cup {s}
  /\ resetCount' = [resetCount EXCEPT ![s] = @ + 1]
  /\ resets' = [resets EXCEPT ![s] =
       Append(@, [generation |-> resetCount[s] + 1, cleared |-> current[s].version])]
  /\ current' = [current EXCEPT ![s] =
       [version |-> 1, doc |-> EmptyDocument, generation |-> resetCount[s] + 1]]
  /\ UNCHANGED epoch

(* A reset takes no expected version: it always wins.                      *)
CommitReset(s) ==
  /\ registered' = registered \cup {s}
  /\ resetCount' = [resetCount EXCEPT ![s] = @ + 1]
  /\ resets' = [resets EXCEPT ![s] =
       Append(@, [generation |-> resetCount[s] + 1, cleared |-> current[s].version])]
  /\ IF ResetMode = "delete_state_row"
       THEN current' = [current EXCEPT ![s] = AbsentRow] /\ UNCHANGED epoch
       ELSE WriteRow(s, EmptyDocument, resetCount[s] + 1)

(* Mutated CommitDelete: the deletion does not reach the table of resets.  *)
CommitDeleteWithoutCascade(s) ==
  /\ s \in registered
  /\ registered' = registered \ {s}
  /\ current' = [current EXCEPT ![s] = AbsentRow]
  /\ resetCount' = [resetCount EXCEPT ![s] = 0]
  /\ UNCHANGED <<resets, epoch>>

(* DELETE FROM workflow_sessions cascades to the state row and the resets. *)
CommitDelete(s) ==
  /\ s \in registered
  /\ registered' = registered \ {s}
  /\ current' = [current EXCEPT ![s] = AbsentRow]
  /\ resetCount' = [resetCount EXCEPT ![s] = 0]
  /\ resets' = [resets EXCEPT ![s] = << >>]
  /\ UNCHANGED epoch

-----------------------------------------------------------------------------
(* The row and the audit of resets agree: the row is stamped with the      *)
(* session's reset count, the log has one entry per reset, numbered in     *)
(* order, and only a registered session has rows.                          *)
ResetAuditAgrees ==
  \A s \in Sessions :
    /\ HasRow(s) => /\ s \in registered
                    /\ current[s].generation = resetCount[s]
    /\ Len(resets[s]) = resetCount[s]
    /\ \A i \in 1 .. Len(resets[s]) : resets[s][i].generation = i
=============================================================================
