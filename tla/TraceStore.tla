----------------------------- MODULE TraceStore -----------------------------
(***************************************************************************)
(* The SQLite trace store                                                  *)
(* (backend/app/persistence/sqlite_trace_store.py): batches of events that *)
(* worker threads write, each in a transaction of its own, reads that make *)
(* two queries, the cleanup of old traces, and the migration of the first  *)
(* schema's rows when the process starts (sqlite_trace_schema.py).         *)
(*                                                                         *)
(* A transaction's writes are invisible until it commits (WAL), and        *)
(* foreign_keys is on, as configured by default.  Of an event's columns    *)
(* those are kept that a trace's summary counts, orders or overrides; the  *)
(* others are replaced when they are given.  A cleanup that fails rolls    *)
(* back and only adds a row to its log.                                    *)
(***************************************************************************)
EXTENDS Naturals, Sequences, FiniteSets

CONSTANTS
  Traces,
  Kinds,         \* what an event may say: [status, severity, typed]
  Legacy,        \* the first schema's rows of each trace, ordered by timestamp
  Jobs,          \* worker threads that write
  Batches,       \* what record_event and record_events are given
  Readers,
  Limits,        \* limits of reads, no larger than max_events_per_trace_read
  Keep,          \* retention_keep_days
  CleanupBatch,  \* retention_cleanup_batch_size
  MaxEvents,     \* bound: events offered
  MaxTime,       \* bound: the clock
  MaxCrashes,    \* bound: crashes of the process
  NoRun,
  Nobody

Terminal == {"completed", "failed", "cancelled", "skipped", "degraded"}

Severities == 1 .. 5  \* debug, info, warning, error, critical

Entry == [at : Nat \ {0}, kind : Kinds]

Run == [status : {k.status : k \in Kinds}, severity : Severities, started : Nat, last : Nat,
        ended : Nat, count : Nat, errors : Nat]

Store == [runs : [Traces -> Run \cup {NoRun}], rows : [Traces -> Seq(Entry)]]

ASSUME TraceStoreAssumption ==
  /\ Kinds \subseteq [status : Terminal \cup {"started"}, severity : Severities, typed : BOOLEAN]
  /\ Legacy \in [Traces -> Seq(Entry)]
  /\ \A t \in Traces : \A i \in DOMAIN Legacy[t] : Legacy[t][i].kind.status \in Terminal
  /\ Batches \subseteq Seq([trace : Traces, kind : Kinds])
  /\ Limits \subseteq Nat
  /\ Keep \in Nat /\ CleanupBatch \in Nat
  /\ MaxEvents \in Nat /\ MaxTime \in Nat /\ MaxCrashes \in Nat
  /\ NoRun \notin Run
  /\ Nobody \notin Jobs
  /\ IsFiniteSet(Traces)

VARIABLES
  db,          \* what is committed: trace_runs and trace_events, by sequence_no
  first,       \* the first schema's table: under its own name or the backup's
  versioned,   \* schema_version says 2
  process,     \* where the process that opens the store is
  source,      \* the table it migrates from
  pending,     \* events a thread has still to insert
  writer,      \* the thread whose transaction is open
  draft,       \* what that transaction sees
  carried,     \* history: the batch that transaction stores
  taken,       \* how many events it has inserted
  reads,       \* a reader's summary and events
  crossed,     \* history: readers whose trace was cleaned between their queries
  deleted,     \* sum of deleted_event_count in trace_retention_runs
  committed,   \* history: events whose transaction committed
  offered,     \* bound counter
  now,         \* the clock
  crashes      \* bound counter

opening == <<first, versioned, process, source>>
transaction == <<pending, writer, draft, carried, taken>>
bounds == <<offered, now, crashes>>
vars == <<db, opening, transaction, reads, crossed, deleted, committed, bounds>>

Empty == [runs |-> [t \in Traces |-> NoRun], rows |-> [t \in Traces |-> <<>>]]

NoRead == [at |-> "idle"]

Init ==
  /\ db = Empty
  /\ first = "named"
  /\ versioned = FALSE
  /\ process = "down"
  /\ source = "none"
  /\ pending = [j \in Jobs |-> <<>>]
  /\ writer = Nobody
  /\ draft = Empty
  /\ carried = <<>>
  /\ taken = 0
  /\ reads = [r \in Readers |-> NoRead]
  /\ crossed = {}
  /\ deleted = 0
  /\ committed = 0
  /\ offered = 0
  /\ now = 1
  /\ crashes = 0

-----------------------------------------------------------------------------
(* One event in a transaction.                                             *)

Larger(m, n) == IF m < n THEN n ELSE m

Top(S) == CHOOSE n \in S : \A m \in S : m <= n

(* COALESCE(MAX(sequence_no), 0) + 1                                       *)
NextNo(rows) == IF DOMAIN rows = {} THEN 1 ELSE Top(DOMAIN rows) + 1

(* _is_error_event of the store                                            *)
Failed(e) == e.kind.status = "failed" \/ e.kind.severity >= 4

UpsertedLatestSeverity(run, e) ==
  IF run = NoRun
    THEN [status |-> e.kind.status, severity |-> e.kind.severity, started |-> e.at,
          last |-> e.at, ended |-> 0, count |-> 0, errors |-> 0]
    ELSE [run EXCEPT !.status = e.kind.status, !.severity = e.kind.severity, !.last = e.at]

(* The first event of a trace inserts its run; a later one moves it on and *)
(* never lowers its severity.                                              *)
Upserted(run, e) ==
  IF run = NoRun
    THEN [status |-> e.kind.status, severity |-> e.kind.severity, started |-> e.at,
          last |-> e.at, ended |-> 0, count |-> 0, errors |-> 0]
    ELSE [run EXCEPT !.status = e.kind.status, !.severity = Larger(@, e.kind.severity),
                     !.last = e.at]

Counted(run, e) ==
  [run EXCEPT !.count = @ + 1,
              !.errors = IF Failed(e) THEN @ + 1 ELSE @,
              !.ended = IF e.kind.status \in Terminal THEN e.at ELSE @]

Inserted(rows, e) ==
  LET n == NextNo(rows)
  IN  [i \in DOMAIN rows \cup {n} |-> IF i = n THEN e ELSE rows[i]]

With(d, t, e) ==
  [runs |-> [d.runs EXCEPT ![t] = Counted(Upserted(@, e), e)],
   rows |-> [d.rows EXCEPT ![t] = Inserted(@, e)]]

-----------------------------------------------------------------------------
(* Writing.                                                                *)

(* A batch is stamped and handed to a thread.                              *)
Record(j) ==
  /\ process = "up"
  /\ pending[j] = <<>> /\ writer # j
  /\ \E b \in Batches :
       /\ b # <<>>
       /\ offered + Len(b) <= MaxEvents
       /\ offered' = offered + Len(b)
       /\ pending' = [pending EXCEPT ![j] =
            [i \in 1 .. Len(b) |-> [trace |-> b[i].trace, entry |-> [at |-> now, kind |-> b[i].kind]]]]
  /\ UNCHANGED <<db, opening, writer, draft, carried, taken, reads, crossed, deleted,
                 committed, now, crashes>>

(* BEGIN IMMEDIATE takes the only write lock.                              *)
Begin(j) ==
  /\ pending[j] # <<>>
  /\ writer = Nobody
  /\ writer' = j
  /\ draft' = db
  /\ carried' = pending[j]
  /\ UNCHANGED <<db, opening, pending, taken, reads, crossed, deleted, committed, bounds>>

(* The code reads a trace's highest number once and counts on, which under *)
(* the lock is the same as reading it again.                               *)
Insert(j) ==
  /\ writer = j
  /\ pending[j] # <<>>
  /\ draft' = With(draft, Head(pending[j]).trace, Head(pending[j]).entry)
  /\ pending' = [pending EXCEPT ![j] = Tail(@)]
  /\ taken' = taken + 1
  /\ UNCHANGED <<db, opening, writer, carried, reads, crossed, deleted, committed, bounds>>

Close == writer' = Nobody /\ draft' = Empty /\ carried' = <<>> /\ taken' = 0

Commit(j) ==
  /\ writer = j
  /\ pending[j] = <<>>
  /\ db' = draft
  /\ committed' = committed + taken
  /\ Close
  /\ UNCHANGED <<opening, pending, reads, crossed, deleted, bounds>>

(* Mutated Fail: what was inserted before the failure is committed.        *)
FailAutocommitted(j) ==
  /\ \/ /\ writer = j /\ Close
        /\ db' = draft
        /\ committed' = committed + taken
     \/ /\ writer # j /\ pending[j] # <<>>
        /\ UNCHANGED <<db, committed, writer, draft, carried, taken>>
  /\ pending' = [pending EXCEPT ![j] = <<>>]
  /\ UNCHANGED <<opening, reads, crossed, deleted, bounds>>

(* The lock stays taken for too long, an event is refused, a statement or  *)
(* the commit fails: nothing of the batch is stored.  So it is with a      *)
(* thread's work that was cancelled before it was taken up.                *)
Fail(j) ==
  /\ \/ writer = j /\ Close
     \/ writer # j /\ pending[j] # <<>> /\ UNCHANGED <<writer, draft, carried, taken>>
  /\ pending' = [pending EXCEPT ![j] = <<>>]
  /\ UNCHANGED <<db, opening, reads, crossed, deleted, committed, bounds>>

-----------------------------------------------------------------------------
(* Reading.  The summary and the events are queried one after the other,   *)
(* each in what is committed by then.                                      *)

Least(m, n) == IF m < n THEN m ELSE n

(* ORDER BY sequence_no LIMIT                                              *)
Nth(S, i) == CHOOSE n \in S : Cardinality({m \in S : m < n}) = i - 1

SelectedLatest(rows, limit) ==
  LET size == Cardinality(DOMAIN rows)
      kept == Least(limit, size)
  IN  [i \in 1 .. kept |->
         LET n == Nth(DOMAIN rows, size - kept + i) IN [no |-> n, entry |-> rows[n]]]

Selected(rows, limit) ==
  [i \in 1 .. Least(limit, Cardinality(DOMAIN rows)) |->
     LET n == Nth(DOMAIN rows, i) IN [no |-> n, entry |-> rows[n]]]

ReadSummary(r) ==
  /\ process = "up"
  /\ reads[r].at # "summarised"
  /\ \E t \in Traces, limit \in Limits :
       reads' = [reads EXCEPT ![r] =
         IF db.runs[t] = NoRun
           THEN NoRead
           ELSE [at |-> "summarised", trace |-> t, limit |-> limit, run |-> db.runs[t]]]
  /\ crossed' = crossed \ {r}
  /\ UNCHANGED <<db, opening, transaction, deleted, committed, bounds>>

ReadEvents(r) ==
  /\ reads[r].at = "summarised"
  /\ reads' = [reads EXCEPT ![r] =
       [at |-> "answered", trace |-> @.trace, limit |-> @.limit, run |-> @.run,
        events |-> Selected(db.rows[@.trace], @.limit)]]
  /\ UNCHANGED <<db, opening, transaction, crossed, deleted, committed, bounds>>

-----------------------------------------------------------------------------
(* Cleaning up.                                                            *)

Stored(d, C) == UNION {{<<t, n>> : n \in DOMAIN d.rows[t]} : t \in C}

Due == {t \in Traces : db.runs[t] # NoRun /\ db.runs[t].started + Keep < now}

(* The oldest first; among equals, by an order of the identifiers.         *)
Oldest(C) ==
  /\ C \subseteq Due
  /\ Cardinality(C) = Least(CleanupBatch, Cardinality(Due))
  /\ \A c \in C, d \in Due \ C : db.runs[c].started <= db.runs[d].started

(* Deleting a run cascades to its events, which were counted before.       *)
Delete(C) ==
  /\ db' = [runs |-> [t \in Traces |-> IF t \in C THEN NoRun ELSE db.runs[t]],
            rows |-> [t \in Traces |-> IF t \in C THEN <<>> ELSE db.rows[t]]]
  /\ deleted' = deleted + Cardinality(Stored(db, C))

CleanUp ==
  /\ process = "up"
  /\ writer = Nobody
  /\ \E C \in SUBSET Traces :
       /\ C # {}
       /\ Oldest(C)
       /\ Delete(C)
       /\ crossed' = crossed \cup
            {r \in Readers : reads[r].at = "summarised" /\ reads[r].trace \in C}
  /\ UNCHANGED <<opening, transaction, reads, committed, bounds>>

-----------------------------------------------------------------------------
(* Opening the store.                                                      *)

(* _is_error_event of the contract, which the migration counts by          *)
Flawed(e) == Failed(e) \/ e.kind.typed

Highest(rows) == Top({rows[i].kind.severity : i \in DOMAIN rows})

(* TraceSummary.from_events of a trace's rows, as its run.                 *)
Summarised(rows) ==
  LET last == rows[Len(rows)]
  IN  [status |-> last.kind.status, severity |-> Highest(rows), started |-> rows[1].at,
       last |-> last.at, ended |-> IF last.kind.status \in Terminal THEN last.at ELSE 0,
       count |-> Len(rows), errors |-> Cardinality({i \in DOMAIN rows : Flawed(rows[i])})]

Migrated ==
  [runs |-> [t \in Traces |-> IF Legacy[t] = <<>> THEN NoRun ELSE Summarised(Legacy[t])],
   rows |-> Legacy]

ResolveByName ==
  /\ process = "down" /\ ~versioned
  /\ process' = "resolved"
  /\ \/ first = "named" /\ first' = "backup" /\ source' = "backup"
     \/ first = "backup" /\ source' = "none" /\ UNCHANGED first
  /\ UNCHANGED <<db, versioned, transaction, reads, crossed, deleted, committed, bounds>>

(* A backup found is what an earlier start renamed and did not finish; the *)
(* renaming is committed at once.                                          *)
Resolve ==
  /\ process = "down" /\ ~versioned
  /\ process' = "resolved"
  /\ first' = "backup"
  /\ source' = "backup"
  /\ UNCHANGED <<db, versioned, transaction, reads, crossed, deleted, committed, bounds>>

(* The migrated rows and the version are committed together.  The new      *)
(* tables are committed before; an earlier start may have left them empty. *)
Migrate ==
  /\ process = "resolved"
  /\ process' = "up"
  /\ versioned' = TRUE
  /\ db' = IF source = "backup" THEN Migrated ELSE db
  /\ UNCHANGED <<first, source, transaction, reads, crossed, deleted, committed, bounds>>

Reopen ==
  /\ process = "down" /\ versioned
  /\ process' = "up"
  /\ UNCHANGED <<db, first, versioned, source, transaction, reads, crossed, deleted,
                 committed, bounds>>

(* Open transactions are rolled back, queued work and readers are gone.    *)
Crash ==
  /\ process # "down" /\ crashes < MaxCrashes
  /\ crashes' = crashes + 1
  /\ process' = "down"
  /\ source' = "none"
  /\ pending' = [j \in Jobs |-> <<>>]
  /\ Close
  /\ reads' = [r \in Readers |-> NoRead]
  /\ crossed' = {}
  /\ UNCHANGED <<db, first, versioned, deleted, committed, offered, now>>

Tick ==
  /\ now < MaxTime
  /\ now' = now + 1
  /\ UNCHANGED <<db, opening, transaction, reads, crossed, deleted, committed, offered, crashes>>

Next ==
  \/ \E j \in Jobs : Record(j) \/ Begin(j) \/ Insert(j) \/ Commit(j) \/ Fail(j)
  \/ \E r \in Readers : ReadSummary(r) \/ ReadEvents(r)
  \/ CleanUp
  \/ Resolve \/ Migrate \/ Reopen \/ Crash
  \/ Tick

Spec == Init /\ [][Next]_vars
=============================================================================
