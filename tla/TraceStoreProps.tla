-------------------------- MODULE TraceStoreProps --------------------------
(***************************************************************************)
(* What the trace store keeps of what it is given.                         *)
(***************************************************************************)
EXTENDS TraceStore

(* Types; rows stay sequences, numbered from 1 without a gap               *)
(* (_next_sequence_no, sqlite_trace_store.py:1070).                        *)
TypeOK ==
  /\ db \in Store /\ draft \in Store
  /\ first \in {"named", "backup"}
  /\ versioned \in BOOLEAN
  /\ process \in {"down", "resolved", "up"}
  /\ source \in {"none", "backup"}
  /\ pending \in [Jobs -> Seq([trace : Traces, entry : Entry])]
  /\ writer \in Jobs \cup {Nobody}
  /\ carried \in Seq([trace : Traces, entry : Entry])
  /\ DOMAIN reads = Readers
  /\ \A r \in Readers :
       /\ reads[r].at \in {"idle", "summarised", "answered"}
       /\ reads[r].at # "idle" =>
            reads[r].trace \in Traces /\ reads[r].limit \in Limits /\ reads[r].run \in Run
  /\ crossed \in SUBSET Readers
  /\ {taken, deleted, committed, offered, crashes} \subseteq Nat
  /\ now \in Nat \ {0}

(* A trace's run is the summary of its events, which are numbered without  *)
(* a gap.  An event whose error is typed though it did not fail counts as  *)
(* an error when it was migrated and not when it was recorded.             *)
Summary(run, rows) ==
  LET n == run.count
  IN  /\ n > 0 /\ DOMAIN rows = 1 .. n
      /\ run.started = rows[1].at
      /\ run.last = rows[n].at
      /\ run.status = rows[n].kind.status
      /\ \A i \in 1 .. n : rows[i].kind.severity <= run.severity
      /\ \E i \in 1 .. n : rows[i].kind.severity = run.severity
      /\ Cardinality({i \in 1 .. n : Failed(rows[i])}) <= run.errors
      /\ run.errors <= Cardinality({i \in 1 .. n : Flawed(rows[i])})
      /\ \A i \in 1 .. n :
           /\ rows[i].kind.status \in Terminal
           /\ \A k \in i + 1 .. n : rows[k].kind.status \notin Terminal
           => run.ended = rows[i].at
      /\ (\A i \in 1 .. n : rows[i].kind.status \notin Terminal) => run.ended = 0

Agrees(d) ==
  \A t \in Traces :
    /\ d.runs[t] = NoRun => DOMAIN d.rows[t] = {}
    /\ d.runs[t] # NoRun => Summary(d.runs[t], d.rows[t])

(* In what is committed and in an open transaction, whatever batches,      *)
(* failures, cleanups, crashes and migrations came before: the counters    *)
(* are updated statement by statement (sqlite_trace_store.py:334).         *)
SummariesAgree == Agrees(db) /\ Agrees(draft)

(* Every event whose transaction committed, and every row of the first     *)
(* schema once it is migrated, is stored or was counted by the cleanup     *)
(* that deleted it: none is lost or stored twice by a crash or a failure.  *)
LegacyRows == UNION {{<<t, n>> : n \in DOMAIN Legacy[t]} : t \in Traces}

EventsAccounted ==
  Cardinality(Stored(db, Traces)) + deleted
    = committed + (IF versioned THEN Cardinality(LegacyRows) ELSE 0)

(* A read numbers the events it returns by their place                     *)
(* (observability/debug_trace_service.py:33), which is their sequence_no.  *)
(* It returns no fewer than its summary counts, up to the limit, unless    *)
(* the trace was cleaned up between its queries, and when it returns just  *)
(* those, the summary is theirs.                                           *)
ReadsFit ==
  \A r \in Readers : reads[r].at = "answered" =>
    LET run == reads[r].run
        events == reads[r].events
    IN  /\ \A i \in DOMAIN events : events[i].no = i
        /\ r \notin crossed => Len(events) >= Least(reads[r].limit, run.count)
        /\ r \notin crossed /\ Len(events) = run.count =>
             Summary(run, [i \in DOMAIN events |-> events[i].entry])

(* A cleanup takes the oldest traces, and none that started within the     *)
(* time kept (sqlite_trace_store.py:1518).                                 *)
Gone(t) == db.runs[t] # NoRun /\ db'.runs[t] = NoRun

CleanupTakesOldest ==
  [][\A t \in Traces : Gone(t) =>
       /\ db.runs[t].started + Keep < now
       /\ \A u \in Traces : db.runs[u] # NoRun /\ ~Gone(u) =>
            db.runs[t].started <= db.runs[u].started]_vars

(* The store implements the log it promises, whatever transactions fail,   *)
(* threads take turns, crashes interrupt or migrations repeat: a batch is  *)
(* one transaction that numbers its events under the write lock            *)
(* (sqlite_trace_store.py:335), and the migration another                  *)
(* (sqlite_trace_schema.py:149).                                           *)
Given == [j \in Jobs |-> IF writer = j THEN carried ELSE pending[j]]

Log == INSTANCE TraceLog WITH
  log     <- db.rows,
  given   <- Given,
  adopted <- versioned

KeepsLog == Log!Spec
=============================================================================
