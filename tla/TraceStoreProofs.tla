-------------------------- MODULE TraceStoreProofs --------------------------
(***************************************************************************)
(* The trace store's summaries agree with its events, no event is lost or  *)
(* stored twice, and reads and cleanups return and take what they should,  *)
(* for any events, threads, readers, first schema's rows and crashes.      *)
(***************************************************************************)
EXTENDS TraceStoreProps, FiniteSetTheorems, SequenceTheorems, TLAPS

-----------------------------------------------------------------------------
(* Sequences of events.                                                    *)

LEMMA TopOfInterval ==
  ASSUME NEW n \in Nat, n > 0
  PROVE  Top(1 .. n) = n
<1>1. n \in 1 .. n /\ \A m \in 1 .. n : m <= n
  OBVIOUS
<1>2. \A k \in 1 .. n : (\A m \in 1 .. n : m <= k) => k = n
  OBVIOUS
<1> QED BY <1>1, <1>2 DEF Top

(* Of the severities of some events one is the highest. *)
LEMMA TopSeverity ==
  ASSUME NEW S \in SUBSET Severities, S # {}
  PROVE  Top(S) \in S /\ \A m \in S : m <= Top(S)
<1>1. \E n \in S : \A m \in S : m <= n
  <2>1. CASE 5 \in S BY <2>1 DEF Severities
  <2>2. CASE 5 \notin S /\ 4 \in S BY <2>2 DEF Severities
  <2>3. CASE 5 \notin S /\ 4 \notin S /\ 3 \in S BY <2>3 DEF Severities
  <2>4. CASE 5 \notin S /\ 4 \notin S /\ 3 \notin S /\ 2 \in S BY <2>4 DEF Severities
  <2>5. CASE 5 \notin S /\ 4 \notin S /\ 3 \notin S /\ 2 \notin S
    <3>1. \A m \in S : m = 1 BY <2>5 DEF Severities
    <3> QED BY <3>1
  <2> QED BY <2>1, <2>2, <2>3, <2>4, <2>5
<1> QED BY <1>1 DEF Top

(* The next event gets the next number. *)
LEMMA InsertingAppends ==
  ASSUME NEW rows \in Seq(Entry), NEW e \in Entry
  PROVE  Inserted(rows, e) = Append(rows, e)
<1> DEFINE n == Len(rows)
<1>1. n \in Nat /\ DOMAIN rows = 1 .. n
  OBVIOUS
<1>2. NextNo(rows) = n + 1
  <2>1. CASE n = 0
    <3>1. DOMAIN rows = {} BY <1>1, <2>1
    <3> QED BY <2>1, <3>1 DEF NextNo
  <2>2. CASE n > 0
    <3>1. Top(DOMAIN rows) = n BY <1>1, <2>2, TopOfInterval
    <3>2. DOMAIN rows # {}
      <4>1. 1 \in DOMAIN rows BY <1>1, <2>2
      <4> QED BY <4>1
    <3> QED BY <3>1, <3>2 DEF NextNo
  <2> QED BY <1>1, <2>1, <2>2
<1>3. DOMAIN rows \cup {n + 1} = 1 .. n + 1
  <2>1. (1 .. n) \cup {n + 1} = 1 .. n + 1 BY <1>1
  <2> QED BY <1>1, <2>1
<1>4. Inserted(rows, e) = [i \in 1 .. n + 1 |-> IF i = n + 1 THEN e ELSE rows[i]]
  BY <1>2, <1>3 DEF Inserted
<1> DEFINE longer == [i \in 1 .. n + 1 |-> IF i = n + 1 THEN e ELSE rows[i]]
<1>5. Append(rows, e) = longer
  <2>1. Append(rows, e) \in Seq(Entry) /\ Len(Append(rows, e)) = n + 1
    OBVIOUS
  <2>2. longer \in [1 .. n + 1 -> Entry]
    BY <1>1
  <2>3. longer \in Seq(Entry) /\ Len(longer) = n + 1
    BY <1>1, <2>2, SeqDef
  <2>4. \A i \in 1 .. n + 1 : Append(rows, e)[i] = longer[i]
    BY <1>1
  <2> HIDE DEF longer
  <2> QED BY <1>1, <2>1, <2>3, <2>4, SeqEqual
<1> HIDE DEF longer
<1> QED BY <1>1, <1>2, <1>3, <1>5 DEF Inserted, longer

(* The numbers of a trace's events. *)
LEMMA Interval ==
  ASSUME NEW n \in Nat
  PROVE  IsFiniteSet(1 .. n) /\ Cardinality(1 .. n) = n
<1>1. 1 \in Int /\ n \in Int
  OBVIOUS
<1>2. IsFiniteSet(1 .. n) /\ Cardinality(1 .. n) = IF 1 > n THEN 0 ELSE n - 1 + 1
  BY <1>1, FS_Interval
<1> QED BY <1>2

(* How a count moves with one event more. *)
LEMMA CountGrows ==
  ASSUME NEW n \in Nat, NEW S \in SUBSET (1 .. n)
  PROVE  /\ Cardinality(S) \in Nat
         /\ Cardinality(S \cup {n + 1}) = Cardinality(S) + 1
<1>1. IsFiniteSet(1 .. n) BY Interval
<1>2. IsFiniteSet(S) BY <1>1, FS_Subset
<1>3. n + 1 \notin S
  OBVIOUS
<1> QED BY <1>2, <1>3, FS_AddElement, FS_CardinalityType

-----------------------------------------------------------------------------
(* Runs.                                                                   *)

LEMMA KindsOf ==
  ASSUME NEW e \in Entry
  PROVE  /\ e.at \in Nat \ {0} /\ e.kind \in Kinds
         /\ e.kind.severity \in Severities
         /\ e.kind.status \in {k.status : k \in Kinds}
         /\ e.kind.typed \in BOOLEAN
         /\ Failed(e) \in BOOLEAN /\ Flawed(e) \in BOOLEAN
         /\ Failed(e) => Flawed(e)
BY TraceStoreAssumption DEF TraceStoreAssumption, Entry, Failed, Flawed

LEMMA RunsOf ==
  ASSUME NEW run \in Run
  PROVE  /\ run # NoRun
         /\ run.severity \in Severities /\ run.count \in Nat /\ run.errors \in Nat
         /\ run.started \in Nat /\ run.ended \in Nat
BY TraceStoreAssumption DEF TraceStoreAssumption, Run

LEMMA RunCounted ==
  ASSUME NEW up \in Run, NEW e \in Entry, NEW next, next = Counted(up, e)
  PROVE  /\ next \in Run
         /\ next.count = up.count + 1
         /\ next.errors = up.errors + (IF Failed(e) THEN 1 ELSE 0)
         /\ next.ended = IF e.kind.status \in Terminal THEN e.at ELSE up.ended
         /\ next.status = up.status /\ next.severity = up.severity
         /\ next.started = up.started /\ next.last = up.last
<1> DEFINE c == up.count + 1
           x == IF Failed(e) THEN up.errors + 1 ELSE up.errors
           d == IF e.kind.status \in Terminal THEN e.at ELSE up.ended
<1>1. c \in Nat /\ x \in Nat /\ d \in Nat
  BY RunsOf, KindsOf
<1>2. next = [up EXCEPT !.count = c, !.errors = x, !.ended = d]
  BY DEF Counted
<1>3. x = up.errors + (IF Failed(e) THEN 1 ELSE 0)
  BY RunsOf
<1> HIDE DEF c, x, d
<1>4. /\ next \in Run
      /\ next.count = c /\ next.errors = x /\ next.ended = d
      /\ next.status = up.status /\ next.severity = up.severity
      /\ next.started = up.started /\ next.last = up.last
  BY <1>1, <1>2 DEF Run
<1> QED BY <1>3, <1>4 DEF c, d

(* One event moves the run of its trace. *)
LEMMA MovedRun ==
  ASSUME NEW run \in Run \cup {NoRun}, NEW e \in Entry, NEW next, next = Counted(Upserted(run, e), e)
  PROVE  /\ next \in Run
         /\ next.count = (IF run = NoRun THEN 0 ELSE run.count) + 1
         /\ next.errors = (IF run = NoRun THEN 0 ELSE run.errors) + (IF Failed(e) THEN 1 ELSE 0)
         /\ next.status = e.kind.status /\ next.last = e.at
         /\ next.started = IF run = NoRun THEN e.at ELSE run.started
         /\ next.severity = IF run = NoRun THEN e.kind.severity ELSE Larger(run.severity, e.kind.severity)
         /\ next.ended = IF e.kind.status \in Terminal THEN e.at
                         ELSE IF run = NoRun THEN 0 ELSE run.ended
<1>1. CASE run = NoRun
  <2> DEFINE up == [status |-> e.kind.status, severity |-> e.kind.severity, started |-> e.at,
                    last |-> e.at, ended |-> 0, count |-> 0, errors |-> 0]
  <2>1. Upserted(run, e) = up BY <1>1 DEF Upserted
  <2>2. up \in Run BY KindsOf DEF Run
  <2>3. /\ up.status = e.kind.status /\ up.severity = e.kind.severity /\ up.started = e.at
        /\ up.last = e.at /\ up.ended = 0 /\ up.count = 0 /\ up.errors = 0
    OBVIOUS
  <2> HIDE DEF up
  <2>4. next = Counted(up, e) BY <2>1
  <2> QED BY <1>1, <2>2, <2>3, <2>4, RunCounted
<1>2. CASE run \in Run
  <2>1. run # NoRun BY <1>2, RunsOf
  <2> DEFINE up == [run EXCEPT !.status = e.kind.status,
                               !.severity = Larger(run.severity, e.kind.severity), !.last = e.at]
  <2>2. Upserted(run, e) = up BY <2>1 DEF Upserted
  <2>3. Larger(run.severity, e.kind.severity) \in Severities BY <1>2, RunsOf, KindsOf DEF Larger
  <2>4. up \in Run BY <1>2, <2>3, KindsOf DEF Run
  <2>5. /\ up.status = e.kind.status /\ up.severity = Larger(run.severity, e.kind.severity)
        /\ up.last = e.at /\ up.started = run.started /\ up.ended = run.ended
        /\ up.count = run.count /\ up.errors = run.errors
    BY <1>2 DEF Run
  <2> HIDE DEF up
  <2>6. next = Counted(up, e) BY <2>2
  <2> QED BY <2>1, <2>4, <2>5, <2>6, RunCounted
<1> QED BY <1>1, <1>2

-----------------------------------------------------------------------------
(* Summaries.                                                              *)

ErrorsBetween(n, rows, errors) ==
  /\ Cardinality({i \in 1 .. n : Failed(rows[i])}) <= errors
  /\ errors <= Cardinality({i \in 1 .. n : Flawed(rows[i])})

SeverityOf(n, rows, severity) ==
  /\ \A i \in 1 .. n : rows[i].kind.severity <= severity
  /\ \E i \in 1 .. n : rows[i].kind.severity = severity

EndOf(n, rows, ended) ==
  /\ \A i \in 1 .. n :
       /\ rows[i].kind.status \in Terminal
       /\ \A k \in i + 1 .. n : rows[k].kind.status \notin Terminal
       => ended = rows[i].at
  /\ (\A i \in 1 .. n : rows[i].kind.status \notin Terminal) => ended = 0

LEMMA SummaryParts ==
  ASSUME NEW run, NEW rows
  PROVE  Summary(run, rows) <=>
           /\ run.count > 0 /\ DOMAIN rows = 1 .. run.count
           /\ run.started = rows[1].at
           /\ run.last = rows[run.count].at
           /\ run.status = rows[run.count].kind.status
           /\ SeverityOf(run.count, rows, run.severity)
           /\ ErrorsBetween(run.count, rows, run.errors)
           /\ EndOf(run.count, rows, run.ended)
BY DEF Summary, SeverityOf, ErrorsBetween, EndOf

(* One event more, in the events and in each part of their summary. *)
LEMMA Appending ==
  ASSUME NEW rows \in Seq(Entry), NEW e \in Entry, NEW n \in Nat, n = Len(rows),
         NEW longer, longer = Append(rows, e)
  PROVE  /\ longer \in Seq(Entry) /\ Len(longer) = n + 1 /\ DOMAIN longer = 1 .. n + 1
         /\ \A i \in 1 .. n : longer[i] = rows[i]
         /\ longer[n + 1] = e
OBVIOUS

LEMMA ErrorsGrow ==
  ASSUME NEW rows \in Seq(Entry), NEW e \in Entry, NEW n \in Nat, n = Len(rows),
         NEW longer, longer = Append(rows, e), NEW errors \in Nat,
         ErrorsBetween(n, rows, errors)
  PROVE  ErrorsBetween(n + 1, longer, errors + (IF Failed(e) THEN 1 ELSE 0))
<1> DEFINE F == {i \in 1 .. n : Failed(rows[i])}
           W == {i \in 1 .. n : Flawed(rows[i])}
           F1 == {i \in 1 .. n + 1 : Failed(longer[i])}
           W1 == {i \in 1 .. n + 1 : Flawed(longer[i])}
<1>1. (\A i \in 1 .. n : longer[i] = rows[i]) /\ longer[n + 1] = e
  BY Appending
<1>2. 1 .. n + 1 = (1 .. n) \cup {n + 1}
  OBVIOUS
<1>3. F1 = F \cup {i \in {n + 1} : Failed(e)}
  BY <1>1, <1>2
<1>4. W1 = W \cup {i \in {n + 1} : Flawed(e)}
  BY <1>1, <1>2
<1>5. F \in SUBSET (1 .. n) /\ W \in SUBSET (1 .. n)
  OBVIOUS
<1>6. Cardinality(F) <= errors /\ errors <= Cardinality(W)
  BY DEF ErrorsBetween
<1>7. Failed(e) \in BOOLEAN /\ Flawed(e) \in BOOLEAN /\ (Failed(e) => Flawed(e))
  BY KindsOf
<1> HIDE DEF F, W, F1, W1
<1>8. /\ Cardinality(F) \in Nat
      /\ Cardinality(F1) = IF Failed(e) THEN Cardinality(F) + 1 ELSE Cardinality(F)
  <2>1. /\ Cardinality(F) \in Nat
        /\ Cardinality(F \cup {n + 1}) = Cardinality(F) + 1
    BY <1>5, CountGrows
  <2>2. F1 = IF Failed(e) THEN F \cup {n + 1} ELSE F
    BY <1>3
  <2> QED BY <2>1, <2>2
<1>9. /\ Cardinality(W) \in Nat
      /\ Cardinality(W1) = IF Flawed(e) THEN Cardinality(W) + 1 ELSE Cardinality(W)
  <2>1. /\ Cardinality(W) \in Nat
        /\ Cardinality(W \cup {n + 1}) = Cardinality(W) + 1
    BY <1>5, CountGrows
  <2>2. W1 = IF Flawed(e) THEN W \cup {n + 1} ELSE W
    BY <1>4
  <2> QED BY <2>1, <2>2
<1>10. /\ Cardinality(F1) <= errors + (IF Failed(e) THEN 1 ELSE 0)
       /\ errors + (IF Failed(e) THEN 1 ELSE 0) <= Cardinality(W1)
  BY <1>6, <1>7, <1>8, <1>9
<1> QED BY <1>10 DEF ErrorsBetween, F1, W1

LEMMA EndMoves ==
  ASSUME NEW rows \in Seq(Entry), NEW e \in Entry, NEW n \in Nat, n = Len(rows),
         NEW longer, longer = Append(rows, e), NEW ended, EndOf(n, rows, ended)
  PROVE  EndOf(n + 1, longer, IF e.kind.status \in Terminal THEN e.at ELSE ended)
<1>1. (\A i \in 1 .. n : longer[i] = rows[i]) /\ longer[n + 1] = e
  BY Appending
<1>2. ASSUME NEW i \in 1 .. n + 1, longer[i].kind.status \in Terminal,
             \A k \in i + 1 .. n + 1 : longer[k].kind.status \notin Terminal
      PROVE  (IF e.kind.status \in Terminal THEN e.at ELSE ended) = longer[i].at
  <2>1. CASE i = n + 1
    BY <1>1, <1>2, <2>1
  <2>2. CASE i # n + 1
    <3>1. i \in 1 .. n /\ n + 1 \in i + 1 .. n + 1
      BY <2>2
    <3>2. e.kind.status \notin Terminal
      BY <1>1, <1>2, <3>1
    <3>3. \A k \in i + 1 .. n : rows[k].kind.status \notin Terminal
      BY <1>1, <1>2
    <3>4. rows[i].kind.status \in Terminal
      BY <1>1, <1>2, <3>1
    <3>5. ended = rows[i].at
      BY <3>1, <3>3, <3>4 DEF EndOf
    <3> QED BY <1>1, <3>1, <3>2, <3>5
  <2> QED BY <2>1, <2>2
<1>3. ASSUME \A i \in 1 .. n + 1 : longer[i].kind.status \notin Terminal
      PROVE  (IF e.kind.status \in Terminal THEN e.at ELSE ended) = 0
  <2>1. e.kind.status \notin Terminal
    BY <1>1, <1>3
  <2>2. \A i \in 1 .. n : rows[i].kind.status \notin Terminal
    BY <1>1, <1>3
  <2> QED BY <2>1, <2>2 DEF EndOf
<1> QED BY <1>2, <1>3 DEF EndOf

LEMMA SeverityRises ==
  ASSUME NEW rows \in Seq(Entry), NEW e \in Entry, NEW n \in Nat, n = Len(rows),
         NEW longer, longer = Append(rows, e), NEW severity \in Severities,
         n > 0 => SeverityOf(n, rows, severity)
  PROVE  SeverityOf(n + 1, longer, IF n = 0 THEN e.kind.severity ELSE Larger(severity, e.kind.severity))
<1>1. (\A i \in 1 .. n : longer[i] = rows[i]) /\ longer[n + 1] = e
  BY Appending
<1>2. e.kind.severity \in Nat /\ severity \in Nat
  BY KindsOf DEF Severities
<1>3. \A i \in 1 .. n : rows[i].kind.severity \in Nat
  <2>1. \A i \in 1 .. n : rows[i] \in Entry
    OBVIOUS
  <2>2. \A r \in Entry : r.kind.severity \in Nat
    BY KindsOf DEF Severities
  <2> QED BY <2>1, <2>2
<1>4. 1 .. n + 1 = (1 .. n) \cup {n + 1}
  OBVIOUS
<1>5. CASE n = 0
  BY <1>1, <1>2, <1>5 DEF SeverityOf
<1>6. CASE n > 0
  <2>1. \A i \in 1 .. n : rows[i].kind.severity <= severity
    BY <1>6 DEF SeverityOf
  <2>2. PICK i \in 1 .. n : rows[i].kind.severity = severity
    BY <1>6 DEF SeverityOf
  <2> DEFINE larger == Larger(severity, e.kind.severity)
  <2>3. larger \in Nat /\ severity <= larger /\ e.kind.severity <= larger
        /\ (larger = severity \/ larger = e.kind.severity)
    BY <1>2 DEF Larger
  <2> HIDE DEF larger
  <2>4. \A k \in 1 .. n + 1 : longer[k].kind.severity <= larger
    <3>1. \A k \in 1 .. n : longer[k].kind.severity <= larger
      BY <1>1, <1>2, <1>3, <2>1, <2>3
    <3> QED BY <1>1, <1>4, <2>3, <3>1
  <2>5. \E k \in 1 .. n + 1 : longer[k].kind.severity = larger
    <3>1. CASE larger = severity BY <1>1, <2>2, <3>1
    <3>2. CASE larger = e.kind.severity BY <1>1, <3>2
    <3> QED BY <2>3, <3>1, <3>2
  <2> QED BY <1>6, <2>4, <2>5 DEF SeverityOf, larger
<1> QED BY <1>5, <1>6

(* A run and its events, or neither. *)
Fits(run, rows) == IF run = NoRun THEN rows = <<>> ELSE Summary(run, rows)

LEMMA SummaryMoves ==
  ASSUME NEW run \in Run \cup {NoRun}, NEW rows \in Seq(Entry), NEW e \in Entry, Fits(run, rows)
  PROVE  Summary(Counted(Upserted(run, e), e), Append(rows, e))
<1> DEFINE n == Len(rows)
           next == Counted(Upserted(run, e), e)
           longer == Append(rows, e)
<1>1. n \in Nat /\ DOMAIN rows = 1 .. n
  OBVIOUS
<1>2. /\ longer \in Seq(Entry) /\ Len(longer) = n + 1 /\ DOMAIN longer = 1 .. n + 1
      /\ \A i \in 1 .. n : longer[i] = rows[i]
      /\ longer[n + 1] = e
  BY <1>1, Appending
<1>3. /\ next \in Run
      /\ next.count = (IF run = NoRun THEN 0 ELSE run.count) + 1
      /\ next.errors = (IF run = NoRun THEN 0 ELSE run.errors) + (IF Failed(e) THEN 1 ELSE 0)
      /\ next.status = e.kind.status /\ next.last = e.at
      /\ next.started = IF run = NoRun THEN e.at ELSE run.started
      /\ next.severity = IF run = NoRun THEN e.kind.severity ELSE Larger(run.severity, e.kind.severity)
      /\ next.ended = IF e.kind.status \in Terminal THEN e.at
                      ELSE IF run = NoRun THEN 0 ELSE run.ended
  BY MovedRun, SMTT(20)
<1>4. e.kind.severity \in Severities
  BY KindsOf
<1> HIDE DEF next
<1>5. CASE run = NoRun
  <2>1. rows = <<>> /\ n = 0
    BY <1>5 DEF Fits
  <2>2. next.count = n + 1 /\ next.started = longer[1].at
    BY <1>2, <1>3, <1>5, <2>1
  <2>3. ErrorsBetween(n, rows, 0) /\ EndOf(n, rows, 0)
    <3>1. {i \in 1 .. n : Failed(rows[i])} = {} /\ {i \in 1 .. n : Flawed(rows[i])} = {}
      BY <2>1
    <3> QED BY <2>1, <3>1, FS_EmptySet DEF ErrorsBetween, EndOf
  <2>4. ErrorsBetween(n + 1, longer, next.errors)
    <3>1. ErrorsBetween(n + 1, longer, 0 + (IF Failed(e) THEN 1 ELSE 0))
      BY <1>1, <2>3, ErrorsGrow
    <3> QED BY <1>3, <1>5, <3>1
  <2>5. EndOf(n + 1, longer, next.ended)
    <3>1. EndOf(n + 1, longer, IF e.kind.status \in Terminal THEN e.at ELSE 0)
      BY <1>1, <2>3, EndMoves
    <3> QED BY <1>3, <1>5, <3>1
  <2>6. SeverityOf(n + 1, longer, next.severity)
    <3>1. SeverityOf(n + 1, longer, IF n = 0 THEN e.kind.severity ELSE Larger(e.kind.severity, e.kind.severity))
      <4>1. n > 0 => SeverityOf(n, rows, e.kind.severity)
        BY <2>1
      <4> QED BY <1>1, <1>4, <4>1, SeverityRises
    <3> QED BY <1>3, <1>5, <2>1, <3>1
  <2> HIDE DEF longer, n
  <2>7. Summary(next, longer)
    <3>1. next.last = longer[next.count].at /\ next.status = longer[next.count].kind.status
      BY <1>2, <1>3, <2>2
    <3>2. next.count > 0 /\ DOMAIN longer = 1 .. next.count
      BY <1>1, <1>2, <2>2
    <3> QED BY <2>2, <2>4, <2>5, <2>6, <3>1, <3>2, SummaryParts
  <2> QED BY <2>7 DEF next, longer
<1>6. CASE run # NoRun
  <2>1. run \in Run /\ run.severity \in Severities /\ run.errors \in Nat /\ run.count \in Nat
    BY <1>6, RunsOf
  <2>2. /\ run.count > 0 /\ DOMAIN rows = 1 .. run.count
        /\ run.started = rows[1].at
        /\ SeverityOf(run.count, rows, run.severity)
        /\ ErrorsBetween(run.count, rows, run.errors)
        /\ EndOf(run.count, rows, run.ended)
    <3>1. Summary(run, rows) BY <1>6 DEF Fits
    <3> QED BY <3>1, SummaryParts
  <2>3. run.count = n
    BY <1>1, <2>1, <2>2
  <2>4. next.count = n + 1 /\ next.started = longer[1].at
    BY <1>1, <1>2, <1>3, <1>6, <2>2, <2>3
  <2>5. ErrorsBetween(n + 1, longer, next.errors)
    <3>1. ErrorsBetween(n + 1, longer, run.errors + (IF Failed(e) THEN 1 ELSE 0))
      BY <1>1, <2>1, <2>2, <2>3, ErrorsGrow
    <3> QED BY <1>3, <1>6, <3>1
  <2>6. EndOf(n + 1, longer, next.ended)
    <3>1. EndOf(n + 1, longer, IF e.kind.status \in Terminal THEN e.at ELSE run.ended)
      BY <1>1, <2>2, <2>3, EndMoves
    <3> QED BY <1>3, <1>6, <3>1
  <2>7. SeverityOf(n + 1, longer, next.severity)
    <3>1. SeverityOf(n + 1, longer, IF n = 0 THEN e.kind.severity ELSE Larger(run.severity, e.kind.severity))
      BY <1>1, <2>1, <2>2, <2>3, SeverityRises
    <3> QED BY <1>1, <1>3, <1>6, <2>2, <2>3, <3>1
  <2> HIDE DEF longer, n
  <2>8. Summary(next, longer)
    <3>1. next.last = longer[next.count].at /\ next.status = longer[next.count].kind.status
      BY <1>2, <1>3, <2>4
    <3>2. next.count > 0 /\ DOMAIN longer = 1 .. next.count
      BY <1>1, <1>2, <2>4
    <3> QED BY <2>4, <2>5, <2>6, <2>7, <3>1, <3>2, SummaryParts
  <2> QED BY <2>8 DEF next, longer
<1> QED BY <1>5, <1>6

LEMMA Fitting ==
  ASSUME NEW d \in Store
  PROVE  Agrees(d) <=> \A t \in Traces : Fits(d.runs[t], d.rows[t])
<1>1. ASSUME NEW t \in Traces PROVE DOMAIN d.rows[t] = {} <=> d.rows[t] = <<>>
  <2>1. d.rows[t] \in Seq(Entry) BY DEF Store
  <2>2. DOMAIN d.rows[t] = 1 .. Len(d.rows[t]) /\ Len(d.rows[t]) \in Nat BY <2>1
  <2>3. Len(d.rows[t]) # 0 => 1 \in DOMAIN d.rows[t] BY <2>2
  <2>4. Len(d.rows[t]) = 0 => d.rows[t] = <<>> BY <2>1
  <2>5. DOMAIN <<>> = {} OBVIOUS
  <2> QED BY <2>3, <2>4, <2>5
<1> QED BY <1>1 DEF Agrees, Fits

(* Recording an event keeps a store's runs the summaries of its events. *)
LEMMA Recording ==
  ASSUME NEW d \in Store, Agrees(d), NEW t \in Traces, NEW e \in Entry
  PROVE  /\ With(d, t, e) \in Store /\ Agrees(With(d, t, e))
         /\ With(d, t, e).runs[t] # NoRun
         /\ d.runs[t] # NoRun => With(d, t, e).runs[t].started = d.runs[t].started
         /\ With(d, t, e).rows[t] = Append(d.rows[t], e)
         /\ \A u \in Traces \ {t} : With(d, t, e).runs[u] = d.runs[u] /\ With(d, t, e).rows[u] = d.rows[u]
<1> DEFINE next == With(d, t, e)
<1> DEFINE run == Counted(Upserted(d.runs[t], e), e)
           rows == Append(d.rows[t], e)
<1>1. d.runs \in [Traces -> Run \cup {NoRun}] /\ d.rows \in [Traces -> Seq(Entry)]
  BY DEF Store
<1>2. d.runs[t] \in Run \cup {NoRun} /\ d.rows[t] \in Seq(Entry) /\ Fits(d.runs[t], d.rows[t])
  BY <1>1, Fitting
<1>3. run \in Run /\ rows \in Seq(Entry) /\ run # NoRun
  BY <1>2, MovedRun, RunsOf, Appending
<1>4. Summary(run, rows)
  BY <1>2, SummaryMoves
<1>5. d.runs[t] # NoRun => run.started = d.runs[t].started
  BY <1>2, MovedRun
<1>6. Inserted(d.rows[t], e) = rows
  BY <1>2, InsertingAppends
<1>7. next = [runs |-> [d.runs EXCEPT ![t] = run], rows |-> [d.rows EXCEPT ![t] = rows]]
  BY <1>6 DEF With
<1> HIDE DEF run, rows, next
<1>8. next.runs = [d.runs EXCEPT ![t] = run] /\ next.rows = [d.rows EXCEPT ![t] = rows]
  BY <1>7
<1>9. next \in Store
  BY <1>1, <1>3, <1>7 DEF Store
<1>10. /\ next.runs[t] = run /\ next.rows[t] = rows
       /\ \A u \in Traces \ {t} : next.runs[u] = d.runs[u] /\ next.rows[u] = d.rows[u]
  BY <1>1, <1>8
<1>11. \A u \in Traces : Fits(next.runs[u], next.rows[u])
  <2>1. Fits(next.runs[t], next.rows[t]) BY <1>3, <1>4, <1>10 DEF Fits
  <2>2. \A u \in Traces \ {t} : Fits(d.runs[u], d.rows[u]) BY Fitting
  <2> QED BY <1>10, <2>1, <2>2
<1>12. Agrees(next)
  BY <1>9, <1>11, Fitting
<1> QED BY <1>3, <1>5, <1>9, <1>10, <1>12 DEF rows, next

(* The summary the migration makes of a trace's rows. *)
LEMMA Summarising ==
  ASSUME NEW rows \in Seq(Entry), rows # <<>>,
         \A i \in DOMAIN rows : rows[i].kind.status \in Terminal
  PROVE  Summarised(rows) \in Run /\ Summary(Summarised(rows), rows)
<1> DEFINE n == Len(rows)
           S == {rows[i].kind.severity : i \in DOMAIN rows}
           F == {i \in 1 .. n : Failed(rows[i])}
           W == {i \in 1 .. n : Flawed(rows[i])}
           run == Summarised(rows)
<1>1. n \in Nat /\ n > 0 /\ DOMAIN rows = 1 .. n
  OBVIOUS
<1>2. \A i \in 1 .. n : rows[i] \in Entry
  BY <1>1
<1>3. S \in SUBSET Severities /\ S # {}
  <2>1. \A i \in 1 .. n : rows[i].kind.severity \in Severities
    BY <1>2, KindsOf
  <2>2. rows[1].kind.severity \in S
    BY <1>1
  <2> QED BY <1>1, <2>1, <2>2
<1>4. Top(S) \in S /\ \A m \in S : m <= Top(S)
  BY <1>3, TopSeverity
<1>5. Cardinality(F) <= Cardinality(W) /\ Cardinality(W) \in Nat
  <2>1. F \in SUBSET W
    BY <1>2, KindsOf
  <2>2. IsFiniteSet(1 .. n) /\ W \in SUBSET (1 .. n)
    BY <1>1, Interval
  <2>3. IsFiniteSet(W)
    BY <2>2, FS_Subset
  <2> HIDE DEF F, W
  <2> QED BY <2>1, <2>3, FS_Subset, FS_CardinalityType
<1>6. \A i \in 1 .. n : rows[i].kind.status \in Terminal
  BY <1>1
<1>7. W = {i \in DOMAIN rows : Flawed(rows[i])}
  BY <1>1
<1>8. run = [status |-> rows[n].kind.status, severity |-> Top(S), started |-> rows[1].at,
             last |-> rows[n].at, ended |-> rows[n].at, count |-> n, errors |-> Cardinality(W)]
  <2>1. rows[n].kind.status \in Terminal
    BY <1>1, <1>6
  <2>2. Highest(rows) = Top(S)
    BY DEF Highest
  <2>3. run = [status |-> rows[n].kind.status, severity |-> Highest(rows), started |-> rows[1].at,
               last |-> rows[n].at,
               ended |-> IF rows[n].kind.status \in Terminal THEN rows[n].at ELSE 0,
               count |-> n, errors |-> Cardinality({i \in DOMAIN rows : Flawed(rows[i])})]
    BY Zenon DEF Summarised
  <2> HIDE DEF S, W, n, run
  <2> QED BY <1>7, <2>1, <2>2, <2>3
<1>9. /\ rows[1].at \in Nat /\ rows[n].at \in Nat
      /\ rows[n].kind.status \in {k.status : k \in Kinds}
  BY <1>1, <1>2, KindsOf
<1>10. SeverityOf(n, rows, Top(S))
  BY <1>1, <1>4 DEF SeverityOf
<1>11. ErrorsBetween(n, rows, Cardinality(W))
  BY <1>5 DEF ErrorsBetween
<1> HIDE DEF n, S, F, W, run
<1>12. EndOf(n, rows, rows[n].at)
  <2>1. ASSUME NEW i \in 1 .. n, \A k \in i + 1 .. n : rows[k].kind.status \notin Terminal
        PROVE  i = n
    <3>1. SUFFICES ASSUME i # n PROVE FALSE
      OBVIOUS
    <3>2. n \in i + 1 .. n
      BY <1>1, <3>1
    <3> QED BY <1>1, <1>6, <2>1, <3>2
  <2>2. 1 \in 1 .. n
    BY <1>1
  <2> QED BY <1>6, <2>1, <2>2 DEF EndOf
<1>13. run \in Run
  BY <1>1, <1>3, <1>4, <1>5, <1>8, <1>9 DEF Run
<1>14. /\ run.count = n /\ run.started = rows[1].at /\ run.last = rows[n].at
       /\ run.status = rows[n].kind.status /\ run.severity = Top(S)
       /\ run.ended = rows[n].at /\ run.errors = Cardinality(W)
  BY <1>8
<1>15. Summary(run, rows)
  BY <1>1, <1>10, <1>11, <1>12, <1>14, SummaryParts
<1> QED BY <1>13, <1>15 DEF run

LEMMA Migrating == Migrated \in Store /\ Agrees(Migrated)
<1>1. ASSUME NEW t \in Traces
      PROVE  /\ Migrated.rows[t] = Legacy[t] /\ Legacy[t] \in Seq(Entry)
             /\ Migrated.runs[t] \in Run \cup {NoRun}
             /\ Fits(Migrated.runs[t], Legacy[t])
  <2>1. Legacy[t] \in Seq(Entry) /\ \A i \in DOMAIN Legacy[t] : Legacy[t][i].kind.status \in Terminal
    BY TraceStoreAssumption DEF TraceStoreAssumption
  <2>2. /\ Migrated.rows[t] = Legacy[t]
        /\ Migrated.runs[t] = IF Legacy[t] = <<>> THEN NoRun ELSE Summarised(Legacy[t])
    BY DEF Migrated
  <2>3. CASE Legacy[t] = <<>>
    BY <2>1, <2>2, <2>3 DEF Fits
  <2>4. CASE Legacy[t] # <<>>
    <3>1. Summarised(Legacy[t]) \in Run /\ Summary(Summarised(Legacy[t]), Legacy[t])
      BY <2>1, <2>4, Summarising
    <3>2. Summarised(Legacy[t]) # NoRun
      BY <3>1, RunsOf
    <3> QED BY <2>1, <2>2, <2>4, <3>1, <3>2 DEF Fits
  <2> QED BY <2>3, <2>4
<1>2. Migrated \in Store
  <2>1. Legacy \in [Traces -> Seq(Entry)]
    BY TraceStoreAssumption DEF TraceStoreAssumption
  <2>2. \A t \in Traces : (IF Legacy[t] = <<>> THEN NoRun ELSE Summarised(Legacy[t])) \in Run \cup {NoRun}
    BY <1>1 DEF Migrated
  <2> QED BY <2>1, <2>2 DEF Migrated, Store
<1> QED BY <1>1, <1>2, Fitting

LEMMA EmptyStore == Empty \in Store /\ Agrees(Empty)
<1>1. <<>> \in Seq(Entry)
  OBVIOUS
<1>2. Empty \in Store
  BY <1>1 DEF Empty, Store
<1>3. \A t \in Traces : Fits(Empty.runs[t], Empty.rows[t])
  BY DEF Empty, Fits
<1> QED BY <1>2, <1>3, Fitting

-----------------------------------------------------------------------------
(* Counting what is stored.                                                *)

RowsOf(d, t) == {<<t, n>> : n \in DOMAIN d.rows[t]}

LEMMA StoredFinite ==
  ASSUME NEW d \in Store, NEW C \in SUBSET Traces
  PROVE  IsFiniteSet(Stored(d, C)) /\ Cardinality(Stored(d, C)) \in Nat
<1> DEFINE parts == {RowsOf(d, t) : t \in C}
<1>1. ASSUME NEW t \in C PROVE IsFiniteSet(RowsOf(d, t))
  <2> DEFINE n == Len(d.rows[t])
             f == [i \in 1 .. n |-> <<t, i>>]
  <2>1. d.rows[t] \in Seq(Entry)
    BY DEF Store
  <2>2. n \in Nat /\ DOMAIN d.rows[t] = 1 .. n
    BY <2>1
  <2>3. f \in Surjection(1 .. n, RowsOf(d, t))
    BY <2>2 DEF Surjection, RowsOf
  <2>4. IsFiniteSet(1 .. n)
    BY <2>2, Interval
  <2> HIDE DEF f
  <2> QED BY <2>3, <2>4, FS_Surjection
<1>2. IsFiniteSet(C)
  BY TraceStoreAssumption, FS_Subset DEF TraceStoreAssumption
<1>3. IsFiniteSet(parts)
  <2> DEFINE f == [t \in C |-> RowsOf(d, t)]
  <2>1. f \in Surjection(C, parts)
    BY DEF Surjection
  <2> HIDE DEF f, parts
  <2> QED BY <1>2, <2>1, FS_Surjection
<1>4. \A P \in parts : IsFiniteSet(P)
  BY <1>1
<1>5. Stored(d, C) = UNION parts
  BY DEF Stored, RowsOf
<1> HIDE DEF parts
<1>6. IsFiniteSet(UNION parts)
  BY <1>3, <1>4, FS_UNION
<1> QED BY <1>5, <1>6, FS_CardinalityType

LEMMA InStored ==
  ASSUME NEW d \in Store, NEW C \in SUBSET Traces, NEW x
  PROVE  x \in Stored(d, C) <=> \E t \in C : \E n \in 1 .. Len(d.rows[t]) : x = <<t, n>>
<1>1. \A t \in C : DOMAIN d.rows[t] = 1 .. Len(d.rows[t])
  <2>1. \A t \in C : d.rows[t] \in Seq(Entry) BY DEF Store
  <2> QED BY <2>1
<1> QED BY <1>1 DEF Stored

-----------------------------------------------------------------------------
(* The inductive invariant.                                                *)

Prefix(r, s) == \A i \in DOMAIN r : i \in DOMAIN s /\ s[i] = r[i]

(* What works while the process is down, opens the store or serves. *)
Working ==
  /\ writer # Nobody \/ (\E j \in Jobs : pending[j] # <<>>) => process = "up"
  /\ process = "up" => versioned
  /\ process = "resolved" => ~versioned /\ source = "backup"
  /\ ~versioned => db = Empty /\ deleted = 0 /\ committed = 0
  /\ \A r \in Readers : reads[r].at # "idle" => process = "up"

(* An open transaction has added its events to what is committed. *)
Extends(d, base) ==
  /\ \A t \in Traces :
       /\ base.runs[t] # NoRun => d.runs[t] # NoRun /\ d.runs[t].started = base.runs[t].started
       /\ Prefix(base.rows[t], d.rows[t])
  /\ Cardinality(Stored(d, Traces)) = Cardinality(Stored(base, Traces)) + taken

Drafted ==
  /\ writer = Nobody => draft = Empty /\ taken = 0
  /\ writer # Nobody => Extends(draft, db)

(* A summary read is that of the trace's first events, until a cleanup. *)
Holds(read) ==
  LET n == read.run.count
      rows == db.rows[read.trace]
  IN  n <= Len(rows) /\ Summary(read.run, SubSeq(rows, 1, n))

ReadsHold ==
  \A r \in Readers : reads[r].at = "summarised" /\ r \notin crossed => Holds(reads[r])

(* An answer is what ReadsFit says. *)
FitRead(r) ==
  LET run == reads[r].run
      events == reads[r].events
  IN  /\ \A i \in DOMAIN events : events[i].no = i
      /\ r \notin crossed => Len(events) >= Least(reads[r].limit, run.count)
      /\ r \notin crossed /\ Len(events) = run.count =>
           Summary(run, [i \in DOMAIN events |-> events[i].entry])

IInv ==
  TypeOK /\ SummariesAgree /\ Working /\ Drafted /\ EventsAccounted /\ ReadsHold /\ ReadsFit

LEMMA TypesOf ==
  ASSUME TypeOK
  PROVE  /\ db \in Store /\ draft \in Store
         /\ taken \in Nat /\ deleted \in Nat /\ committed \in Nat
         /\ Cardinality(Stored(db, Traces)) \in Nat /\ Cardinality(Stored(draft, Traces)) \in Nat
         /\ Cardinality(LegacyRows) \in Nat
<1>1. Migrated.rows = Legacy
  BY DEF Migrated
<1>2. LegacyRows = Stored(Migrated, Traces)
  BY <1>1 DEF LegacyRows, Stored
<1>3. Traces \in SUBSET Traces
  OBVIOUS
<1> QED BY <1>2, <1>3, Migrating, StoredFinite DEF TypeOK

LEMMA PrefixKeeps ==
  ASSUME NEW r \in Seq(Entry), NEW s \in Seq(Entry), Prefix(r, s), NEW n \in Nat, n <= Len(r)
  PROVE  n <= Len(s) /\ SubSeq(s, 1, n) = SubSeq(r, 1, n)
<1>1. \A i \in 1 .. n : i \in 1 .. Len(s) /\ s[i] = r[i]
  BY DEF Prefix
<1>2. n <= Len(s)
  <2>1. CASE n = 0 BY <2>1
  <2>2. CASE n > 0
    <3>1. n \in 1 .. n BY <2>2
    <3> QED BY <1>1, <3>1
  <2> QED BY <2>1, <2>2
<1> QED BY <1>1, <1>2

(* While a store only grows, what was read of it holds. *)
LEMMA ReadsStay ==
  ASSUME TypeOK, ReadsHold, db' \in Store, \A t \in Traces : Prefix(db.rows[t], db'.rows[t]),
         reads' = reads, crossed' = crossed
  PROVE  ReadsHold'
<1> SUFFICES ASSUME NEW r \in Readers, reads[r].at = "summarised", r \notin crossed
             PROVE  Holds(reads[r])'
  BY DEF ReadsHold
<1> DEFINE t == reads[r].trace
           n == reads[r].run.count
<1>1. t \in Traces /\ reads[r].run \in Run /\ n \in Nat
  BY RunsOf DEF TypeOK
<1>2. db.rows[t] \in Seq(Entry) /\ db'.rows[t] \in Seq(Entry)
  BY <1>1 DEF TypeOK, Store
<1>3. n <= Len(db.rows[t]) /\ Summary(reads[r].run, SubSeq(db.rows[t], 1, n))
  BY DEF ReadsHold, Holds
<1>4. Prefix(db.rows[t], db'.rows[t])
  BY <1>1
<1>5. n <= Len(db'.rows[t]) /\ SubSeq(db'.rows[t], 1, n) = SubSeq(db.rows[t], 1, n)
  BY <1>1, <1>2, <1>3, <1>4, PrefixKeeps
<1> QED BY <1>3, <1>5 DEF Holds

LEMMA AnswersStay ==
  ASSUME ReadsFit, reads' = reads, crossed' = crossed
  PROVE  ReadsFit'
BY DEF ReadsFit

LEMMA SamePrefix == \A s : Prefix(s, s)
BY DEF Prefix

-----------------------------------------------------------------------------
(* The steps.                                                              *)

LEMMA Starts == Init => IInv
<1> SUFFICES ASSUME Init PROVE IInv
  OBVIOUS
<1>1. TypeOK
  <2>1. <<>> \in Seq([trace : Traces, entry : Entry])
    OBVIOUS
  <2>2. /\ pending \in [Jobs -> Seq([trace : Traces, entry : Entry])]
        /\ carried \in Seq([trace : Traces, entry : Entry])
    BY <2>1 DEF Init
  <2>3. DOMAIN reads = Readers /\ \A r \in Readers : reads[r].at = "idle"
    BY DEF Init, NoRead
  <2>4. db \in Store /\ draft \in Store
    BY EmptyStore DEF Init
  <2>5. {taken, deleted, committed, offered, crashes} \subseteq Nat /\ now \in Nat \ {0}
    BY DEF Init
  <2>6. /\ first \in {"named", "backup"} /\ versioned \in BOOLEAN
        /\ process \in {"down", "resolved", "up"} /\ source \in {"none", "backup"}
        /\ writer \in Jobs \cup {Nobody} /\ crossed \in SUBSET Readers
    BY DEF Init
  <2> QED BY <2>2, <2>3, <2>4, <2>5, <2>6 DEF TypeOK
<1>2. Stored(Empty, Traces) = {}
  BY DEF Stored, Empty
<1>3. EventsAccounted
  BY <1>2, FS_EmptySet DEF Init, EventsAccounted
<1>4. Working /\ Drafted /\ ReadsHold /\ ReadsFit
  BY DEF Init, Working, Drafted, ReadsHold, ReadsFit, NoRead
<1> QED BY <1>1, <1>3, <1>4, EmptyStore DEF IInv, SummariesAgree, Init

(* A batch, the clock and a new start do not touch what is stored. *)
LEMMA Untouched ==
  ASSUME IInv, UNCHANGED <<db, draft, taken, writer, deleted, committed, reads, crossed, versioned>>,
         TypeOK', Working'
  PROVE  IInv'
<1>1. SummariesAgree' /\ Drafted' /\ EventsAccounted'
  BY DEF IInv, SummariesAgree, Drafted, Extends, EventsAccounted
<1>2. ReadsHold' /\ ReadsFit'
  BY SamePrefix, ReadsStay, AnswersStay DEF IInv, TypeOK
<1> QED BY <1>1, <1>2 DEF IInv

LEMMA RecordKeeps ==
  ASSUME IInv, NEW j \in Jobs, Record(j)
  PROVE  IInv'
<1>1. PICK batch \in Batches :
        /\ batch # <<>>
        /\ offered' = offered + Len(batch)
        /\ pending' = [pending EXCEPT ![j] =
             [i \in 1 .. Len(batch) |->
                [trace |-> batch[i].trace, entry |-> [at |-> now, kind |-> batch[i].kind]]]]
  BY DEF Record
<1> DEFINE stamped == [i \in 1 .. Len(batch) |->
                        [trace |-> batch[i].trace, entry |-> [at |-> now, kind |-> batch[i].kind]]]
<1>2. batch \in Seq([trace : Traces, kind : Kinds])
  BY TraceStoreAssumption DEF TraceStoreAssumption
<1>3. now \in Nat \ {0} /\ offered \in Nat
  BY DEF IInv, TypeOK
<1>4. Len(batch) \in Nat /\ \A i \in 1 .. Len(batch) : batch[i] \in [trace : Traces, kind : Kinds]
  BY <1>2, ElementOfSeq, LenProperties
<1>5. stamped \in [1 .. Len(batch) -> [trace : Traces, entry : Entry]]
  BY <1>3, <1>4 DEF Entry
<1>6. stamped \in Seq([trace : Traces, entry : Entry])
  BY <1>4, <1>5, SeqDef
<1> HIDE DEF stamped
<1>7. pending' \in [Jobs -> Seq([trace : Traces, entry : Entry])]
  BY <1>1, <1>6 DEF IInv, TypeOK, stamped
<1>8. UNCHANGED <<db, opening, writer, draft, carried, taken, reads, crossed, deleted,
                  committed, now, crashes>> /\ process = "up"
  BY DEF Record
<1>9. offered' \in Nat
  BY <1>1, <1>3, <1>4
<1>10. TypeOK'
  BY <1>7, <1>8, <1>9 DEF IInv, TypeOK, opening
<1>11. Working'
  BY <1>8 DEF IInv, Working, opening
<1> QED BY <1>8, <1>10, <1>11, Untouched DEF opening

LEMMA TickKeeps ==
  ASSUME IInv, Tick
  PROVE  IInv'
<1>1. /\ UNCHANGED <<db, opening, transaction, reads, crossed, deleted, committed, offered, crashes>>
      /\ now' = now + 1
  BY DEF Tick
<1>2. TypeOK'
  <2>1. now' \in Nat \ {0} BY <1>1 DEF IInv, TypeOK
  <2> QED BY <1>1, <2>1 DEF IInv, TypeOK, opening, transaction
<1>3. Working'
  BY <1>1 DEF IInv, Working, opening, transaction
<1> QED BY <1>1, <1>2, <1>3, Untouched DEF opening, transaction

LEMMA ReopenKeeps ==
  ASSUME IInv, Reopen
  PROVE  IInv'
<1>1. /\ UNCHANGED <<db, first, versioned, source, transaction, reads, crossed, deleted,
                     committed, bounds>>
      /\ process' = "up" /\ versioned
  BY DEF Reopen
<1>2. TypeOK'
  BY <1>1 DEF IInv, TypeOK, bounds, transaction
<1>3. Working'
  BY <1>1 DEF IInv, Working, bounds, transaction
<1> QED BY <1>1, <1>2, <1>3, Untouched DEF bounds, transaction

LEMMA ResolveKeeps ==
  ASSUME IInv, Resolve
  PROVE  IInv'
<1>1. /\ UNCHANGED <<db, versioned, transaction, reads, crossed, deleted, committed, bounds>>
      /\ process' = "resolved" /\ source' = "backup" /\ first' = "backup"
      /\ process = "down" /\ ~versioned
  BY DEF Resolve
<1>2. TypeOK'
  BY <1>1 DEF IInv, TypeOK, bounds, transaction
<1>3. Working'
  BY <1>1 DEF IInv, Working, bounds, transaction
<1> QED BY <1>1, <1>2, <1>3, Untouched DEF bounds, transaction

LEMMA BeginKeeps ==
  ASSUME IInv, NEW j \in Jobs, Begin(j)
  PROVE  IInv'
<1>1. /\ UNCHANGED <<db, opening, pending, taken, reads, crossed, deleted, committed, bounds>>
      /\ pending[j] # <<>> /\ writer = Nobody /\ writer' = j /\ draft' = db
      /\ carried' = pending[j]
  BY DEF Begin
<1>2. TypeOK'
  BY <1>1 DEF IInv, TypeOK, bounds, opening
<1>3. Working'
  BY <1>1 DEF IInv, Working, opening
<1>4. taken = 0 /\ j # Nobody
  BY <1>1, TraceStoreAssumption DEF IInv, Drafted, TraceStoreAssumption
<1>5. Drafted'
  <2>1. Cardinality(Stored(db, Traces)) = Cardinality(Stored(db, Traces)) + taken
    BY <1>4, TypesOf DEF IInv
  <2> QED BY <1>1, <1>4, <2>1, SamePrefix DEF Drafted, Extends
<1>6. SummariesAgree' /\ EventsAccounted'
  BY <1>1 DEF IInv, SummariesAgree, EventsAccounted, opening
<1>7. ReadsHold' /\ ReadsFit'
  BY <1>1, SamePrefix, ReadsStay, AnswersStay DEF IInv, TypeOK
<1> QED BY <1>2, <1>3, <1>5, <1>6, <1>7 DEF IInv

(* An event more is one row more. *)
LEMMA StoredGrows ==
  ASSUME NEW d \in Store, NEW next \in Store, NEW t \in Traces, NEW e \in Entry,
         next.rows[t] = Append(d.rows[t], e),
         \A u \in Traces \ {t} : next.rows[u] = d.rows[u]
  PROVE  Cardinality(Stored(next, Traces)) = Cardinality(Stored(d, Traces)) + 1
<1> DEFINE n == Len(d.rows[t])
<1>1. d.rows[t] \in Seq(Entry)
  BY DEF Store
<1>2. n \in Nat /\ Len(next.rows[t]) = n + 1
  BY <1>1
<1>3. Traces \in SUBSET Traces
  OBVIOUS
<1>4. \A x : x \in Stored(next, Traces) <=> x \in Stored(d, Traces) \/ x = <<t, n + 1>>
  <2>1. \A i : i \in 1 .. n + 1 <=> i \in 1 .. n \/ i = n + 1
    BY <1>2
  <2>2. \A x : x \in Stored(next, Traces) <=> \E u \in Traces : \E i \in 1 .. Len(next.rows[u]) : x = <<u, i>>
    BY <1>3, InStored
  <2>3. \A x : x \in Stored(d, Traces) <=> \E u \in Traces : \E i \in 1 .. Len(d.rows[u]) : x = <<u, i>>
    BY <1>3, InStored
  <2> QED BY <1>2, <2>1, <2>2, <2>3
<1>5. <<t, n + 1>> \notin Stored(d, Traces)
  <2>1. n + 1 \notin 1 .. n
    BY <1>2
  <2> QED BY <1>3, <2>1, InStored
<1>6. Stored(next, Traces) = Stored(d, Traces) \cup {<<t, n + 1>>}
  BY <1>4
<1>7. IsFiniteSet(Stored(d, Traces))
  BY <1>3, StoredFinite
<1> QED BY <1>5, <1>6, <1>7, FS_AddElement

LEMMA InsertKeeps ==
  ASSUME IInv, NEW j \in Jobs, Insert(j)
  PROVE  IInv'
<1>1. /\ UNCHANGED <<db, opening, writer, carried, reads, crossed, deleted, committed, bounds>>
      /\ writer = j /\ pending[j] # <<>>
      /\ draft' = With(draft, Head(pending[j]).trace, Head(pending[j]).entry)
      /\ pending' = [pending EXCEPT ![j] = Tail(pending[j])]
      /\ taken' = taken + 1
  BY DEF Insert
<1> DEFINE t == Head(pending[j]).trace
           e == Head(pending[j]).entry
<1>2. pending[j] \in Seq([trace : Traces, entry : Entry]) /\ draft \in Store /\ taken \in Nat
  BY DEF IInv, TypeOK
<1>3. t \in Traces /\ e \in Entry /\ Tail(pending[j]) \in Seq([trace : Traces, entry : Entry])
  <2>1. /\ Head(pending[j]) \in [trace : Traces, entry : Entry]
        /\ Tail(pending[j]) \in Seq([trace : Traces, entry : Entry])
    BY <1>1, <1>2, HeadTailProperties
  <2> QED BY <2>1
<1> HIDE DEF t, e
<1>4. Agrees(draft)
  BY DEF IInv, SummariesAgree
<1>5. /\ draft' \in Store /\ Agrees(draft')
      /\ draft'.runs[t] # NoRun
      /\ draft.runs[t] # NoRun => draft'.runs[t].started = draft.runs[t].started
      /\ draft'.rows[t] = Append(draft.rows[t], e)
      /\ \A u \in Traces \ {t} : draft'.runs[u] = draft.runs[u] /\ draft'.rows[u] = draft.rows[u]
  <2>1. draft' = With(draft, t, e)
    BY <1>1 DEF t, e
  <2>2. /\ With(draft, t, e) \in Store /\ Agrees(With(draft, t, e))
        /\ With(draft, t, e).runs[t] # NoRun
        /\ draft.runs[t] # NoRun => With(draft, t, e).runs[t].started = draft.runs[t].started
        /\ With(draft, t, e).rows[t] = Append(draft.rows[t], e)
        /\ \A u \in Traces \ {t} : /\ With(draft, t, e).runs[u] = draft.runs[u]
                                  /\ With(draft, t, e).rows[u] = draft.rows[u]
    BY <1>2, <1>3, <1>4, Recording
  <2> QED BY <2>1, <2>2
<1>6. writer # Nobody /\ Extends(draft, db)
  BY <1>1, TraceStoreAssumption DEF IInv, Drafted, TraceStoreAssumption
<1>7. Extends(draft, db)'
  <2>1. Cardinality(Stored(draft', Traces)) = Cardinality(Stored(draft, Traces)) + 1
    BY <1>2, <1>3, <1>5, StoredGrows
  <2>2. Cardinality(Stored(draft', Traces)) = Cardinality(Stored(db, Traces)) + taken'
    BY <1>1, <1>2, <1>6, <2>1, TypesOf DEF IInv, Extends
  <2>3. ASSUME NEW u \in Traces
        PROVE  /\ db.runs[u] # NoRun => draft'.runs[u] # NoRun /\ draft'.runs[u].started = db.runs[u].started
               /\ Prefix(db.rows[u], draft'.rows[u])
    <3>1. /\ db.runs[u] # NoRun => draft.runs[u] # NoRun /\ draft.runs[u].started = db.runs[u].started
          /\ Prefix(db.rows[u], draft.rows[u])
      BY <1>6 DEF Extends
    <3>2. CASE u # t
      BY <1>5, <3>1, <3>2
    <3>3. CASE u = t
      <4>1. draft.rows[t] \in Seq(Entry)
        BY <1>2, <1>3 DEF Store
      <4>2. \A i \in DOMAIN draft.rows[t] :
              i \in DOMAIN Append(draft.rows[t], e) /\ Append(draft.rows[t], e)[i] = draft.rows[t][i]
        BY <1>3, <4>1
      <4>3. Prefix(db.rows[t], draft'.rows[t])
        BY <1>5, <3>1, <3>3, <4>2 DEF Prefix
      <4> QED BY <1>5, <3>1, <3>3, <4>3
    <3> QED BY <3>2, <3>3
  <2>4. db' = db
    BY <1>1
  <2> QED BY <2>2, <2>3, <2>4 DEF Extends
<1>8. TypeOK'
  <2>1. pending' \in [Jobs -> Seq([trace : Traces, entry : Entry])]
    BY <1>1, <1>3 DEF IInv, TypeOK
  <2>2. taken' \in Nat /\ draft' \in Store
    <3>1. taken' = taken + 1 /\ taken \in Nat
      BY <1>1, <1>2
    <3> QED BY <1>5, <3>1
  <2>3. UNCHANGED <<db, opening, writer, carried, reads, crossed, deleted, committed, bounds>>
    BY <1>1
  <2>4. /\ db \in Store /\ writer \in Jobs \cup {Nobody}
        /\ carried \in Seq([trace : Traces, entry : Entry])
    BY DEF IInv, TypeOK
  <2> QED BY <2>1, <2>2, <2>3, <2>4 DEF IInv, TypeOK, opening, bounds
<1>9. Working'
  BY <1>1, <1>6 DEF IInv, Working, opening
<1>10. Drafted' /\ SummariesAgree' /\ EventsAccounted'
  BY <1>1, <1>5, <1>6, <1>7 DEF IInv, Drafted, SummariesAgree, EventsAccounted, opening
<1>11. ReadsHold' /\ ReadsFit'
  BY <1>1, SamePrefix, ReadsStay, AnswersStay DEF IInv, TypeOK
<1> QED BY <1>8, <1>9, <1>10, <1>11 DEF IInv

LEMMA CommitKeeps ==
  ASSUME IInv, NEW j \in Jobs, Commit(j)
  PROVE  IInv'
<1>1. /\ UNCHANGED <<opening, pending, reads, crossed, deleted, bounds>>
      /\ writer = j /\ db' = draft /\ committed' = committed + taken
      /\ writer' = Nobody /\ draft' = Empty /\ carried' = <<>> /\ taken' = 0
  BY DEF Commit, Close
<1>2. writer # Nobody /\ Extends(draft, db)
  BY <1>1, TraceStoreAssumption DEF IInv, Drafted, TraceStoreAssumption
<1>3. process = "up" /\ versioned
  BY <1>2 DEF IInv, Working
<1>4. TypeOK'
  <2>1. /\ committed' \in Nat /\ taken' \in Nat
        /\ carried' \in Seq([trace : Traces, entry : Entry])
    BY <1>1 DEF IInv, TypeOK
  <2> QED BY <1>1, <2>1, EmptyStore DEF IInv, TypeOK, opening, bounds
<1>5. Working'
  BY <1>1, <1>3 DEF IInv, Working, opening
<1>6. Drafted' /\ SummariesAgree'
  BY <1>1, EmptyStore DEF IInv, Drafted, SummariesAgree
<1>7. EventsAccounted'
  <2>1. Cardinality(Stored(draft, Traces)) = Cardinality(Stored(db, Traces)) + taken
    BY <1>2 DEF Extends
  <2>2. Cardinality(Stored(db, Traces)) + deleted = committed + Cardinality(LegacyRows)
    BY <1>3 DEF IInv, EventsAccounted
  <2>3. Cardinality(Stored(draft, Traces)) + deleted = (committed + taken) + Cardinality(LegacyRows)
    BY <2>1, <2>2, TypesOf DEF IInv
  <2> QED BY <1>1, <1>3, <2>3 DEF EventsAccounted, opening
<1>8. ReadsHold' /\ ReadsFit'
  <2>1. \A t \in Traces : Prefix(db.rows[t], db'.rows[t])
    BY <1>1, <1>2 DEF Extends
  <2>2. db' \in Store
    BY <1>1 DEF IInv, TypeOK
  <2> QED BY <1>1, <2>1, <2>2, ReadsStay, AnswersStay DEF IInv
<1> QED BY <1>4, <1>5, <1>6, <1>7, <1>8 DEF IInv

LEMMA FailKeeps ==
  ASSUME IInv, NEW j \in Jobs, Fail(j)
  PROVE  IInv'
<1>1. /\ UNCHANGED <<db, opening, reads, crossed, deleted, committed, bounds>>
      /\ pending' = [pending EXCEPT ![j] = <<>>]
      /\ \/ writer' = Nobody /\ draft' = Empty /\ carried' = <<>> /\ taken' = 0
         \/ UNCHANGED <<writer, draft, carried, taken>>
  BY DEF Fail, Close
<1>2. TypeOK'
  <2>1. <<>> \in Seq([trace : Traces, entry : Entry])
    OBVIOUS
  <2>2. pending' \in [Jobs -> Seq([trace : Traces, entry : Entry])]
    BY <1>1, <2>1 DEF IInv, TypeOK
  <2>3. draft' \in Store /\ writer' \in Jobs \cup {Nobody} /\ taken' \in Nat
    BY <1>1, EmptyStore DEF IInv, TypeOK
  <2>4. carried' \in Seq([trace : Traces, entry : Entry])
    BY <1>1, <2>1 DEF IInv, TypeOK
  <2> QED BY <1>1, <2>2, <2>3, <2>4 DEF IInv, TypeOK, opening, bounds
<1>3. Working'
  <2>1. \A k \in Jobs : pending'[k] # <<>> => pending[k] # <<>>
    BY <1>1 DEF IInv, TypeOK
  <2> QED BY <1>1, <2>1 DEF IInv, Working, opening
<1>4. Drafted' /\ SummariesAgree' /\ EventsAccounted'
  BY <1>1, EmptyStore DEF IInv, Drafted, Extends, SummariesAgree, EventsAccounted, opening
<1>5. ReadsHold' /\ ReadsFit'
  BY <1>1, SamePrefix, ReadsStay, AnswersStay DEF IInv, TypeOK
<1> QED BY <1>2, <1>3, <1>4, <1>5 DEF IInv

LEMMA CrashKeeps ==
  ASSUME IInv, Crash
  PROVE  IInv'
<1>1. /\ UNCHANGED <<db, first, versioned, deleted, committed, offered, now>>
      /\ crashes' = crashes + 1 /\ process' = "down" /\ source' = "none"
      /\ pending' = [j \in Jobs |-> <<>>]
      /\ writer' = Nobody /\ draft' = Empty /\ carried' = <<>> /\ taken' = 0
      /\ reads' = [r \in Readers |-> NoRead] /\ crossed' = {}
  BY DEF Crash, Close
<1>2. \A r \in Readers : reads'[r].at = "idle"
  BY <1>1 DEF NoRead
<1>3. \A j \in Jobs : pending'[j] = <<>>
  BY <1>1
<1>4. TypeOK'
  <2>1. <<>> \in Seq([trace : Traces, entry : Entry])
    OBVIOUS
  <2>2. /\ pending' \in [Jobs -> Seq([trace : Traces, entry : Entry])]
        /\ carried' \in Seq([trace : Traces, entry : Entry])
    BY <1>1, <2>1
  <2>3. crashes' \in Nat /\ DOMAIN reads' = Readers
    BY <1>1 DEF IInv, TypeOK
  <2> QED BY <1>1, <1>2, <2>2, <2>3, EmptyStore DEF IInv, TypeOK
<1>5. Working'
  BY <1>1, <1>2, <1>3 DEF IInv, Working
<1>6. Drafted' /\ SummariesAgree' /\ EventsAccounted'
  BY <1>1, EmptyStore DEF IInv, Drafted, SummariesAgree, EventsAccounted
<1>7. ReadsHold' /\ ReadsFit'
  BY <1>2 DEF ReadsHold, ReadsFit
<1> QED BY <1>4, <1>5, <1>6, <1>7 DEF IInv

LEMMA MigrateKeeps ==
  ASSUME IInv, Migrate
  PROVE  IInv'
<1>1. /\ UNCHANGED <<first, source, transaction, reads, crossed, deleted, committed, bounds>>
      /\ process = "resolved" /\ process' = "up" /\ versioned' = TRUE
  BY DEF Migrate
<1>2. /\ ~versioned /\ source = "backup" /\ db = Empty /\ deleted = 0 /\ committed = 0
      /\ writer = Nobody
      /\ \A r \in Readers : reads[r].at = "idle"
  BY <1>1 DEF IInv, Working, TypeOK
<1>3. db' = Migrated
  BY <1>2 DEF Migrate
<1>4. TypeOK'
  BY <1>1, <1>3, Migrating DEF IInv, TypeOK, transaction, bounds
<1>5. Working'
  BY <1>1, <1>2 DEF Working, transaction
<1>6. Drafted' /\ SummariesAgree'
  BY <1>1, <1>2, <1>3, Migrating DEF IInv, Drafted, SummariesAgree, transaction
<1>7. EventsAccounted'
  <2>1. Stored(Migrated, Traces) = LegacyRows
    BY DEF Stored, LegacyRows, Migrated
  <2>2. Cardinality(LegacyRows) + 0 = 0 + Cardinality(LegacyRows)
    BY TypesOf DEF IInv
  <2> QED BY <1>1, <1>2, <1>3, <2>1, <2>2 DEF EventsAccounted
<1>8. ReadsHold' /\ ReadsFit'
  BY <1>1, <1>2 DEF ReadsHold, ReadsFit
<1> QED BY <1>4, <1>5, <1>6, <1>7, <1>8 DEF IInv

(* The i-th number up to n is i. *)
LEMMA Numbered ==
  ASSUME NEW n \in Nat, NEW i \in 1 .. n
  PROVE  Nth(1 .. n, i) = i
<1>1. ASSUME NEW k \in 1 .. n
      PROVE  Cardinality({m \in 1 .. n : m < k}) = k - 1
  <2>1. {m \in 1 .. n : m < k} = 1 .. k - 1
    OBVIOUS
  <2>2. k - 1 \in Nat
    OBVIOUS
  <2> QED BY <2>1, <2>2, Interval
<1>2. \A k \in 1 .. n : Cardinality({m \in 1 .. n : m < k}) = i - 1 => k = i
  BY <1>1
<1>3. Cardinality({m \in 1 .. n : m < i}) = i - 1
  BY <1>1
<1> QED BY <1>2, <1>3 DEF Nth

LEMMA Selecting ==
  ASSUME NEW rows \in Seq(Entry), NEW limit \in Nat
  PROVE  Selected(rows, limit) =
           [i \in 1 .. Least(limit, Len(rows)) |-> [no |-> i, entry |-> rows[i]]]
<1> DEFINE n == Len(rows)
           kept == Least(limit, n)
<1>1. n \in Nat /\ DOMAIN rows = 1 .. n
  OBVIOUS
<1>2. Cardinality(DOMAIN rows) = n
  <2>1. Cardinality(1 .. n) = n
    BY <1>1, Interval
  <2> QED BY <1>1, <2>1
<1>3. kept \in Nat /\ kept <= n
  BY <1>1 DEF Least
<1>4. \A i \in 1 .. kept : Nth(DOMAIN rows, i) = i
  <2>1. \A i \in 1 .. kept : i \in 1 .. n
    BY <1>1, <1>3
  <2> QED BY <1>1, <2>1, Numbered
<1>5. Selected(rows, limit) =
        [i \in 1 .. kept |-> [no |-> Nth(DOMAIN rows, i), entry |-> rows[Nth(DOMAIN rows, i)]]]
  BY <1>2 DEF Selected
<1> HIDE DEF kept
<1> QED BY <1>4, <1>5 DEF kept

ReadTyped(read) ==
  /\ read.at \in {"idle", "summarised", "answered"}
  /\ read.at # "idle" => read.trace \in Traces /\ read.limit \in Limits /\ read.run \in Run

LEMMA ReadersTyped ==
  ASSUME TypeOK, UNCHANGED <<db, opening, transaction, deleted, committed, bounds>>,
         DOMAIN reads' = Readers, crossed' \in SUBSET Readers,
         \A q \in Readers : ReadTyped(reads'[q])
  PROVE  TypeOK'
<1>1. /\ db' \in Store /\ draft' \in Store
      /\ first' \in {"named", "backup"} /\ versioned' \in BOOLEAN
      /\ process' \in {"down", "resolved", "up"} /\ source' \in {"none", "backup"}
      /\ pending' \in [Jobs -> Seq([trace : Traces, entry : Entry])]
      /\ writer' \in Jobs \cup {Nobody}
      /\ carried' \in Seq([trace : Traces, entry : Entry])
  BY DEF TypeOK, opening, transaction
<1>2. /\ {taken', deleted', committed', offered', crashes'} \subseteq Nat
      /\ now' \in Nat \ {0}
  BY DEF TypeOK, transaction, bounds
<1> QED BY <1>1, <1>2 DEF TypeOK, ReadTyped

LEMMA ReadEventsKeeps ==
  ASSUME IInv, NEW r \in Readers, ReadEvents(r)
  PROVE  IInv'
<1> DEFINE t == reads[r].trace
           limit == reads[r].limit
           run == reads[r].run
           rows == db.rows[t]
           events == Selected(rows, limit)
           answer == [at |-> "answered", trace |-> t, limit |-> limit, run |-> run, events |-> events]
<1>1. /\ UNCHANGED <<db, opening, transaction, crossed, deleted, committed, bounds>>
      /\ reads[r].at = "summarised"
      /\ reads' = [reads EXCEPT ![r] = answer]
  BY DEF ReadEvents
<1>2. t \in Traces /\ limit \in Limits /\ limit \in Nat /\ run \in Run /\ rows \in Seq(Entry)
  BY <1>1, TraceStoreAssumption DEF IInv, TypeOK, Store, TraceStoreAssumption
<1>3. events = [i \in 1 .. Least(limit, Len(rows)) |-> [no |-> i, entry |-> rows[i]]]
  BY <1>2, Selecting
<1>4. /\ answer.at = "answered" /\ answer.trace = t /\ answer.limit = limit
      /\ answer.run = run /\ answer.events = events
  OBVIOUS
<1>5. r \notin crossed => run.count <= Len(rows) /\ Summary(run, SubSeq(rows, 1, run.count))
  BY <1>1 DEF IInv, ReadsHold, Holds
<1> HIDE DEF events, answer, rows, run, limit, t
<1>6. /\ \A i \in DOMAIN events : events[i].no = i
      /\ r \notin crossed => Len(events) >= Least(limit, run.count)
      /\ r \notin crossed /\ Len(events) = run.count =>
           Summary(run, [i \in DOMAIN events |-> events[i].entry])
  <2> DEFINE kept == Least(limit, Len(rows))
  <2>1. Len(rows) \in Nat /\ kept \in Nat /\ kept <= Len(rows) /\ run.count \in Nat
    BY <1>2, RunsOf DEF Least
  <2>2. DOMAIN events = 1 .. kept /\ Len(events) = kept
    BY <1>3, <2>1
  <2>3. \A i \in 1 .. kept : events[i].no = i /\ events[i].entry = rows[i]
    BY <1>3
  <2>4. r \notin crossed => kept >= Least(limit, run.count)
    BY <1>2, <1>5, <2>1 DEF Least
  <2>5. ASSUME r \notin crossed, kept = run.count
        PROVE  [i \in 1 .. kept |-> events[i].entry] = SubSeq(rows, 1, run.count)
    <3>1. [i \in 1 .. kept |-> events[i].entry] = [i \in 1 .. kept |-> rows[i]]
      BY <2>3
    <3>2. [i \in 1 .. kept |-> rows[i]] = SubSeq(rows, 1, kept)
      BY <1>2, <2>1
    <3> QED BY <2>5, <3>1, <3>2
  <2> HIDE DEF kept
  <2> QED BY <1>5, <2>2, <2>3, <2>4, <2>5
<1>7. /\ reads'[r] = answer
      /\ \A q \in Readers \ {r} : reads'[q] = reads[q]
  BY <1>1 DEF IInv, TypeOK
<1>8. TypeOK'
  <2>1. \A q \in Readers : ReadTyped(reads'[q])
    BY <1>2, <1>4, <1>7 DEF IInv, TypeOK, ReadTyped
  <2>2. DOMAIN reads' = Readers /\ crossed' \in SUBSET Readers
    BY <1>1 DEF IInv, TypeOK
  <2> QED BY <1>1, <2>1, <2>2, ReadersTyped DEF IInv
<1>9. Working'
  BY <1>1, <1>7 DEF IInv, Working, opening, transaction
<1>10. Drafted' /\ SummariesAgree' /\ EventsAccounted'
  BY <1>1 DEF IInv, Drafted, Extends, SummariesAgree, EventsAccounted, opening, transaction
<1>11. ReadsHold'
  <2>1. \A q \in Readers : reads'[q].at = "summarised" => reads'[q] = reads[q]
    BY <1>4, <1>7
  <2> QED BY <1>1, <2>1 DEF IInv, ReadsHold, Holds
<1>12. ReadsFit'
  <2> SUFFICES ASSUME NEW q \in Readers, reads'[q].at = "answered" PROVE FitRead(q)'
    BY DEF ReadsFit, FitRead
  <2>1. CASE q = r
    BY <1>1, <1>4, <1>6, <1>7, <2>1 DEF FitRead
  <2>2. CASE q # r
    <3>1. reads'[q] = reads[q] BY <1>7, <2>2
    <3> QED BY <1>1, <3>1 DEF IInv, ReadsFit, FitRead
  <2> QED BY <2>1, <2>2
<1> QED BY <1>8, <1>9, <1>10, <1>11, <1>12 DEF IInv

LEMMA ReadSummaryKeeps ==
  ASSUME IInv, NEW r \in Readers, ReadSummary(r)
  PROVE  IInv'
<1>1. /\ UNCHANGED <<db, opening, transaction, deleted, committed, bounds>>
      /\ process = "up" /\ crossed' = crossed \ {r}
  BY DEF ReadSummary
<1>2. PICK t \in Traces, limit \in Limits :
        reads' = [reads EXCEPT ![r] =
          IF db.runs[t] = NoRun
            THEN NoRead
            ELSE [at |-> "summarised", trace |-> t, limit |-> limit, run |-> db.runs[t]]]
  BY DEF ReadSummary
<1>3. DOMAIN reads = Readers /\ DOMAIN reads' = Readers /\ \A q \in Readers \ {r} : reads'[q] = reads[q]
  BY <1>2 DEF IInv, TypeOK
<1>4. \/ reads'[r].at = "idle"
      \/ /\ reads'[r].at = "summarised" /\ reads'[r].trace = t /\ reads'[r].limit = limit
         /\ reads'[r].run = db.runs[t] /\ db.runs[t] # NoRun
  BY <1>2, <1>3 DEF NoRead
<1>5. db.runs[t] \in Run \cup {NoRun} /\ db.rows[t] \in Seq(Entry)
  BY DEF IInv, TypeOK, Store
<1>6. db.runs[t] # NoRun => db.runs[t].count = Len(db.rows[t]) /\ Summary(db.runs[t], SubSeq(db.rows[t], 1, Len(db.rows[t])))
  <2> SUFFICES ASSUME db.runs[t] # NoRun
               PROVE  db.runs[t].count = Len(db.rows[t]) /\ Summary(db.runs[t], SubSeq(db.rows[t], 1, Len(db.rows[t])))
    OBVIOUS
  <2>1. Summary(db.runs[t], db.rows[t])
    BY DEF IInv, SummariesAgree, Agrees
  <2>2. DOMAIN db.rows[t] = 1 .. db.runs[t].count /\ db.runs[t].count \in Nat
    BY <1>5, <2>1, SummaryParts, RunsOf
  <2>3. db.runs[t].count = Len(db.rows[t])
    BY <1>5, <2>2
  <2> QED BY <1>5, <2>1, <2>3, SubSeqFull
<1>7. TypeOK'
  <2>1. \A q \in Readers : ReadTyped(reads'[q])
    BY <1>3, <1>4, <1>5 DEF IInv, TypeOK, ReadTyped
  <2>2. crossed' \in SUBSET Readers
    BY <1>1 DEF IInv, TypeOK
  <2> QED BY <1>1, <1>3, <2>1, <2>2, ReadersTyped DEF IInv
<1>8. Working'
  BY <1>1 DEF IInv, Working, opening, transaction
<1>9. Drafted' /\ SummariesAgree' /\ EventsAccounted'
  BY <1>1 DEF IInv, Drafted, Extends, SummariesAgree, EventsAccounted, opening, transaction
<1>10. ReadsHold'
  <2> SUFFICES ASSUME NEW q \in Readers, reads'[q].at = "summarised", q \notin crossed' PROVE Holds(reads[q])'
    BY DEF ReadsHold
  <2>1. CASE q = r
    <3>1. db.runs[t].count <= Len(db.rows[t])
      BY <1>4, <1>5, <1>6, <2>1
    <3> QED BY <1>1, <1>4, <1>6, <2>1, <3>1 DEF Holds
  <2>2. CASE q # r
    <3>1. reads'[q] = reads[q] /\ q \notin crossed
      BY <1>1, <1>3, <2>2
    <3> QED BY <1>1, <3>1 DEF IInv, ReadsHold, Holds
  <2> QED BY <2>1, <2>2
<1>11. ReadsFit'
  <2> SUFFICES ASSUME NEW q \in Readers, reads'[q].at = "answered" PROVE FitRead(q)'
    BY DEF ReadsFit, FitRead
  <2>1. q # r
    BY <1>4
  <2>2. reads'[q] = reads[q] /\ (q \in crossed <=> q \in crossed')
    BY <1>1, <1>3, <2>1
  <2> QED BY <2>2 DEF IInv, ReadsFit, FitRead
<1> QED BY <1>7, <1>8, <1>9, <1>10, <1>11 DEF IInv

(* What a cleanup leaves is what it did not count. *)
LEMMA StoredShrinks ==
  ASSUME NEW d \in Store, NEW next \in Store, NEW C \in SUBSET Traces,
         \A t \in Traces : next.rows[t] = IF t \in C THEN <<>> ELSE d.rows[t]
  PROVE  Cardinality(Stored(next, Traces)) + Cardinality(Stored(d, C)) = Cardinality(Stored(d, Traces))
<1>1. Traces \in SUBSET Traces
  OBVIOUS
<1>2. \A x : x \in Stored(next, Traces) <=> x \in Stored(d, Traces) /\ x \notin Stored(d, C)
  <2>1. \A x : x \in Stored(next, Traces) <=> \E u \in Traces : \E i \in 1 .. Len(next.rows[u]) : x = <<u, i>>
    BY <1>1, InStored
  <2>2. \A x : x \in Stored(d, Traces) <=> \E u \in Traces : \E i \in 1 .. Len(d.rows[u]) : x = <<u, i>>
    BY <1>1, InStored
  <2>3. \A x : x \in Stored(d, C) <=> \E u \in C : \E i \in 1 .. Len(d.rows[u]) : x = <<u, i>>
    BY InStored
  <2>4. \A u \in Traces : IF u \in C THEN 1 .. Len(next.rows[u]) = {} ELSE next.rows[u] = d.rows[u]
    OBVIOUS
  <2> QED BY <2>1, <2>2, <2>3, <2>4
<1>3. Stored(next, Traces) = Stored(d, Traces) \ Stored(d, C)
  BY <1>2
<1>4. Stored(d, Traces) \cap Stored(d, C) = Stored(d, C)
  BY InStored, <1>1
<1>5. IsFiniteSet(Stored(d, Traces)) /\ Cardinality(Stored(d, Traces)) \in Nat /\ Cardinality(Stored(d, C)) \in Nat
  BY <1>1, StoredFinite
<1>6. Cardinality(Stored(next, Traces)) = Cardinality(Stored(d, Traces)) - Cardinality(Stored(d, C))
  <2>1. Cardinality(Stored(d, Traces) \ Stored(d, C))
          = Cardinality(Stored(d, Traces)) - Cardinality(Stored(d, Traces) \cap Stored(d, C))
    BY <1>5, FS_Difference
  <2> QED BY <1>3, <1>4, <2>1
<1> QED BY <1>5, <1>6

LEMMA CleanUpKeeps ==
  ASSUME IInv, CleanUp
  PROVE  IInv'
<1>1. UNCHANGED <<opening, transaction, reads, committed, bounds>> /\ process = "up" /\ writer = Nobody
  BY DEF CleanUp
<1>2. PICK C \in SUBSET Traces :
        /\ Delete(C)
        /\ crossed' = crossed \cup {r \in Readers : reads[r].at = "summarised" /\ reads[r].trace \in C}
  BY DEF CleanUp
<1>3. /\ db' = [runs |-> [t \in Traces |-> IF t \in C THEN NoRun ELSE db.runs[t]],
                rows |-> [t \in Traces |-> IF t \in C THEN <<>> ELSE db.rows[t]]]
      /\ deleted' = deleted + Cardinality(Stored(db, C))
  BY <1>2 DEF Delete
<1>4. db \in Store /\ db.runs \in [Traces -> Run \cup {NoRun}] /\ db.rows \in [Traces -> Seq(Entry)]
  BY DEF IInv, TypeOK, Store
<1>5. \A t \in Traces : /\ db'.runs[t] = IF t \in C THEN NoRun ELSE db.runs[t]
                        /\ db'.rows[t] = IF t \in C THEN <<>> ELSE db.rows[t]
  BY <1>3
<1>6. db' \in Store
  BY <1>3, <1>4 DEF Store
<1>7. Agrees(db')
  <2>1. \A t \in Traces : Fits(db.runs[t], db.rows[t])
    BY <1>4, Fitting DEF IInv, SummariesAgree
  <2>2. \A t \in Traces : Fits(db'.runs[t], db'.rows[t])
    BY <1>5, <2>1 DEF Fits
  <2> QED BY <1>6, <2>2, Fitting
<1>8. Cardinality(Stored(db', Traces)) + Cardinality(Stored(db, C)) = Cardinality(Stored(db, Traces))
  BY <1>4, <1>5, <1>6, StoredShrinks
<1>9. Cardinality(Stored(db, C)) \in Nat
  BY <1>4, StoredFinite
<1>10. TypeOK'
  <2>1. deleted' \in Nat
    BY <1>3, <1>9, TypesOf DEF IInv
  <2>2. crossed' \in SUBSET Readers
    BY <1>2 DEF IInv, TypeOK
  <2> QED BY <1>1, <1>6, <2>1, <2>2 DEF IInv, TypeOK, opening, transaction, bounds
<1>11. versioned
  BY <1>1 DEF IInv, Working
<1>12. Working'
  BY <1>1, <1>11 DEF IInv, Working, opening, transaction
<1>13. Drafted' /\ SummariesAgree'
  BY <1>1, <1>7 DEF IInv, Drafted, SummariesAgree, transaction
<1>14. EventsAccounted'
  <2>1. Cardinality(Stored(db, Traces)) + deleted = committed + Cardinality(LegacyRows)
    BY <1>11 DEF IInv, EventsAccounted
  <2>2. Cardinality(Stored(db', Traces)) \in Nat
    <3>1. Traces \in SUBSET Traces OBVIOUS
    <3> QED BY <1>6, <3>1, StoredFinite
  <2>3. Cardinality(Stored(db', Traces)) + deleted' = committed + Cardinality(LegacyRows)
    BY <1>3, <1>8, <1>9, <2>1, <2>2, TypesOf DEF IInv
  <2> QED BY <1>1, <1>11, <2>3 DEF EventsAccounted, opening
<1>15. ReadsHold'
  <2> SUFFICES ASSUME NEW r \in Readers, reads[r].at = "summarised", r \notin crossed' PROVE Holds(reads[r])'
    BY <1>1 DEF ReadsHold
  <2>1. r \notin crossed /\ reads[r].trace \notin C /\ reads[r].trace \in Traces
    BY <1>2 DEF IInv, TypeOK
  <2>2. db'.rows[reads[r].trace] = db.rows[reads[r].trace]
    BY <1>5, <2>1
  <2> QED BY <1>1, <2>1, <2>2 DEF IInv, ReadsHold, Holds
<1>16. ReadsFit'
  <2> SUFFICES ASSUME NEW r \in Readers, reads[r].at = "answered" PROVE FitRead(r)'
    BY <1>1 DEF ReadsFit, FitRead
  <2>1. r \in crossed <=> r \in crossed'
    BY <1>2
  <2> QED BY <1>1, <2>1 DEF IInv, ReadsFit, FitRead
<1> QED BY <1>10, <1>12, <1>13, <1>14, <1>15, <1>16 DEF IInv

LEMMA StepsKeep ==
  ASSUME IInv, [Next]_vars
  PROVE  IInv'
<1>1. CASE Next
  <2>1. CASE \E j \in Jobs : Record(j) \/ Begin(j) \/ Insert(j) \/ Commit(j) \/ Fail(j)
    BY <2>1, RecordKeeps, BeginKeeps, InsertKeeps, CommitKeeps, FailKeeps
  <2>2. CASE \E r \in Readers : ReadSummary(r) \/ ReadEvents(r)
    BY <2>2, ReadSummaryKeeps, ReadEventsKeeps
  <2>3. CASE CleanUp \/ Resolve \/ Migrate \/ Reopen \/ Crash \/ Tick
    BY <2>3, CleanUpKeeps, ResolveKeeps, MigrateKeeps, ReopenKeeps, CrashKeeps, TickKeeps
  <2> QED BY <1>1, <2>1, <2>2, <2>3 DEF Next
<1>2. CASE UNCHANGED vars
  <2>1. /\ UNCHANGED <<db, first, versioned, process, source, pending, writer, draft, carried, taken, reads>>
        /\ UNCHANGED <<crossed, deleted, committed, offered, now, crashes>>
    BY <1>2 DEF vars, opening, transaction, bounds
  <2>2. TypeOK'
    BY <2>1 DEF IInv, TypeOK
  <2>3. Working'
    BY <2>1 DEF IInv, Working
  <2> QED BY <2>1, <2>2, <2>3, Untouched
<1> QED BY <1>1, <1>2

LEMMA Invariant == Spec => []IInv
<1> QED BY Starts, StepsKeep, PTL DEF Spec

-----------------------------------------------------------------------------
(* What follows.                                                           *)

(* Rows stay sequences: an event's number is one more than the last one's *)
(* (sqlite_trace_store.py:1070).                                           *)
THEOREM TypeCorrect == Spec => []TypeOK
<1>1. IInv => TypeOK
  BY DEF IInv
<1> QED BY <1>1, Invariant, PTL

(* A trace's run is the summary of its events (sqlite_trace_store.py:1248). *)
THEOREM SummariesAreTrue == Spec => []SummariesAgree
<1>1. IInv => SummariesAgree
  BY DEF IInv
<1> QED BY <1>1, Invariant, PTL

(* No event is lost or stored twice (sqlite_trace_store.py:315,            *)
(* sqlite_trace_schema.py:169).                                            *)
THEOREM EventsAreKept == Spec => []EventsAccounted
<1>1. IInv => EventsAccounted
  BY DEF IInv
<1> QED BY <1>1, Invariant, PTL

(* A read's events fit its summary (sqlite_trace_store.py:188, 205).       *)
THEOREM ReadsAreFit == Spec => []ReadsFit
<1>1. IInv => ReadsFit
  BY DEF IInv
<1> QED BY <1>1, Invariant, PTL

(* A run disappears only by a cleanup. *)
LEMMA OnlyCleanUpTakes ==
  ASSUME IInv, [Next]_vars, ~CleanUp, NEW t \in Traces
  PROVE  ~Gone(t)
<1>1. CASE db' = db
  BY <1>1 DEF Gone
<1>2. CASE \E j \in Jobs : Commit(j)
  <2>1. PICK j \in Jobs : Commit(j)
    BY <1>2
  <2>2. db' = draft /\ writer # Nobody
    BY <2>1, TraceStoreAssumption DEF Commit, TraceStoreAssumption
  <2> QED BY <2>2 DEF IInv, Drafted, Extends, Gone
<1>3. CASE Migrate
  <2>1. db = Empty
    BY <1>3 DEF IInv, Working, Migrate
  <2> QED BY <2>1 DEF Empty, Gone
<1>4. db' = db \/ (\E j \in Jobs : Commit(j)) \/ Migrate
  BY DEF Next, Record, Begin, Insert, Fail, ReadSummary, ReadEvents, Resolve, Reopen, Crash, Tick, vars
<1> QED BY <1>1, <1>2, <1>3, <1>4

(* A cleanup takes the oldest traces (sqlite_trace_store.py:1518).         *)
THEOREM OldestGoFirst == Spec => CleanupTakesOldest
<1>1. ASSUME IInv, [Next]_vars
      PROVE  [\A t \in Traces : Gone(t) =>
                /\ db.runs[t].started + Keep < now
                /\ \A u \in Traces : db.runs[u] # NoRun /\ ~Gone(u) =>
                     db.runs[t].started <= db.runs[u].started]_vars
  <2> SUFFICES ASSUME NEW t \in Traces, Gone(t)
               PROVE  /\ db.runs[t].started + Keep < now
                      /\ \A u \in Traces : db.runs[u] # NoRun /\ ~Gone(u) =>
                           db.runs[t].started <= db.runs[u].started
    OBVIOUS
  <2>1. CleanUp
    BY <1>1, OnlyCleanUpTakes
  <2>2. PICK C \in SUBSET Traces : Oldest(C) /\ Delete(C)
    BY <2>1 DEF CleanUp
  <2>3. \A u \in Traces : db.runs[u] # NoRun => (Gone(u) <=> u \in C)
    BY <2>2, RunsOf DEF Gone, Delete
  <2>4. t \in C /\ t \in Due
    BY <2>2, <2>3 DEF Gone, Oldest
  <2>5. db.runs[t].started + Keep < now
    BY <2>4 DEF Due
  <2>6. ASSUME NEW u \in Traces, db.runs[u] # NoRun, ~Gone(u)
        PROVE  db.runs[t].started <= db.runs[u].started
    <3>1. u \notin C
      BY <2>3, <2>6
    <3>2. CASE u \in Due
      BY <2>2, <2>4, <3>1, <3>2 DEF Oldest
    <3>3. CASE u \notin Due
      <4>1. ~(db.runs[u].started + Keep < now)
        BY <2>6, <3>3 DEF Due
      <4>2. /\ db.runs[t].started \in Nat /\ db.runs[u].started \in Nat /\ now \in Nat /\ Keep \in Nat
        BY <1>1, <2>4, <2>6, RunsOf, TraceStoreAssumption DEF IInv, TypeOK, Store, Due, TraceStoreAssumption
      <4> QED BY <2>5, <4>1, <4>2
    <3> QED BY <3>2, <3>3
  <2> QED BY <2>5, <2>6
<1> QED BY <1>1, Invariant, PTL DEF Spec, CleanupTakesOldest

-----------------------------------------------------------------------------
(* The refinement of TraceLog.                                             *)

Item == [trace : Traces, entry : Entry]

(* What the open transaction has inserted of its batch, and has left. *)
Carrying ==
  writer # Nobody =>
    /\ carried # <<>>
    /\ taken + Len(pending[writer]) = Len(carried)
    /\ \A i \in 1 .. Len(pending[writer]) : pending[writer][i] = carried[taken + i]
    /\ \A t \in Traces : Log!Longer(db.rows[t], draft.rows[t], t, carried, taken)

LEMMA SameCount == \A S : Log!Cardinality(S) = Cardinality(S)
BY DEF Log!Cardinality, Cardinality

(* A trace's share of a batch grows with its events. *)
LEMMA ShareFinite ==
  ASSUME NEW b, NEW t, NEW k \in Nat
  PROVE  /\ IsFiniteSet(Log!Share(b, t, k)) /\ Cardinality(Log!Share(b, t, k)) \in Nat
         /\ Log!Share(b, t, k) \in SUBSET (1 .. k)
<1>1. Log!Share(b, t, k) \in SUBSET (1 .. k)
  BY DEF Log!Share
<1>2. IsFiniteSet(1 .. k)
  BY Interval
<1> QED BY <1>1, <1>2, FS_Subset, FS_CardinalityType

LEMMA ShareGrows ==
  ASSUME NEW b, NEW t, NEW k \in Nat
  PROVE  /\ b[k + 1].trace = t =>
              /\ Log!Share(b, t, k + 1) = Log!Share(b, t, k) \cup {k + 1}
              /\ Cardinality(Log!Share(b, t, k + 1)) = Cardinality(Log!Share(b, t, k)) + 1
         /\ b[k + 1].trace # t => Log!Share(b, t, k + 1) = Log!Share(b, t, k)
<1>1. 1 .. k + 1 = (1 .. k) \cup {k + 1}
  OBVIOUS
<1>2. Log!Share(b, t, k + 1) = Log!Share(b, t, k) \cup {i \in {k + 1} : b[i].trace = t}
  BY <1>1 DEF Log!Share
<1>3. Cardinality(Log!Share(b, t, k) \cup {k + 1}) = Cardinality(Log!Share(b, t, k)) + 1
  BY ShareFinite, CountGrows
<1> QED BY <1>2, <1>3

LEMMA ShareWithin ==
  ASSUME NEW b, NEW t, NEW k \in Nat, NEW i \in Log!Share(b, t, k)
  PROVE  /\ i \in 1 .. k
         /\ Cardinality(Log!Share(b, t, i)) \in 1 .. Cardinality(Log!Share(b, t, k))
<1>1. i \in 1 .. k /\ b[i].trace = t
  BY DEF Log!Share
<1>2. i \in Log!Share(b, t, i) /\ Log!Share(b, t, i) \subseteq Log!Share(b, t, k)
  BY <1>1 DEF Log!Share
<1>3. Cardinality(Log!Share(b, t, i)) <= Cardinality(Log!Share(b, t, k))
  BY <1>2, ShareFinite, FS_Subset
<1>4. Cardinality(Log!Share(b, t, i)) \in Nat /\ Cardinality(Log!Share(b, t, i)) # 0
  BY <1>1, <1>2, ShareFinite, FS_EmptySet
<1>5. Cardinality(Log!Share(b, t, k)) \in Nat
  BY ShareFinite
<1> QED BY <1>1, <1>3, <1>4, <1>5

(* Rows have their share of no event of a batch. *)
LEMMA LongerByNone ==
  ASSUME NEW rows \in Seq(Entry), NEW t, NEW b
  PROVE  Log!Longer(rows, rows, t, b, 0)
<1>1. Log!Share(b, t, 0) = {} /\ Cardinality({}) = 0
  BY FS_EmptySet DEF Log!Share
<1>2. Len(rows) \in Nat /\ Len(rows) = Len(rows) + 0
  OBVIOUS
<1>3. Len(rows) = Len(rows) + Cardinality(Log!Share(b, t, 0))
  BY <1>1, <1>2
<1> QED BY <1>1, <1>3, SameCount DEF Log!Longer

(* The next event of a batch goes to the rows of its trace, and to no
   others. *)
LEMMA LongerByOne ==
  ASSUME NEW old \in Seq(Entry), NEW rows \in Seq(Entry), NEW t, NEW b, NEW k \in Nat,
         NEW e \in Entry, b[k + 1].trace = t, b[k + 1].entry = e,
         Log!Longer(old, rows, t, b, k)
  PROVE  Log!Longer(old, Append(rows, e), t, b, k + 1)
<1> DEFINE n == Len(old)
           c(i) == Cardinality(Log!Share(b, t, i))
           longer == Append(rows, e)
<1>0. n \in Nat /\ c(k) \in Nat
  BY ShareFinite
<1>1. /\ Len(rows) = n + c(k)
      /\ \A i \in 1 .. n : rows[i] = old[i]
      /\ \A i \in Log!Share(b, t, k) : rows[n + c(i)] = b[i].entry
  BY SameCount DEF Log!Longer
<1>2. /\ Len(longer) = Len(rows) + 1
      /\ \A i \in 1 .. Len(rows) : longer[i] = rows[i]
      /\ longer[Len(rows) + 1] = e
  OBVIOUS
<1>3. Log!Share(b, t, k + 1) = Log!Share(b, t, k) \cup {k + 1} /\ c(k + 1) = c(k) + 1
  BY ShareGrows
<1>4. \A i \in Log!Share(b, t, k) : c(i) \in 1 .. c(k)
  BY ShareWithin
<1> HIDE DEF c, n, longer
<1>5. Len(longer) = n + c(k + 1)
  BY <1>0, <1>1, <1>2, <1>3
<1>6. \A i \in 1 .. n : longer[i] = old[i]
  BY <1>0, <1>1, <1>2
<1>7. ASSUME NEW i \in Log!Share(b, t, k + 1)
      PROVE  longer[n + c(i)] = b[i].entry
  <2>1. CASE i \in Log!Share(b, t, k)
    <3>1. n + c(i) \in 1 .. Len(rows)
      BY <1>0, <1>1, <1>4, <2>1
    <3> QED BY <1>1, <1>2, <2>1, <3>1
  <2>2. CASE i = k + 1
    <3>1. n + c(i) = Len(rows) + 1
      BY <1>0, <1>1, <1>3, <2>2
    <3> QED BY <1>2, <2>2, <3>1
  <2> QED BY <1>3, <1>7, <2>1, <2>2
<1> QED BY <1>5, <1>6, <1>7, SameCount DEF Log!Longer, c, n, longer

LEMMA LongerByOther ==
  ASSUME NEW old, NEW rows, NEW t, NEW b, NEW k \in Nat, b[k + 1].trace # t,
         Log!Longer(old, rows, t, b, k)
  PROVE  Log!Longer(old, rows, t, b, k + 1)
BY ShareGrows DEF Log!Longer

(* Every statement of a transaction leaves its batch partly stored, in order
   (sqlite_trace_store.py:338). *)
LEMMA CarryingKept ==
  ASSUME IInv, Carrying, [Next]_vars
  PROVE  Carrying'
<1>1. CASE UNCHANGED <<db, transaction>>
  <2>1. UNCHANGED <<db, pending, writer, draft, carried, taken>>
    BY <1>1 DEF transaction
  <2> QED BY <2>1 DEF Carrying
<1>2. CASE writer' = Nobody
  BY <1>2 DEF Carrying
<1>3. ASSUME NEW j \in Jobs, Begin(j)
      PROVE  Carrying'
  <2>1. /\ db' = db /\ pending' = pending /\ draft' = db /\ carried' = pending[j]
        /\ writer = Nobody /\ writer' = j /\ taken' = taken /\ pending[j] # <<>>
    BY <1>3 DEF Begin
  <2>2. taken = 0
    BY <2>1 DEF IInv, Drafted
  <2>3. Len(pending[j]) \in Nat
    BY DEF IInv, TypeOK
  <2>4. \A i \in 1 .. Len(pending[j]) : 0 + i = i
    OBVIOUS
  <2>5. \A t \in Traces : Log!Longer(db.rows[t], db.rows[t], t, pending[j], 0)
    <3>1. \A t \in Traces : db.rows[t] \in Seq(Entry)
      BY DEF IInv, TypeOK, Store
    <3> QED BY <3>1, LongerByNone
  <2> QED BY <2>1, <2>2, <2>3, <2>4, <2>5 DEF Carrying
<1>4. ASSUME NEW j \in Jobs, Insert(j)
      PROVE  Carrying'
  <2> DEFINE e == Head(pending[j]).entry
             t == Head(pending[j]).trace
             rest == Tail(pending[j])
  <2>1. /\ UNCHANGED <<db, writer, carried>>
        /\ writer = j /\ pending[j] # <<>>
        /\ draft' = With(draft, t, e)
        /\ pending' = [pending EXCEPT ![j] = rest]
        /\ taken' = taken + 1
    BY <1>4 DEF Insert
  <2>2. /\ pending[j] \in Seq(Item) /\ draft \in Store /\ db \in Store /\ taken \in Nat
        /\ pending \in [Jobs -> Seq(Item)]
        /\ Agrees(draft) /\ writer # Nobody
    BY <2>1, TraceStoreAssumption DEF IInv, TypeOK, SummariesAgree, Item, TraceStoreAssumption
  <2>3. Head(pending[j]) \in Item /\ rest \in Seq(Item) /\ Head(pending[j]) = pending[j][1]
        /\ Len(pending[j]) = Len(rest) + 1 /\ Len(rest) \in Nat
        /\ \A i \in 1 .. Len(rest) : rest[i] = pending[j][i + 1]
    BY <2>1, <2>2
  <2>4. t \in Traces /\ e \in Entry
    BY <2>3 DEF Item
  <2>5. /\ carried # <<>>
        /\ taken + Len(pending[j]) = Len(carried)
        /\ \A i \in 1 .. Len(pending[j]) : pending[j][i] = carried[taken + i]
        /\ \A u \in Traces : Log!Longer(db.rows[u], draft.rows[u], u, carried, taken)
    BY <2>1, <2>2 DEF Carrying
  <2>6. pending'[j] = rest
    BY <2>1, <2>2
  <2>7. carried[taken + 1].trace = t /\ carried[taken + 1].entry = e
    <3>1. 1 \in 1 .. Len(pending[j])
      BY <2>3
    <3> QED BY <2>3, <2>5, <3>1
  <2> HIDE DEF e, t, rest
  <2>8. /\ draft'.rows[t] = Append(draft.rows[t], e)
        /\ \A u \in Traces \ {t} : draft'.rows[u] = draft.rows[u]
    BY <2>1, <2>2, <2>4, Recording
  <2>9. \A u \in Traces : Log!Longer(db.rows[u], draft'.rows[u], u, carried, taken + 1)
    <3> SUFFICES ASSUME NEW u \in Traces
                 PROVE  Log!Longer(db.rows[u], draft'.rows[u], u, carried, taken + 1)
      OBVIOUS
    <3>1. db.rows[u] \in Seq(Entry) /\ draft.rows[u] \in Seq(Entry)
      BY <2>2 DEF Store
    <3>2. Log!Longer(db.rows[u], draft.rows[u], u, carried, taken)
      BY <2>5
    <3>3. CASE u = t
      <4>1. Log!Longer(db.rows[u], Append(draft.rows[u], e), u, carried, taken + 1)
        BY <2>2, <2>4, <2>7, <3>1, <3>2, <3>3, LongerByOne
      <4> QED BY <2>8, <3>3, <4>1
    <3>4. CASE u # t
      <4>1. Log!Longer(db.rows[u], draft.rows[u], u, carried, taken + 1)
        BY <2>2, <2>7, <3>2, <3>4, LongerByOther
      <4> QED BY <2>8, <3>4, <4>1
    <3> QED BY <3>3, <3>4
  <2>10. (taken + 1) + Len(rest) = Len(carried)
    BY <2>2, <2>3, <2>5
  <2>11. \A i \in 1 .. Len(rest) : rest[i] = carried[(taken + 1) + i]
    <3> SUFFICES ASSUME NEW i \in 1 .. Len(rest)
                 PROVE  rest[i] = carried[(taken + 1) + i]
      OBVIOUS
    <3>1. i + 1 \in 1 .. Len(pending[j]) /\ taken + (i + 1) = (taken + 1) + i
      BY <2>2, <2>3
    <3> QED BY <2>3, <2>5, <3>1
  <2> QED BY <2>1, <2>5, <2>6, <2>9, <2>10, <2>11 DEF Carrying
<1>5. ASSUME NEW j \in Jobs, Record(j) \/ Fail(j)
      PROVE  Carrying'
  <2>1. CASE writer' # Nobody
    <3>1. UNCHANGED <<db, writer, draft, carried, taken>> /\ writer # j /\ writer \in Jobs
      BY <1>5, <2>1 DEF Record, Fail, Close, IInv, TypeOK
    <3>2. pending'[writer] = pending[writer]
      BY <1>5, <3>1 DEF Record, Fail, IInv, TypeOK
    <3> QED BY <3>1, <3>2 DEF Carrying
  <2> QED BY <1>2, <2>1
<1>6. CASE Commit(writer) \/ Crash \/ CleanUp \/ Migrate
  <2>1. writer' = Nobody
    BY <1>6 DEF Commit, Crash, Close, CleanUp, Migrate, transaction, IInv, Working
  <2> QED BY <1>2, <2>1
<1>7. CASE (\E r \in Readers : ReadSummary(r) \/ ReadEvents(r)) \/ Resolve \/ Reopen \/ Tick
  BY <1>1, <1>7 DEF ReadSummary, ReadEvents, Resolve, Reopen, Tick
<1>8. CASE UNCHANGED vars
  BY <1>1, <1>8 DEF vars
<1>9. ASSUME NEW j \in Jobs, Commit(j)
      PROVE  Carrying'
  BY <1>6, <1>9 DEF Commit
<1> QED BY <1>3, <1>4, <1>5, <1>6, <1>7, <1>8, <1>9 DEF Next

LEMMA LogStutters ==
  ASSUME UNCHANGED <<db, Given, versioned, now>>
  PROVE  UNCHANGED Log!logVars
BY DEF Log!logVars

(* What a batch is given, and a thread keeps of it until its transaction
   ends. *)
LEMMA WritesMap ==
  ASSUME IInv, Carrying, NEW j \in Jobs, Record(j) \/ Begin(j) \/ Insert(j) \/ Commit(j) \/ Fail(j)
  PROVE  [Log!Next]_(Log!logVars)
<1>1. /\ pending \in [Jobs -> Seq(Item)] /\ writer \in Jobs \cup {Nobody} /\ j # Nobody
      /\ writer # Nobody => process = "up"
      /\ process = "up" => versioned
  BY TraceStoreAssumption DEF IInv, TypeOK, Item, Working, TraceStoreAssumption
<1>2. CASE Record(j)
  <2>1. PICK b \in Batches :
          /\ b # <<>>
          /\ pending' = [pending EXCEPT ![j] =
               [i \in 1 .. Len(b) |-> [trace |-> b[i].trace, entry |-> [at |-> now, kind |-> b[i].kind]]]]
    BY <1>2 DEF Record
  <2>2. /\ UNCHANGED <<db, writer, carried, versioned, now>> /\ process = "up"
        /\ pending[j] = <<>> /\ writer # j
    BY <1>2 DEF Record, opening
  <2>3. pending' = [pending EXCEPT ![j] = Log!Stamped(b)]
    BY <2>1 DEF Log!Stamped
  <2>4. Given' = [Given EXCEPT ![j] = Log!Stamped(b)]
    BY <1>1, <2>2, <2>3 DEF Given
  <2>5. Given[j] = <<>>
    BY <2>2 DEF Given
  <2>6. Log!Give(j)
    BY <1>1, <2>1, <2>2, <2>4, <2>5 DEF Log!Give
  <2> QED BY <2>6 DEF Log!Next
<1>3. CASE Begin(j)
  <2>1. /\ UNCHANGED <<db, pending, versioned, now>>
        /\ writer = Nobody /\ writer' = j /\ carried' = pending[j]
    BY <1>3 DEF Begin, opening, bounds
  <2>2. \A k \in Jobs : k # Nobody
    BY TraceStoreAssumption DEF TraceStoreAssumption
  <2>3. UNCHANGED Given
    BY <2>1, <2>2 DEF Given
  <2> QED BY <2>1, <2>3, LogStutters
<1>4. CASE Insert(j)
  <2>1. /\ UNCHANGED <<db, writer, carried, versioned, now>> /\ writer = j
        /\ pending' = [pending EXCEPT ![j] = Tail(@)]
    BY <1>4 DEF Insert, opening, bounds
  <2>2. UNCHANGED Given
    BY <1>1, <2>1 DEF Given
  <2> QED BY <2>1, <2>2, LogStutters
<1>5. CASE Commit(j)
  <2>1. /\ UNCHANGED <<pending, versioned, now>>
        /\ writer = j /\ pending[j] = <<>> /\ db' = draft
        /\ writer' = Nobody /\ carried' = <<>>
    BY <1>5 DEF Commit, Close, opening, bounds
  <2>2. /\ carried # <<>> /\ taken + Len(pending[j]) = Len(carried)
        /\ \A t \in Traces : Log!Longer(db.rows[t], draft.rows[t], t, carried, taken)
    BY <1>1, <2>1 DEF Carrying
  <2>3. taken = Len(carried)
    BY <2>1, <2>2 DEF IInv, TypeOK
  <2>4. Given[j] = carried
    BY <2>1 DEF Given
  <2>5. Given' = [Given EXCEPT ![j] = <<>>]
    <3>1. \A k \in Jobs : k # Nobody
      BY TraceStoreAssumption DEF TraceStoreAssumption
    <3> QED BY <2>1, <3>1 DEF Given
  <2>6. DOMAIN db'.rows = Traces
    BY <2>1 DEF IInv, TypeOK, Store
  <2>7. Log!Store(j)
    BY <2>1, <2>2, <2>3, <2>4, <2>5, <2>6 DEF Log!Store
  <2> QED BY <2>7 DEF Log!Next
<1>6. CASE Fail(j)
  <2>1. /\ UNCHANGED <<db, versioned, now>>
        /\ pending' = [pending EXCEPT ![j] = <<>>]
        /\ \/ writer = j /\ writer' = Nobody
           \/ writer # j /\ UNCHANGED <<writer, carried>>
    BY <1>6 DEF Fail, Close, opening, bounds
  <2>2. \A k \in Jobs : pending'[k] = IF k = j THEN <<>> ELSE pending[k]
    BY <1>1, <2>1
  <2>3. \A k \in Jobs : k # Nobody
    BY TraceStoreAssumption DEF TraceStoreAssumption
  <2>4. Given' = [k \in Jobs |-> IF k \in {j} THEN <<>> ELSE Given[k]]
    BY <2>1, <2>2, <2>3 DEF Given
  <2>5. Log!Drop({j})
    BY <2>1, <2>4 DEF Log!Drop
  <2> QED BY <2>5 DEF Log!Next
<1> QED BY <1>2, <1>3, <1>4, <1>5, <1>6

(* What is due is what the log knows and has kept for its time. *)
LEMMA CleanUpMaps ==
  ASSUME IInv, CleanUp
  PROVE  Log!Next
<1>1. PICK C \in SUBSET Traces : Oldest(C) /\ Delete(C)
  BY DEF CleanUp
<1>2. UNCHANGED <<versioned, now, Given>>
  BY DEF CleanUp, opening, transaction, bounds, Given
<1>3. db \in Store /\ db.rows \in [Traces -> Seq(Entry)] /\ now \in Nat /\ Keep \in Nat /\ CleanupBatch \in Nat
  BY TraceStoreAssumption DEF IInv, TypeOK, Store, TraceStoreAssumption
<1>4. ASSUME NEW t \in Traces
      PROVE  /\ db.runs[t] = NoRun <=> db.rows[t] = <<>>
             /\ db.runs[t] # NoRun => db.runs[t].started = db.rows[t][1].at /\ db.runs[t].started \in Nat
  <2>1. Fits(db.runs[t], db.rows[t])
    BY <1>3, Fitting DEF IInv, SummariesAgree
  <2>2. db.runs[t] \in Run \cup {NoRun}
    BY <1>3 DEF Store
  <2>3. CASE db.runs[t] # NoRun
    <3>1. Summary(db.runs[t], db.rows[t]) /\ db.runs[t] \in Run
      BY <2>1, <2>2, <2>3 DEF Fits
    <3>2. /\ DOMAIN db.rows[t] = 1 .. db.runs[t].count /\ db.runs[t].count > 0
          /\ db.runs[t].started = db.rows[t][1].at
      BY <3>1, SummaryParts
    <3>3. db.rows[t] # <<>>
      BY <3>1, <3>2, RunsOf
    <3> QED BY <2>3, <3>1, <3>2, <3>3, RunsOf
  <2> QED BY <2>1, <2>3 DEF Fits
<1>5. C \subseteq Due /\ Due \subseteq Log!Known
  BY <1>1, <1>4 DEF Oldest, Due, Log!Known
<1>6. Cardinality(C) <= CleanupBatch
  <2>1. Cardinality(Due) \in Nat
    <3>1. IsFiniteSet(Due)
      BY TraceStoreAssumption, FS_Subset DEF TraceStoreAssumption, Due
    <3> QED BY <3>1, FS_CardinalityType
  <2>2. Cardinality(C) = Least(CleanupBatch, Cardinality(Due))
    BY <1>1 DEF Oldest
  <2> QED BY <1>3, <2>1, <2>2 DEF Least
<1>7. ASSUME NEW c \in C, NEW d \in Log!Known \ C
      PROVE  db.rows[c][1].at <= db.rows[d][1].at
  <2>1. /\ c \in Traces /\ d \in Traces
        /\ db.runs[c] # NoRun /\ db.runs[c].started + Keep < now
        /\ db.runs[d] # NoRun
    BY <1>4, <1>5 DEF Due, Log!Known
  <2>2. CASE d \in Due
    BY <1>1, <1>4, <2>1, <2>2 DEF Oldest
  <2>3. CASE d \notin Due
    <3>1. ~(db.runs[d].started + Keep < now)
      BY <2>1, <2>3 DEF Due
    <3> QED BY <1>3, <1>4, <2>1, <3>1
  <2> QED BY <2>2, <2>3
<1>8. \A c \in C : db.rows[c][1].at + Keep < now
  BY <1>4, <1>5 DEF Due
<1>9. db'.rows = [t \in Traces |-> IF t \in C THEN <<>> ELSE db.rows[t]]
  BY <1>1 DEF Delete
<1>10. Log!Forget(C)
  BY <1>2, <1>5, <1>6, <1>7, <1>8, <1>9, SameCount DEF Log!Forget
<1> QED BY <1>10 DEF Log!Next

LEMMA OpeningMaps ==
  ASSUME IInv, Resolve \/ Migrate \/ Reopen \/ Crash \/ Tick
  PROVE  [Log!Next]_(Log!logVars)
<1>1. CASE Resolve \/ Reopen
  <2>1. UNCHANGED <<db, Given, versioned, now>>
    BY <1>1 DEF Resolve, Reopen, transaction, bounds, Given
  <2> QED BY <2>1, LogStutters
<1>2. CASE Migrate
  <2>1. db' = Migrated /\ ~versioned /\ versioned' = TRUE /\ UNCHANGED <<now, Given>>
    BY <1>2 DEF Migrate, IInv, Working, transaction, bounds, Given
  <2>2. Log!Adopt
    BY <2>1 DEF Log!Adopt, Migrated
  <2> QED BY <2>2 DEF Log!Next
<1>3. CASE Crash
  <2>1. /\ pending' = [j \in Jobs |-> <<>>] /\ writer' = Nobody /\ UNCHANGED <<db, versioned, now>>
    BY <1>3 DEF Crash, Close
  <2>2. \A j \in Jobs : j # Nobody
    BY TraceStoreAssumption DEF TraceStoreAssumption
  <2>3. Given' = [j \in Jobs |-> IF j \in Jobs THEN <<>> ELSE Given[j]]
    BY <2>1, <2>2 DEF Given
  <2>4. Log!Drop(Jobs)
    BY <2>1, <2>3 DEF Log!Drop
  <2> QED BY <2>4 DEF Log!Next
<1>4. CASE Tick
  <2>1. UNCHANGED <<db, Given, versioned>> /\ now' = now + 1
    BY <1>4 DEF Tick, opening, transaction, Given
  <2>2. Log!Tick
    BY <2>1 DEF Log!Tick
  <2> QED BY <2>2 DEF Log!Next
<1> QED BY <1>1, <1>2, <1>3, <1>4

(* Batches are stored whole, in order and once, or not at all; the first
   schema's rows are adopted once; the oldest traces are forgotten, for any
   events, threads, cleanups, failures and crashes (sqlite_trace_store.py:335,
   :537, sqlite_trace_schema.py:149). *)
THEOREM StoreKeepsLog == Spec => KeepsLog
<1>1. Init => Log!Init /\ Carrying
  <2> SUFFICES ASSUME Init
               PROVE  Log!Init /\ Carrying
    OBVIOUS
  <2>1. \A j \in Jobs : j # Nobody
    BY TraceStoreAssumption DEF TraceStoreAssumption
  <2>2. Given = [j \in Jobs |-> <<>>]
    BY <2>1 DEF Init, Given
  <2> QED BY <2>2 DEF Init, Empty, Log!Init, Carrying
<1>2. IInv /\ Carrying /\ [Next]_vars => Carrying'
  BY CarryingKept
<1>3. IInv /\ Carrying /\ [Next]_vars => [Log!Next]_(Log!logVars)
  <2> SUFFICES ASSUME IInv, Carrying, [Next]_vars
               PROVE  [Log!Next]_(Log!logVars)
    OBVIOUS
  <2>1. CASE UNCHANGED vars \/ \E r \in Readers : ReadSummary(r) \/ ReadEvents(r)
    <3>1. UNCHANGED <<db, Given, versioned, now>>
      BY <2>1 DEF vars, ReadSummary, ReadEvents, opening, transaction, bounds, Given
    <3> QED BY <3>1, LogStutters
  <2> QED BY <2>1, WritesMap, CleanUpMaps, OpeningMaps DEF Next
<1> QED BY <1>1, <1>2, <1>3, Invariant, PTL DEF Spec, KeepsLog, Log!Spec
=============================================================================
