--------------------------- MODULE ReportingProofs ---------------------------
(***************************************************************************)
(* Proofs about ReportingQueries, for any number of callers, permits and   *)
(* attempts and any threshold of the circuit.                              *)
(***************************************************************************)
EXTENDS ReportingProps, FiniteSetTheorems, SequenceTheorems, TLAPS

(* A query pauses only before an attempt it still has.                     *)
PausesHaveAttempts == \A q \in Queries : at[q] = "pausing" => tries[q] < Attempts

IInv == TypeOK /\ PermitsAccounted /\ FailuresBounded /\ PausesHaveAttempts

InLine(q) == \E i \in 1 .. Len(waiters) : waiters[i] = q

-----------------------------------------------------------------------------
(* The semaphore.                                                          *)

(* The holders are finitely many.                                          *)
LEMMA Holding ==
  ASSUME holders \in SUBSET Queries
  PROVE  IsFiniteSet(holders) /\ Cardinality(holders) \in Nat
  BY ReportingAssumption, FS_Subset, FS_CardinalityType DEF ReportingAssumption

(* A permit released goes to the first in line, or is free.                *)
LEMMA ReleaseKeeps ==
  ASSUME TypeOK, PermitsAccounted, NEW q \in holders, Release(q),
         at' = [at EXCEPT ![q] = "idle"]
  PROVE  /\ holders' \in SUBSET Queries /\ waiters' \in Seq(Queries)
         /\ PermitsAccounted'
<1>1. /\ at \in [Queries -> Admitted \cup {"idle"}] /\ holders \in SUBSET Queries
      /\ waiters \in Seq(Queries) /\ q \in Queries /\ Permits \in Nat
  BY ReportingAssumption DEF TypeOK, ReportingAssumption
<1>2. IsFiniteSet(holders) /\ Cardinality(holders) \in Nat
  BY <1>1, Holding
<1>3. /\ IsFiniteSet(holders \ {q})
      /\ Cardinality(holders \ {q}) = Cardinality(holders) - 1
  BY <1>2, FS_RemoveElement
<1>4. CASE waiters = <<>>
  <2>1. holders' = holders \ {q} /\ waiters' = <<>>
    BY <1>4 DEF Release
  <2> QED
    BY <1>1, <1>2, <1>3, <1>4, <2>1 DEF PermitsAccounted, Admitted
<1>5. CASE waiters # <<>>
  <2> DEFINE h == Head(waiters)
  <2>1. /\ holders' = (holders \ {q}) \cup {h} /\ waiters' = Tail(waiters)
    BY <1>5 DEF Release
  <2>2. /\ Len(waiters) \in Nat /\ Len(waiters) >= 1 /\ h = waiters[1] /\ h \in Queries
        /\ waiters' \in Seq(Queries) /\ Len(waiters') = Len(waiters) - 1
        /\ \A i \in 1 .. Len(waiters') : waiters'[i] = waiters[i + 1]
    BY <1>1, <1>5, <2>1
  <2> HIDE DEF h
  <2>3. /\ at[h] = "queued" /\ h \notin holders /\ h # q
        /\ Cardinality(holders) = Permits
    BY <1>5, <2>2 DEF PermitsAccounted
  <2>4. Cardinality(holders') = Permits
    <3>1. Cardinality((holders \ {q}) \cup {h}) = Cardinality(holders \ {q}) + 1
      BY <1>3, <2>3, FS_AddElement
    <3> QED
      BY <1>2, <1>3, <2>1, <2>3, <3>1
  <2>5. \A p \in Queries : InLine(p)' <=> InLine(p) /\ p # h
    <3> TAKE p \in Queries
    <3>1. ASSUME NEW i \in 1 .. Len(waiters'), waiters'[i] = p
          PROVE  InLine(p) /\ p # h
      <4>1. i + 1 \in 1 .. Len(waiters) /\ i + 1 # 1 /\ waiters[i + 1] = p
        BY <2>2, <3>1
      <4> QED
        BY <2>2, <4>1 DEF InLine, PermitsAccounted
    <3>2. ASSUME NEW i \in 1 .. Len(waiters), waiters[i] = p, p # h
          PROVE  InLine(p)'
      <4>1. i # 1
        BY <2>2, <3>2
      <4>2. i - 1 \in 1 .. Len(waiters') /\ waiters'[i - 1] = waiters[i - 1 + 1] /\ i - 1 + 1 = i
        BY <2>2, <4>1
      <4> QED
        BY <3>2, <4>2 DEF InLine
    <3> QED
      BY <3>1, <3>2 DEF InLine
  <2>6. \A p \in Queries : at'[p] = "queued" => (p \in holders' <=> ~InLine(p)')
    <3> TAKE p \in Queries
    <3>1. HAVE at'[p] = "queued"
    <3>2. p # q /\ at[p] = "queued" /\ (p \in holders <=> ~InLine(p))
      BY <1>1, <3>1 DEF PermitsAccounted, InLine
    <3>3. InLine(h)
      BY <2>2 DEF InLine
    <3> QED
      BY <2>1, <2>5, <3>2, <3>3
  <2>7. /\ \A p \in Queries : at'[p] \in {"querying", "pausing"} => p \in holders'
        /\ \A p \in holders' : at'[p] \in Admitted
    BY <1>1, <2>1, <2>2, <2>3 DEF PermitsAccounted, Admitted
  <2>8. \A i \in 1 .. Len(waiters') : at'[waiters'[i]] = "queued"
    <3> TAKE i \in 1 .. Len(waiters')
    <3>1. i + 1 \in 1 .. Len(waiters) /\ waiters'[i] = waiters[i + 1]
      BY <2>2
    <3>2. at[waiters[i + 1]] = "queued" /\ waiters[i + 1] \in Queries /\ waiters[i + 1] # q
      <4>1. at[waiters[i + 1]] = "queued" /\ waiters[i + 1] \in Queries
        BY <1>1, <3>1 DEF PermitsAccounted
      <4>2. waiters[i + 1] \notin holders
        BY <3>1, <4>1 DEF PermitsAccounted
      <4> QED
        BY <4>1, <4>2
    <3> QED
      BY <1>1, <3>1, <3>2
  <2>9. \A i, j \in 1 .. Len(waiters') : waiters'[i] = waiters'[j] => i = j
    <3> TAKE i, j \in 1 .. Len(waiters')
    <3>1. /\ i + 1 \in 1 .. Len(waiters) /\ waiters'[i] = waiters[i + 1]
          /\ j + 1 \in 1 .. Len(waiters) /\ waiters'[j] = waiters[j + 1]
      BY <2>2
    <3>2. waiters[i + 1] = waiters[j + 1] => i + 1 = j + 1
      BY <3>1 DEF PermitsAccounted
    <3> QED
      BY <3>1, <3>2
  <2> QED
    BY <1>1, <2>1, <2>2, <2>4, <2>6, <2>7, <2>8, <2>9 DEF PermitsAccounted, InLine
<1> QED
  BY <1>4, <1>5

(* Who leaves the line moves nobody past another.                          *)
LEMMA LeaveKeeps ==
  ASSUME TypeOK, PermitsAccounted, NEW q \in Queries, q \notin holders, Leave(q),
         at' = [at EXCEPT ![q] = "idle"]
  PROVE  /\ holders' \in SUBSET Queries /\ waiters' \in Seq(Queries)
         /\ PermitsAccounted'
<1>1. /\ at \in [Queries -> Admitted \cup {"idle"}] /\ holders \in SUBSET Queries
      /\ waiters \in Seq(Queries) /\ Len(waiters) \in Nat
  BY DEF TypeOK
<1>2. PICK k \in 1 .. Len(waiters) :
        /\ waiters[k] = q
        /\ waiters' = SubSeq(waiters, 1, k - 1) \o SubSeq(waiters, k + 1, Len(waiters))
        /\ holders' = holders
  BY DEF Leave
<1> DEFINE from(i) == IF i < k THEN i ELSE i + 1
<1>3. /\ waiters' \in Seq(Queries) /\ Len(waiters') = Len(waiters) - 1
      /\ \A i \in 1 .. Len(waiters') :
           waiters'[i] = waiters[from(i)] /\ from(i) \in (1 .. Len(waiters)) \ {k}
  <2> DEFINE a == SubSeq(waiters, 1, k - 1)
             b == SubSeq(waiters, k + 1, Len(waiters))
  <2>1. /\ a \in Seq(Queries) /\ Len(a) = k - 1
        /\ \A i \in 1 .. k - 1 : a[i] = waiters[i]
    BY <1>1
  <2>2. /\ b \in Seq(Queries) /\ Len(b) = Len(waiters) - k
        /\ \A i \in 1 .. Len(waiters) - k : b[i] = waiters[i + k]
    BY <1>1
  <2>3. waiters' = a \o b
    BY <1>2
  <2> HIDE DEF a, b
  <2>4. /\ a \o b \in Seq(Queries) /\ Len(a \o b) = Len(a) + Len(b)
        /\ \A i \in 1 .. Len(a) + Len(b) : (a \o b)[i] = IF i <= Len(a) THEN a[i] ELSE b[i - Len(a)]
    BY <2>1, <2>2, ConcatProperties
  <2>5. Len(waiters') = Len(waiters) - 1
    BY <1>1, <2>1, <2>2, <2>3, <2>4
  <2>6. ASSUME NEW i \in 1 .. Len(waiters')
        PROVE  waiters'[i] = waiters[from(i)] /\ from(i) \in (1 .. Len(waiters)) \ {k}
    <3>1. CASE i < k
      BY <1>1, <2>1, <2>2, <2>3, <2>4, <2>5, <3>1
    <3>2. CASE i >= k
      <4>1. i - (k - 1) \in 1 .. Len(waiters) - k /\ i - (k - 1) + k = i + 1
        BY <1>1, <2>5, <3>2
      <4>2. waiters'[i] = b[i - (k - 1)]
        BY <1>1, <2>1, <2>2, <2>3, <2>4, <2>5, <3>2
      <4> QED
        BY <1>1, <2>2, <2>5, <3>2, <4>1, <4>2
    <3> QED
      BY <3>1, <3>2
  <2> QED
    BY <2>3, <2>4, <2>5, <2>6
<1>4. \A i \in (1 .. Len(waiters)) \ {k} : \E n \in 1 .. Len(waiters') : from(n) = i
  <2> TAKE i \in (1 .. Len(waiters)) \ {k}
  <2> DEFINE n == IF i < k THEN i ELSE i - 1
  <2>1. n \in 1 .. Len(waiters') /\ from(n) = i
    BY <1>1, <1>3
  <2> QED
    BY <2>1
<1>5. \A i, j \in 1 .. Len(waiters') : from(i) = from(j) => i = j
  BY <1>1, <1>3
<1> HIDE DEF from
<1>6. \A i, j \in 1 .. Len(waiters) : waiters[i] = waiters[j] => i = j
  BY DEF PermitsAccounted
<1>7. \A p \in Queries : InLine(p)' <=> InLine(p) /\ p # q
  <2> TAKE p \in Queries
  <2>1. ASSUME NEW i \in 1 .. Len(waiters'), waiters'[i] = p
        PROVE  InLine(p) /\ p # q
    <3>1. waiters[from(i)] = p /\ from(i) \in 1 .. Len(waiters) /\ from(i) # k
      BY <1>3, <2>1
    <3> QED
      BY <1>2, <1>6, <3>1 DEF InLine
  <2>2. ASSUME NEW i \in 1 .. Len(waiters), waiters[i] = p, p # q
        PROVE  InLine(p)'
    <3>1. PICK n \in 1 .. Len(waiters') : from(n) = i
      BY <1>2, <1>4, <2>2
    <3>2. waiters'[n] = p
      BY <1>3, <2>2, <3>1
    <3> QED
      BY <3>2 DEF InLine
  <2> QED
    BY <2>1, <2>2 DEF InLine
<1>8. \A p \in Queries : at'[p] = "queued" => (p \in holders' <=> ~InLine(p)')
  <2>1. \A p \in Queries : at[p] = "queued" => (p \in holders <=> ~InLine(p))
    BY DEF PermitsAccounted, InLine
  <2>2. \A p \in Queries : at'[p] = "queued" => at[p] = "queued" /\ p # q
    BY <1>1
  <2> QED
    BY <1>2, <1>7, <2>1, <2>2
<1>9. at[q] = "queued"
  BY <1>2 DEF PermitsAccounted
<1>10. /\ \A p \in Queries : at'[p] \in {"querying", "pausing"} => p \in holders'
       /\ \A p \in holders' : at'[p] \in Admitted
  BY <1>1, <1>2 DEF PermitsAccounted
<1>11. \A i \in 1 .. Len(waiters') : at'[waiters'[i]] = "queued"
  <2> TAKE i \in 1 .. Len(waiters')
  <2>1. /\ waiters'[i] = waiters[from(i)] /\ from(i) \in 1 .. Len(waiters) /\ from(i) # k
    BY <1>3
  <2>2. waiters[from(i)] # q /\ waiters[from(i)] \in Queries /\ at[waiters[from(i)]] = "queued"
    BY <1>1, <1>2, <1>6, <2>1 DEF PermitsAccounted
  <2> QED
    BY <1>1, <2>1, <2>2
<1>12. \A i, j \in 1 .. Len(waiters') : waiters'[i] = waiters'[j] => i = j
  BY <1>3, <1>5, <1>6
<1>13. Cardinality(holders') <= Permits /\ (waiters' # <<>> => Cardinality(holders') = Permits)
  <2>1. waiters # <<>>
    BY <1>1, <1>2
  <2> QED
    BY <1>2, <2>1 DEF PermitsAccounted
<1> QED
  BY <1>1, <1>2, <1>3, <1>8, <1>10, <1>11, <1>12, <1>13 DEF PermitsAccounted, InLine

(* Who enters takes a free permit, or stands last in line.                 *)
LEMMA EnterKeeps ==
  ASSUME TypeOK, PermitsAccounted, NEW q \in Queries, at[q] = "idle", Enter(q)
  PROVE  /\ holders' \in SUBSET Queries /\ waiters' \in Seq(Queries)
         /\ at' \in [Queries -> Admitted \cup {"idle"}]
         /\ tries' \in [Queries -> 0 .. Attempts]
         /\ \E to \in {"queued", "querying"} : at' = [at EXCEPT ![q] = to]
         /\ PermitsAccounted'
<1>1. /\ at \in [Queries -> Admitted \cup {"idle"}] /\ holders \in SUBSET Queries
      /\ waiters \in Seq(Queries) /\ Len(waiters) \in Nat
      /\ tries \in [Queries -> 0 .. Attempts]
      /\ Permits \in Nat /\ 1 \in 0 .. Attempts
  BY ReportingAssumption DEF TypeOK, ReportingAssumption
<1>2. IsFiniteSet(holders) /\ Cardinality(holders) \in Nat
  BY <1>1, Holding
<1>3. q \notin holders /\ \A i \in 1 .. Len(waiters) : waiters[i] # q
  BY DEF PermitsAccounted, Admitted
<1>4. CASE Cardinality(holders) < Permits /\ waiters = <<>>
  <2>1. /\ at' = [at EXCEPT ![q] = "querying"]
        /\ tries' = [tries EXCEPT ![q] = 1]
        /\ holders' = holders \cup {q}
        /\ waiters' = waiters
    BY <1>4 DEF Enter
  <2>2. Cardinality(holders') = Cardinality(holders) + 1
    BY <1>2, <1>3, <2>1, FS_AddElement
  <2>3. Cardinality(holders') <= Permits
    BY <1>1, <1>2, <1>4, <2>2
  <2> QED
    BY <1>1, <1>4, <2>1, <2>3 DEF PermitsAccounted, Admitted
<1>5. CASE ~(Cardinality(holders) < Permits /\ waiters = <<>>)
  <2>1. /\ at' = [at EXCEPT ![q] = "queued"]
        /\ waiters' = Append(waiters, q)
        /\ tries' = tries /\ holders' = holders
    BY <1>5 DEF Enter
  <2>2. Cardinality(holders) = Permits
    BY <1>1, <1>2, <1>5 DEF PermitsAccounted
  <2>3. /\ waiters' \in Seq(Queries) /\ Len(waiters') = Len(waiters) + 1
        /\ \A i \in 1 .. Len(waiters) : waiters'[i] = waiters[i]
        /\ waiters'[Len(waiters) + 1] = q
    BY <1>1, <2>1
  <2>4. \A i \in 1 .. Len(waiters') : i \in 1 .. Len(waiters) \/ i = Len(waiters) + 1
    BY <1>1, <2>3
  <2>5. Len(waiters) + 1 \in 1 .. Len(waiters') /\ \A i \in 1 .. Len(waiters) : i \in 1 .. Len(waiters')
    BY <1>1, <2>3
  <2>6. \A p \in Queries : InLine(p)' <=> InLine(p) \/ p = q
    BY <2>3, <2>4, <2>5 DEF InLine
  <2>7. \A p \in Queries : at'[p] = "queued" => (p \in holders' <=> ~InLine(p)')
    BY <1>1, <1>3, <2>1, <2>6 DEF PermitsAccounted, InLine
  <2>8. \A i \in 1 .. Len(waiters') : at'[waiters'[i]] = "queued"
    <3> TAKE i \in 1 .. Len(waiters')
    <3>1. CASE i = Len(waiters) + 1
      BY <1>1, <2>1, <2>3, <3>1
    <3>2. CASE i \in 1 .. Len(waiters)
      <4>1. waiters'[i] = waiters[i] /\ waiters[i] \in Queries /\ at[waiters[i]] = "queued"
        BY <1>1, <2>3, <3>2 DEF PermitsAccounted
      <4> QED
        BY <1>1, <2>1, <4>1
    <3> QED
      BY <2>4, <3>1, <3>2
  <2>9. \A i, j \in 1 .. Len(waiters') : waiters'[i] = waiters'[j] => i = j
    <3>1. \A i, j \in 1 .. Len(waiters) : waiters[i] = waiters[j] => i = j
      BY DEF PermitsAccounted
    <3> QED
      BY <1>3, <2>3, <2>4, <3>1
  <2>10. /\ \A p \in Queries : at'[p] \in {"querying", "pausing"} => p \in holders'
         /\ \A p \in holders' : at'[p] \in Admitted
    BY <1>1, <1>3, <2>1 DEF PermitsAccounted, Admitted
  <2>11. at' \in [Queries -> Admitted \cup {"idle"}]
    BY <1>1, <2>1 DEF Admitted
  <2>12. Cardinality(holders') <= Permits /\ Cardinality(holders') = Permits
    BY <1>1, <2>1, <2>2
  <2>13. PermitsAccounted'
    BY <2>7, <2>8, <2>9, <2>10, <2>12 DEF PermitsAccounted, InLine
  <2> QED
    BY <1>1, <2>1, <2>3, <2>11, <2>13
<1> QED
  BY <1>4, <1>5

(* A query cut short gives back its permit or its place.                   *)
LEMMA ExitKeeps ==
  ASSUME TypeOK, PermitsAccounted, NEW q \in Queries, at[q] \in Admitted, Exit(q),
         at' = [at EXCEPT ![q] = "idle"]
  PROVE  /\ holders' \in SUBSET Queries /\ waiters' \in Seq(Queries)
         /\ PermitsAccounted'
<1>1. CASE q \in holders
  BY <1>1, ReleaseKeeps DEF Exit
<1>2. CASE q \notin holders
  BY <1>2, LeaveKeeps DEF Exit
<1> QED
  BY <1>1, <1>2

(* Moving between the points of an admitted query that holds its permit,   *)
(* or from the line once it was given one, moves no permit.                *)
LEMMA MoveKeeps ==
  ASSUME TypeOK, PermitsAccounted, NEW q \in holders, at[q] \in Admitted,
         NEW to \in {"querying", "pausing"}, at' = [at EXCEPT ![q] = to],
         UNCHANGED <<holders, waiters>>
  PROVE  PermitsAccounted'
<1>1. /\ at \in [Queries -> Admitted \cup {"idle"}] /\ holders \in SUBSET Queries
      /\ waiters \in Seq(Queries) /\ q \in Queries
  BY DEF TypeOK
<1>2. \A p \in Queries : /\ p # q => at'[p] = at[p]
                         /\ at'[q] = to
  BY <1>1
<1>3. \A i \in 1 .. Len(waiters) : waiters[i] # q
  BY <1>1 DEF PermitsAccounted
<1>4. \A i \in 1 .. Len(waiters) : at'[waiters[i]] = "queued"
  BY <1>1, <1>2, <1>3 DEF PermitsAccounted
<1>5. /\ \A p \in Queries : at'[p] \in {"querying", "pausing"} => p \in holders
      /\ \A p \in holders : at'[p] \in Admitted
      /\ \A p \in Queries : at'[p] = "queued" =>
           (p \in holders <=> ~\E i \in 1 .. Len(waiters) : waiters[i] = p)
  BY <1>1, <1>2 DEF PermitsAccounted, Admitted
<1> QED
  BY <1>4, <1>5 DEF PermitsAccounted

-----------------------------------------------------------------------------
(* The circuit.                                                            *)

(* The queries in flight are finitely many, at most all.                   *)
LEMMA Flying ==
  /\ IsFiniteSet(Queries) /\ Cardinality(Queries) \in Nat
  /\ \A S \in SUBSET Queries :
       /\ IsFiniteSet(S) /\ Cardinality(S) \in Nat
       /\ Cardinality(S) <= Cardinality(Queries)
  BY ReportingAssumption, FS_Subset, FS_CardinalityType DEF ReportingAssumption

(* A query that ends is in flight no more.                                 *)
LEMMA Landing ==
  ASSUME TypeOK, NEW q \in Queries, at[q] \in Admitted, at' = [at EXCEPT ![q] = "idle"]
  PROVE  Cardinality(InFlight') = Cardinality(InFlight) - 1
<1>1. at \in [Queries -> Admitted \cup {"idle"}] /\ "idle" \notin Admitted
  BY DEF TypeOK, Admitted
<1>2. InFlight' = InFlight \ {q}
  BY <1>1 DEF InFlight
<1>3. q \in InFlight /\ IsFiniteSet(InFlight)
  BY Flying DEF InFlight
<1> QED
  BY <1>2, <1>3, FS_RemoveElement

(* One that goes on stays in flight.                                       *)
LEMMA GoingOn ==
  ASSUME TypeOK, NEW q \in Queries, at[q] \in Admitted, NEW to \in Admitted,
         at' = [at EXCEPT ![q] = to]
  PROVE  InFlight' = InFlight
  BY DEF TypeOK, InFlight

(* The circuit's books: each failure comes from a query that ends.         *)
LEMMA CircuitKeeps ==
  ASSUME TypeOK, FailuresBounded,
         \/ UNCHANGED breaker /\ InFlight' = InFlight
         \/ /\ \E q \in Queries : at[q] \in Admitted /\ at' = [at EXCEPT ![q] = "idle"]
            /\ UNCHANGED breaker \/ ResetCircuit \/ RecordFailure
         \/ circuit # "open" /\ (ResetCircuit \/ (circuit = "closed" /\ UNCHANGED breaker))
         \/ circuit = "open" /\ circuit' = "elapsed" /\ failures' = failures
              /\ InFlight' = InFlight
  PROVE  /\ failures' \in Nat /\ circuit' \in {"closed", "open", "elapsed"}
         /\ FailuresBounded'
<1>1. /\ failures \in Nat /\ circuit \in {"closed", "open", "elapsed"}
      /\ Threshold \in Nat /\ Threshold >= 1
      /\ circuit = "closed" <=> failures < Threshold
      /\ failures + Cardinality(InFlight) <= Threshold - 1 + Cardinality(Queries)
  BY ReportingAssumption DEF TypeOK, FailuresBounded, ReportingAssumption
<1> DEFINE m == Cardinality(InFlight)
           n == Cardinality(InFlight')
           all == Cardinality(Queries)
<1>2. m \in Nat /\ n \in Nat /\ all \in Nat /\ n <= all
  <2>1. InFlight \in SUBSET Queries /\ InFlight' \in SUBSET Queries
    BY DEF InFlight
  <2> QED
    BY <2>1, Flying
<1>3. FailuresBounded' <=> /\ circuit' = "closed" <=> failures' < Threshold
                           /\ failures' + n <= Threshold - 1 + all
  BY DEF FailuresBounded
<1>4. CASE UNCHANGED breaker /\ InFlight' = InFlight
  BY <1>1, <1>3, <1>4 DEF breaker
<1>5. CASE circuit = "open" /\ circuit' = "elapsed" /\ failures' = failures /\ InFlight' = InFlight
  BY <1>1, <1>3, <1>5
<1>6. CASE ResetCircuit
  <2>1. failures' = 0 /\ circuit' = "closed"
    BY <1>6 DEF ResetCircuit
  <2> HIDE DEF m, n, all
  <2> QED
    BY <1>1, <1>2, <1>3, <2>1
<1>7. CASE circuit = "closed" /\ UNCHANGED breaker
  <2>1. failures' = failures /\ circuit' = circuit /\ failures < Threshold
    BY <1>1, <1>7 DEF breaker
  <2> HIDE DEF m, n, all
  <2> QED
    BY <1>1, <1>2, <1>3, <2>1
<1>8. ASSUME NEW q \in Queries, at[q] \in Admitted, at' = [at EXCEPT ![q] = "idle"],
             UNCHANGED breaker \/ RecordFailure
      PROVE  /\ failures' \in Nat /\ circuit' \in {"closed", "open", "elapsed"}
             /\ FailuresBounded'
  <2>1. n = m - 1
    BY <1>8, Landing
  <2>2. failures + m <= Threshold - 1 + all
    BY <1>1
  <2> HIDE DEF m, n, all
  <2>3. CASE UNCHANGED breaker
    BY <1>1, <1>2, <1>3, <2>1, <2>2, <2>3 DEF breaker
  <2>4. CASE RecordFailure
    <3>1. /\ failures' = failures + 1
          /\ circuit' = IF failures + 1 >= Threshold THEN "open" ELSE circuit
      BY <2>4 DEF RecordFailure
    <3> QED
      BY <1>1, <1>2, <1>3, <2>1, <2>2, <3>1
  <2> QED
    BY <1>8, <2>3, <2>4
<1> QED
  BY <1>4, <1>5, <1>6, <1>7, <1>8

-----------------------------------------------------------------------------
(* The invariant.                                                          *)

(* The initial state keeps it.                                             *)
LEMMA IInvInit == Init => IInv
<1> SUFFICES ASSUME Init PROVE IInv
  OBVIOUS
<1>1. holders = {} /\ waiters = <<>> /\ failures = 0 /\ circuit = "closed"
      /\ \A q \in Queries : at[q] = "idle"
  BY DEF Init
<1>2. TypeOK
  BY ReportingAssumption DEF Init, TypeOK, Outcomes, ReportingAssumption
<1>3. PermitsAccounted
  BY <1>1, FS_EmptySet, ReportingAssumption DEF PermitsAccounted, ReportingAssumption
<1>4. FailuresBounded
  <2>1. InFlight = {}
    BY <1>1 DEF InFlight, Admitted
  <2> QED
    BY <1>1, <2>1, FS_EmptySet, Flying, ReportingAssumption DEF FailuresBounded, ReportingAssumption
<1> QED
  BY <1>1, <1>2, <1>3, <1>4 DEF IInv, PausesHaveAttempts

(* What a step of one query leaves of the rest, and what it may not        *)
(* disturb, is put together here.                                          *)
LEMMA Ends ==
  ASSUME IInv, NEW q \in Queries, at[q] \in Admitted, NEW how \in Outcomes, Settle(q, how),
         holders' \in SUBSET Queries, waiters' \in Seq(Queries), PermitsAccounted',
         UNCHANGED breaker \/ ResetCircuit \/ RecordFailure,
         cache' \in [Keys -> {"none", "live", "expired"}]
  PROVE  IInv'
<1>1. /\ at' = [at EXCEPT ![q] = "idle"] /\ outcome' = [outcome EXCEPT ![q] = how]
      /\ key' = key /\ tries' = tries
  BY DEF Settle
<1>2. /\ failures' \in Nat /\ circuit' \in {"closed", "open", "elapsed"}
      /\ FailuresBounded'
  BY <1>1, CircuitKeeps DEF IInv
<1>3. TypeOK'
  BY <1>1, <1>2 DEF IInv, TypeOK
<1>4. PausesHaveAttempts'
  BY <1>1 DEF IInv, TypeOK, PausesHaveAttempts
<1> QED
  BY <1>2, <1>3, <1>4 DEF IInv

(* Every step keeps the invariant.                                         *)
LEMMA IInvNext == IInv /\ [Next]_vars => IInv'
<1> SUFFICES ASSUME IInv, [Next]_vars PROVE IInv'
  OBVIOUS
<1>1. TypeOK /\ PermitsAccounted /\ FailuresBounded /\ PausesHaveAttempts
  BY DEF IInv
<1>2. /\ at \in [Queries -> Admitted \cup {"idle"}]
      /\ tries \in [Queries -> 0 .. Attempts]
      /\ outcome \in [Queries -> Outcomes]
      /\ cache \in [Keys -> {"none", "live", "expired"}]
      /\ holders \in SUBSET Queries /\ waiters \in Seq(Queries)
      /\ Attempts \in Nat /\ Attempts >= 1
  BY <1>1, ReportingAssumption DEF TypeOK, ReportingAssumption
<1>3. ASSUME NEW q \in Queries, AskRefused(q) PROVE IInv'
  <2>1. /\ UNCHANGED <<at, tries, holders, waiters, failures, circuit>>
        /\ \E k \in Keys : key' = [key EXCEPT ![q] = k] /\ cache' \in {cache, [cache EXCEPT ![k] = "none"]}
        /\ \E how \in Outcomes : outcome' = [outcome EXCEPT ![q] = how]
    BY <1>3 DEF AskRefused, breaker, Outcomes
  <2>2. TypeOK'
    BY <1>1, <2>1 DEF TypeOK
  <2> QED
    BY <1>1, <2>1, <2>2 DEF IInv, PermitsAccounted, FailuresBounded, InFlight, PausesHaveAttempts
<1>4. ASSUME NEW q \in Queries, Ask(q) PROVE IInv'
  <2>1. /\ at[q] = "idle" /\ circuit # "open" /\ Enter(q)
        /\ \E k \in Keys : key' = [key EXCEPT ![q] = k] /\ cache' = [cache EXCEPT ![k] = "none"]
        /\ outcome' = [outcome EXCEPT ![q] = "none"]
        /\ ResetCircuit \/ (circuit = "closed" /\ UNCHANGED breaker)
    BY <1>4 DEF Ask
  <2>2. /\ holders' \in SUBSET Queries /\ waiters' \in Seq(Queries)
        /\ at' \in [Queries -> Admitted \cup {"idle"}]
        /\ tries' \in [Queries -> 0 .. Attempts]
        /\ PermitsAccounted'
    BY <1>1, <2>1, EnterKeeps
  <2>3. /\ failures' \in Nat /\ circuit' \in {"closed", "open", "elapsed"}
        /\ FailuresBounded'
    BY <1>1, <2>1, CircuitKeeps
  <2>4. TypeOK'
    <3>1. key' \in [Queries -> Keys] /\ cache' \in [Keys -> {"none", "live", "expired"}]
      BY <1>1, <2>1 DEF TypeOK
    <3>2. outcome' \in [Queries -> Outcomes]
      BY <1>2, <2>1 DEF Outcomes
    <3> QED
      BY <2>2, <2>3, <3>1, <3>2 DEF TypeOK
  <2>5. PausesHaveAttempts'
    <3>1. \E to \in {"queued", "querying"} : at' = [at EXCEPT ![q] = to]
      BY <1>1, <2>1, EnterKeeps
    <3>2. \A p \in Queries \ {q} : tries'[p] = tries[p]
      BY <1>2, <2>1 DEF Enter
    <3> QED
      BY <1>1, <1>2, <3>1, <3>2 DEF PausesHaveAttempts
  <2> QED
    BY <2>2, <2>3, <2>4, <2>5 DEF IInv
<1>5. ASSUME NEW q \in holders, at[q] \in Admitted, NEW to \in {"querying", "pausing"},
             at' = [at EXCEPT ![q] = to],
             to = "pausing" => tries' = tries /\ tries[q] < Attempts,
             tries' \in [Queries -> 0 .. Attempts],
             \A p \in Queries \ {q} : tries'[p] = tries[p],
             UNCHANGED <<key, outcome, holders, waiters, breaker, cache>>
      PROVE  IInv'
  <2>1. PermitsAccounted'
    BY <1>1, <1>5, MoveKeeps
  <2>2. InFlight' = InFlight
    BY <1>1, <1>2, <1>5, GoingOn DEF Admitted
  <2>3. FailuresBounded'
    BY <1>1, <1>5, <2>2, CircuitKeeps
  <2>4. TypeOK'
    BY <1>1, <1>5 DEF TypeOK, breaker, Admitted
  <2>5. PausesHaveAttempts'
    BY <1>1, <1>2, <1>5 DEF PausesHaveAttempts
  <2> QED
    BY <2>1, <2>3, <2>4, <2>5 DEF IInv
<1>6. ASSUME NEW q \in Queries, Start(q) PROVE IInv'
  <2>1. /\ q \in holders /\ at[q] \in Admitted /\ at' = [at EXCEPT ![q] = "querying"]
        /\ tries' = [tries EXCEPT ![q] = 1]
        /\ UNCHANGED <<key, outcome, holders, waiters, breaker, cache>>
    BY <1>6 DEF Start, Admitted
  <2>2. /\ tries' \in [Queries -> 0 .. Attempts]
        /\ \A p \in Queries \ {q} : tries'[p] = tries[p]
    BY <1>2, <2>1
  <2> QED
    BY <1>5, <2>1, <2>2
<1>7. ASSUME NEW q \in Queries, Retry(q) PROVE IInv'
  <2>1. /\ q \in holders /\ at[q] \in Admitted /\ at' = [at EXCEPT ![q] = "pausing"]
        /\ tries' = tries /\ tries[q] < Attempts
        /\ UNCHANGED <<key, outcome, holders, waiters, breaker, cache>>
    BY <1>1, <1>7 DEF Retry, Admitted, PermitsAccounted
  <2> QED
    BY <1>2, <1>5, <2>1
<1>8. ASSUME NEW q \in Queries, TryAgain(q) PROVE IInv'
  <2>1. /\ q \in holders /\ at[q] \in Admitted /\ at' = [at EXCEPT ![q] = "querying"]
        /\ tries' = [tries EXCEPT ![q] = tries[q] + 1] /\ tries[q] < Attempts
        /\ UNCHANGED <<key, outcome, holders, waiters, breaker, cache>>
    BY <1>1, <1>8 DEF TryAgain, Admitted, PermitsAccounted, PausesHaveAttempts
  <2>2. tries[q] \in 0 .. Attempts /\ tries[q] + 1 \in 0 .. Attempts
    BY <1>2, <2>1
  <2>3. /\ tries' \in [Queries -> 0 .. Attempts]
        /\ \A p \in Queries \ {q} : tries'[p] = tries[p]
    BY <1>2, <2>1, <2>2
  <2> QED
    BY <1>5, <2>1, <2>3
<1>9. ASSUME NEW q \in Queries, Answer(q) \/ GiveUp(q) PROVE IInv'
  <2>1. /\ at[q] = "querying" /\ Release(q)
        /\ \E how \in {"answered", "error"} : Settle(q, how)
        /\ UNCHANGED breaker \/ ResetCircuit \/ RecordFailure
        /\ cache' \in {cache, [cache EXCEPT ![key[q]] = "live"]}
    BY <1>9 DEF Answer, GiveUp
  <2>2. q \in holders /\ at' = [at EXCEPT ![q] = "idle"]
    BY <1>1, <2>1 DEF PermitsAccounted, Settle
  <2>3. /\ holders' \in SUBSET Queries /\ waiters' \in Seq(Queries)
        /\ PermitsAccounted'
    BY <1>1, <2>1, <2>2, ReleaseKeeps
  <2>4. cache' \in [Keys -> {"none", "live", "expired"}]
    BY <1>2, <2>1
  <2>5. PICK how \in Outcomes : Settle(q, how)
    BY <2>1 DEF Outcomes
  <2>6. at[q] \in Admitted
    BY <2>1 DEF Admitted
  <2> QED
    BY <2>1, <2>3, <2>4, <2>5, <2>6, Ends
<1>10. ASSUME NEW q \in Queries, TimeOut(q) \/ Cancel(q) PROVE IInv'
  <2>1. /\ at[q] \in Admitted /\ Exit(q) /\ UNCHANGED breaker /\ cache' = cache
        /\ \E how \in {"timeout", "cancelled"} : Settle(q, how)
    BY <1>10 DEF TimeOut, Cancel
  <2>2. /\ holders' \in SUBSET Queries /\ waiters' \in Seq(Queries)
        /\ PermitsAccounted'
    BY <1>1, <2>1, ExitKeeps DEF Settle
  <2>3. PICK how \in Outcomes : Settle(q, how)
    BY <2>1 DEF Outcomes
  <2> QED
    BY <1>2, <2>1, <2>2, <2>3, Ends
<1>11. ASSUME UNCHANGED <<at, key, tries, outcome, holders, waiters, failures>>,
              \/ circuit = "open" /\ circuit' = "elapsed" /\ cache' = cache
              \/ circuit' = circuit /\ cache' \in [Keys -> {"none", "live", "expired"}]
       PROVE  IInv'
  <2>1. InFlight' = InFlight
    BY <1>11 DEF InFlight
  <2>2. FailuresBounded' /\ circuit' \in {"closed", "open", "elapsed"}
    BY <1>1, <1>11, <2>1, CircuitKeeps DEF breaker
  <2>3. TypeOK'
    BY <1>1, <1>11, <2>2 DEF TypeOK
  <2>4. PermitsAccounted' /\ PausesHaveAttempts'
    BY <1>1, <1>11 DEF PermitsAccounted, PausesHaveAttempts
  <2> QED
    BY <2>2, <2>3, <2>4 DEF IInv
<1>12. ASSUME Cool PROVE IInv'
  BY <1>11, <1>12 DEF Cool
<1>13. ASSUME NEW k \in Keys, Expire(k) PROVE IInv'
  BY <1>2, <1>11, <1>13 DEF Expire, breaker
<1>14. ASSUME UNCHANGED vars PROVE IInv'
  BY <1>2, <1>11, <1>14 DEF vars, breaker
<1> QED
  BY <1>3, <1>4, <1>6, <1>7, <1>8, <1>9, <1>10, <1>12, <1>13, <1>14 DEF Next

(* The invariant holds throughout.                                         *)
LEMMA Invariant == Spec => []IInv
<1>1. Init => IInv
  BY IInvInit
<1>2. IInv /\ [Next]_vars => IInv'
  BY IInvNext
<1> QED
  BY <1>1, <1>2, PTL DEF Spec

-----------------------------------------------------------------------------
(* No permit of the provider's semaphore is lost or lent twice, for any    *)
(* number of queries, permits and attempts: whoever ends, times out or is  *)
(* cancelled, at whatever point, nobody waits while a permit is free.      *)
THEOREM QueriesAreSound == Spec => []QueriesSound
<1>1. IInv => QueriesSound
  BY DEF IInv, QueriesSound
<1> QED
  BY <1>1, Invariant, PTL

(* The circuit is closed below its threshold and only below it, and what   *)
(* can still fail past it are the queries that were let in before.         *)
THEOREM FailuresAreBounded == Spec => []FailuresBounded
<1>1. IInv => FailuresBounded
  BY DEF IInv
<1> QED
  BY <1>1, Invariant, PTL
=============================================================================
