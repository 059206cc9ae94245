--------------------------- MODULE ReportingProps ---------------------------
(***************************************************************************)
(* What the reporting tool's queries keep.                                 *)
(***************************************************************************)
EXTENDS ReportingQueries

InFlight == {q \in Queries : at[q] \in Admitted}

TypeOK ==
  /\ at \in [Queries -> Admitted \cup {"idle"}]
  /\ key \in [Queries -> Keys]
  /\ tries \in [Queries -> 0 .. Attempts]
  /\ outcome \in [Queries -> Outcomes]
  /\ holders \in SUBSET Queries
  /\ waiters \in Seq(Queries)
  /\ failures \in Nat
  /\ circuit \in {"closed", "open", "elapsed"}
  /\ cache \in [Keys -> {"none", "live", "expired"}]

(* No permit is lost or lent twice, whatever is cancelled or times out     *)
(* while it waits, while a permit is being handed to it or while it asks   *)
(* the provider: nobody waits while one is free (service.py:144).          *)
PermitsAccounted ==
  /\ Cardinality(holders) <= Permits
  /\ waiters # <<>> => Cardinality(holders) = Permits
  /\ \A q \in Queries : at[q] \in {"querying", "pausing"} => q \in holders
  /\ \A q \in holders : at[q] \in Admitted
  /\ \A q \in Queries : at[q] = "queued" =>
       (q \in holders <=> ~\E i \in 1 .. Len(waiters) : waiters[i] = q)
  /\ \A i \in 1 .. Len(waiters) : at[waiters[i]] = "queued"
  /\ \A i, j \in 1 .. Len(waiters) : waiters[i] = waiters[j] => i = j

(* With the types: nothing a caller's end, early or late, does to another. *)
QueriesSound == TypeOK /\ PermitsAccounted

(* The circuit is open from the failure that reaches the threshold until a *)
(* query resets it, and the queries let in before it opened, which do not  *)
(* look at it again when their turn comes, are all that can still fail     *)
(* (service.py:141, :459).                                                 *)
FailuresBounded ==
  /\ circuit = "closed" <=> failures < Threshold
  /\ failures + Cardinality(InFlight) <= Threshold - 1 + Cardinality(Queries)

(* Every query ends, and one that waits for a permit gets it: the permit   *)
(* of a query that ended, timed out or was cancelled reaches the next.     *)
QueriesEnd == \A q \in Queries : at[q] # "idle" ~> at[q] = "idle"
=============================================================================
