------------------------- MODULE PolicyDecisionCache -------------------------
(***************************************************************************)
(* The policy service's cache of decisions                                 *)
(* (backend/app/policy/decision_cache.py): an ordered dictionary, oldest   *)
(* use first, of entries that lapse.  evaluate() reads it, asks the engine *)
(* on a miss and stores the answer without giving up the event loop, so    *)
(* one evaluation is one step.  An entry's expiry is an instant of the     *)
(* wall clock, which may be set back between two of them: any entry may    *)
(* lapse before any other.                                                 *)
(***************************************************************************)
EXTENDS Naturals, Sequences, FiniteSets

CONSTANT MaxEntries   \* decision_cache.max_entries

ASSUME CacheAssumption == MaxEntries \in Nat \ {0}

VARIABLE entries      \* _entries: a sequence of [key, decision, lapsed]

CacheInit == entries = <<>>

Positions(k) == {i \in 1 .. Len(entries) : entries[i].key = k}

Live(k) == \E i \in Positions(k) : ~entries[i].lapsed

Stored(k) == entries[CHOOSE i \in Positions(k) : TRUE].decision

Entry(k, d) == [key |-> k, decision |-> d, lapsed |-> FALSE]

(* The i-th smallest of a set of positions.                                *)
Nth(S, i) == CHOOSE n \in S : Cardinality({m \in S : m < n}) = i - 1

(* The entries at these positions, oldest use first.                       *)
Kept(S) == [i \in 1 .. Cardinality(S) |-> entries[Nth(S, i)]]

Others(k) == (1 .. Len(entries)) \ Positions(k)

Unlapsed == {i \in 1 .. Len(entries) : ~entries[i].lapsed}

(* The newest MaxEntries of a sequence one step may have made too long.    *)
Trimmed(s) == IF Len(s) > MaxEntries THEN Tail(s) ELSE s

Hit(k) ==
  /\ Live(k)
  /\ entries' = Append(Kept(Others(k)), Entry(k, Stored(k)))

Miss(k, verdict) ==
  /\ ~Live(k)
  /\ entries' = Trimmed(Append(Kept(Others(k) \cap Unlapsed), Entry(k, verdict)))

(* What evaluate() returns, the engine's decision being verdict.           *)
Decision(k, verdict) == IF Live(k) THEN Stored(k) ELSE verdict

Evaluate(k, verdict) == Hit(k) \/ Miss(k, verdict)

Lapse == \E i \in 1 .. Len(entries) :
  /\ ~entries[i].lapsed
  /\ entries' = [entries EXCEPT ![i].lapsed = TRUE]

(* health() purges what has lapsed when it takes its snapshot.             *)
Snapshot ==
  /\ Unlapsed # 1 .. Len(entries)
  /\ entries' = Kept(Unlapsed)
=============================================================================
