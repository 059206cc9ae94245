------------------------------ MODULE TraceLog ------------------------------
(***************************************************************************)
(* What the trace store promises, without its transactions, runs and       *)
(* crashes: each batch is stored once, whole and in order, or dropped; the *)
(* first schema's rows are adopted once, before any batch; and only the    *)
(* oldest traces are forgotten, whole, when their time is over.            *)
(***************************************************************************)
EXTENDS Naturals, Sequences, FiniteSets

CONSTANTS
  Traces,
  Legacy,        \* the first schema's rows of each trace
  Jobs,          \* threads that write
  Batches,       \* what they may be given
  Keep,          \* how long a trace is kept
  CleanupBatch   \* how many traces are forgotten at a time

VARIABLES
  log,       \* the events of each trace, in order
  given,     \* the batch each thread has still to store
  adopted,   \* the first schema's rows are in the log
  now        \* the clock

logVars == <<log, given, adopted, now>>

Init ==
  /\ log = [t \in Traces |-> <<>>]
  /\ given = [j \in Jobs |-> <<>>]
  /\ adopted = FALSE
  /\ now = 1

Stamped(b) ==
  [i \in 1 .. Len(b) |-> [trace |-> b[i].trace, entry |-> [at |-> now, kind |-> b[i].kind]]]

Give(j) ==
  /\ adopted /\ given[j] = <<>>
  /\ \E b \in Batches : b # <<>> /\ given' = [given EXCEPT ![j] = Stamped(b)]
  /\ UNCHANGED <<log, adopted, now>>

Share(b, t, k) == {i \in 1 .. k : b[i].trace = t}

(* The first k events of b that are t's come after its old ones, in order. *)
Longer(old, new, t, b, k) ==
  /\ Len(new) = Len(old) + Cardinality(Share(b, t, k))
  /\ \A i \in 1 .. Len(old) : new[i] = old[i]
  /\ \A i \in Share(b, t, k) : new[Len(old) + Cardinality(Share(b, t, i))] = b[i].entry

Store(j) ==
  /\ given[j] # <<>>
  /\ DOMAIN log' = Traces
  /\ \A t \in Traces : Longer(log[t], log'[t], t, given[j], Len(given[j]))
  /\ given' = [given EXCEPT ![j] = <<>>]
  /\ UNCHANGED <<adopted, now>>

Drop(J) ==
  /\ given' = [j \in Jobs |-> IF j \in J THEN <<>> ELSE given[j]]
  /\ UNCHANGED <<log, adopted, now>>

Adopt ==
  /\ ~adopted /\ adopted' = TRUE
  /\ log' = Legacy
  /\ UNCHANGED <<given, now>>

Known == {t \in Traces : log[t] # <<>>}

Forget(C) ==
  /\ C \subseteq Known /\ Cardinality(C) <= CleanupBatch
  /\ \A c \in C :
       /\ log[c][1].at + Keep < now
       /\ \A d \in Known \ C : log[c][1].at <= log[d][1].at
  /\ log' = [t \in Traces |-> IF t \in C THEN <<>> ELSE log[t]]
  /\ UNCHANGED <<given, adopted, now>>

Tick ==
  /\ now' = now + 1
  /\ UNCHANGED <<log, given, adopted>>

Next ==
  \/ \E j \in Jobs : Give(j) \/ Store(j)
  \/ \E J \in SUBSET Jobs : Drop(J)
  \/ Adopt
  \/ \E C \in SUBSET Traces : Forget(C)
  \/ Tick

Spec == Init /\ [][Next]_logVars
=============================================================================
