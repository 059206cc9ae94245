---------------------------- MODULE MCTraceStore ----------------------------
(* A small instance of TraceStore: events that start, complete with a      *)
(* typed error or fail, and a trace that has a row of the first schema.    *)
EXTENDS TraceStoreProps, TLC

CONSTANTS a, b, j1, j2, r1

Opens == [status |-> "started", severity |-> 2, typed |-> FALSE]
Completes == [status |-> "completed", severity |-> 3, typed |-> TRUE]
Fails == [status |-> "failed", severity |-> 4, typed |-> TRUE]

SomeKinds == {Opens, Completes, Fails}

Of(t, k) == [trace |-> t, kind |-> k]

SomeBatches ==
  {<<Of(a, k)>> : k \in {Opens, Fails}} \cup
  {<<Of(a, Completes), Of(a, Opens)>>, <<Of(b, Opens), Of(a, Opens)>>, <<Of(b, Completes)>>}

SomeLegacy == [t \in Traces |-> IF t = a THEN <<[at |-> 1, kind |-> Completes]>> ELSE <<>>]

SomeLimits == {2}

JobSymmetry == Permutations(Jobs)
=============================================================================
