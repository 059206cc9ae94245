----------------------------- MODULE TurnLimits -----------------------------
(***************************************************************************)
(* The limits of one turn (backend/app/orchestration/limits.py,            *)
(* OrchestrationLimitTracker): what the turn has used of each kind of      *)
(* work, and whether its duration has passed.                              *)
(***************************************************************************)
EXTENDS Naturals

CONSTANT Limit   \* the configured limits

Kinds == {"step", "tool_call", "memory_search", "llm_call"}

ASSUME LimitsAssumption == Limit \in [Kinds -> Nat \ {0}]

VARIABLES
  used,   \* steps_used, tool_calls_used, memory_searches_used, llm_calls_used
  late    \* max_turn_duration_seconds have passed

LimitsInit ==
  /\ used = [k \in Kinds |-> 0]
  /\ late = FALSE

WithinOffByOne(k) == ~late /\ used[k] <= Limit[k]

Within(k) == ~late /\ used[k] < Limit[k]

Consume(k) ==
  /\ Within(k)
  /\ used' = [used EXCEPT ![k] = @ + 1]

(* A turn out of time may degrade, one over its limits may not.            *)
Exceeded == IF late THEN "degradable" ELSE "fatal"

TimePasses ==
  /\ ~late
  /\ late' = TRUE
  /\ UNCHANGED used
=============================================================================
