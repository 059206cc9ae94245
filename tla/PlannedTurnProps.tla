-------------------------- MODULE PlannedTurnProps --------------------------
(***************************************************************************)
(* What a turn of the bounded planner keeps.                               *)
(***************************************************************************)
EXTENDS PlannedTurn

TraceEvents == {"started", "selected", "assessed", "listed", "clarified", "blocked",
                "task_completed", "completed", "fallback", "failed"}

TypeOK ==
  /\ at \in Points
  /\ failure \in Failures \cup {"none"}
  /\ request \in Requests
  /\ assessment \in Assessments \cup {NoAssessment, ChartAssessment}
  /\ plan \in Seq(PlanSteps)
  /\ pos \in 0 .. Len(plan)
  /\ loops \in 0 .. MaxToolLoop + 1
  /\ executed \in Seq(StepIds)
  /\ used \in [Kinds -> Nat]
  /\ late \in BOOLEAN
  /\ calls \in [Kinds -> Nat]
  /\ agentCalls \in Nat
  /\ effects \in BOOLEAN
  /\ journal \in Seq(TraceEvents)
  /\ outcome \in Outcomes

IsToolCall(i) == plan[i].action = "tool_call"

(* A turn does no more than its limits: what is used stays within them, no *)
(* call is made that was not counted, no step runs that was not counted    *)
(* besides the planning step, and tools do not run more often in a row     *)
(* than the loop limit says, also when the first of them began the plan    *)
(* (bounded_planner.py:402).                                               *)
LimitsHold ==
  /\ \A k \in Kinds : calls[k] <= used[k] /\ used[k] <= Limit[k]
  /\ Len(executed) > 0 => Len(executed) < used["step"]
  /\ \A i \in 1 .. Len(executed) - MaxToolLoop :
       \E j \in i .. i + MaxToolLoop : ~IsToolCall(j)

(* The steps that ran are the plan's first, in its order and each once,    *)
(* after all they depend on, and the step that ends the task ends the      *)
(* plan's execution whatever comes after it (bounded_planner.py:447).      *)
PlanFollowed ==
  LET n == Len(executed) IN
    /\ n <= pos /\ pos <= n + 1
    /\ \A i \in 1 .. n :
         /\ executed[i] = plan[i].id
         /\ plan[i].after \subseteq {executed[j] : j \in 1 .. i - 1}
         /\ i < n => plan[i].action \notin Terminal
    /\ n > 0 /\ plan[n].action \in Terminal => pos = n

TaskEvents == {"task_completed", "blocked"}

Ends(names) == \E n \in 0 .. Len(journal) : journal = SubSeq(journal, 1, n) \o names

Told(e) == \E i \in DOMAIN journal : journal[i] = e

(* The trace tells what became of the turn: an answer ends it completed,   *)
(* with a task either done or blocked on the user, as the plan ended; a    *)
(* degraded turn says so; a failed one ends failed.  A turn whose last     *)
(* record failed or that was cancelled has no such end, but never another  *)
(* (runtime.py:461).                                                       *)
TraceTellsOutcome ==
  /\ outcome = "answered" =>
       /\ Ends(<<"completed">>) /\ ~Told("fallback") /\ ~Told("failed")
       /\ request.taskFirst /\ executed # <<>> =>
            (Told("task_completed") <=> plan[Len(executed)].action = "finalize")
  /\ outcome = "degraded" => Ends(<<"fallback", "completed">>) /\ failure = "degradable"
  /\ outcome = "failed" => Ends(<<"failed">>) /\ ~Told("completed")
  /\ outcome \in {"escaped", "cancelled"} => ~Told("failed") /\ ~Told("completed")
  /\ ~(Told("task_completed") /\ Told("blocked"))

(* backend/config/README.md:495: fallbacks are not allowed after           *)
(* operations with external side effects.                                  *)
NoFallbackAfterEffects == outcome = "degraded" => ~effects

(* Every turn ends.                                                        *)
TurnEnds == <>(at = "over")
=============================================================================
