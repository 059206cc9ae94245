---------------------------- MODULE PlannedTurn ----------------------------
(***************************************************************************)
(* One turn of the bounded planner (backend/app/orchestration/strategies/  *)
(* bounded_planner.py) as the runtime runs it (orchestration/runtime.py,   *)
(* run_turn): the request is assessed, a plan is made and validated, its   *)
(* steps run one after the other within the turn's limits, and a failure   *)
(* may be answered by the fallback strategy instead.                       *)
(*                                                                         *)
(* Each point but the synchronous ones is an await.  The trace store is a  *)
(* required one, the default: a record that fails raises where it is made. *)
(* A cancellation of the task escapes every handler, except within an      *)
(* agent, a tool call or an LLM call, which turn it into a failure of      *)
(* theirs.  No caller in the backend sets the cancellation token.          *)
(***************************************************************************)
EXTENDS TurnLimits, Sequences, FiniteSets

CONSTANTS
  StepIds,             \* the names a step may have
  Plans,               \* the plans an LLM or a request may give
  Assessments,         \* the assessments an agent or a request may give
  ChartAgentOffered,   \* chart_agent is among the agents of the use case
  FallbackConfigured,  \* a fallback strategy is configured
  MaxPlanSteps,        \* max_plan_steps
  MaxExecuteSteps,     \* max_execute_steps
  MaxToolLoop          \* max_tool_loop_iterations

Terminal == {"finalize", "request_user_input"}

Actions == {"memory_search", "tool_call", "agent_invoke", "llm_call"} \cup Terminal

(* fits: what _validate_plan_step asks of the step's inputs; effect: its   *)
(* tool has external side effects.                                         *)
PlanSteps ==
  [id : StepIds, action : Actions, after : SUBSET StepIds, fits : BOOLEAN, effect : BOOLEAN]

Modes == {"direct_answer", "request_user_input", "planned_execution"}

ASSUME PlannerAssumption ==
  /\ {"chart_1", "finalize"} \subseteq StepIds
  /\ Plans \subseteq Seq(PlanSteps)
  /\ Assessments \subseteq [mode : Modes, list : Seq(PlanSteps), chart : BOOLEAN]
  /\ ChartAgentOffered \in BOOLEAN
  /\ FallbackConfigured \in BOOLEAN
  /\ MaxPlanSteps \in Nat \ {0}
  /\ MaxExecuteSteps \in Nat \ {0}
  /\ MaxToolLoop \in Nat \ {0}

VARIABLES
  at,          \* where the turn is
  failure,     \* the kind of the error being handled
  request,     \* [taskFirst, given, charting]
  assessment,  \* the task assessment
  plan,        \* plan.steps
  pos,         \* how many of them were begun
  loops,       \* tool_loop_iterations
  executed,    \* executed_summaries: the ids of the steps that ended
  calls,       \* history: the planner's calls of the gateways
  agentCalls,  \* history: LLM calls of the agents it ran
  effects,     \* history: a tool with external side effects answered
  journal,     \* the trace events recorded, in order
  outcome      \* what the caller of run_turn gets

planVars == <<request, assessment, plan, pos, loops, executed>>
callVars == <<calls, agentCalls, effects>>
vars == <<at, failure, used, late, planVars, callVars, journal, outcome>>

Synchronous == {"beginning", "validating", "stepping", "over"}

Points == Synchronous \cup
  {"authorizing", "opening", "assessing", "consulting", "judging", "planning",
   "composing", "listing", "permitting", "acting", "blocking", "closing",
   "finishing", "deciding", "degrading", "explaining", "confirming", "failing"}

Outcomes == {"none", "answered", "degraded", "failed", "escaped", "cancelled"}

(* given: the request's metadata carries the assessment or the plan;       *)
(* charting: the message looks like one that asks for a chart.             *)
Requests == [taskFirst : BOOLEAN, given : BOOLEAN, charting : BOOLEAN]

NoAssessment == [mode |-> "planned_execution", list |-> <<>>, chart |-> FALSE]

Init ==
  /\ LimitsInit
  /\ at = "authorizing"
  /\ failure = "none"
  /\ request \in Requests
  /\ assessment = NoAssessment
  /\ plan = <<>>
  /\ pos = 0
  /\ loops = 0
  /\ executed = <<>>
  /\ calls = [k \in Kinds |-> 0]
  /\ agentCalls = 0
  /\ effects = FALSE
  /\ journal = <<>>
  /\ outcome = "none"

-----------------------------------------------------------------------------
(* How the runtime handles what the turn raises.                           *)

HandlerOfIgnoringDenial(kind) ==
  IF FallbackConfigured /\ kind # "fatal" THEN "deciding" ELSE "failing"

(* decide_fallback: policy denials, invalid plans and exceeded limits are  *)
(* final, all that an agent or a dependency raises may degrade.            *)
HandlerOf(kind) ==
  IF FallbackConfigured /\ kind = "degradable" THEN "deciding" ELSE "failing"

Raise(kind) ==
  /\ failure' = kind
  /\ at' = HandlerOf(kind)

Failures == {"degradable", "fatal", "denied"}

Record(names) == journal' = journal \o names

Goto(from, to) == at = from /\ at' = to /\ UNCHANGED failure

(* A failed record; those made before it in the same place stay.           *)
Unrecorded(names) ==
  /\ \E n \in 0 .. Len(names) - 1 : Record(SubSeq(names, 1, n))
  /\ Raise("degradable")

-----------------------------------------------------------------------------
(* run_turn up to the strategy.                                            *)

Authorize == Goto("authorizing", "opening") /\ UNCHANGED <<used, late, planVars, callVars, journal, outcome>>

(* Without a route there is no fallback.                                   *)
AuthorizeFails ==
  /\ at = "authorizing"
  /\ \E kind \in Failures : failure' = kind
  /\ at' = "failing"
  /\ UNCHANGED <<used, late, planVars, callVars, journal, outcome>>

Open ==
  /\ Goto("opening", "beginning")
  /\ Record(<<"started", "selected">>)
  /\ UNCHANGED <<used, late, planVars, callVars, outcome>>

OpenFails ==
  /\ at = "opening"
  /\ \/ Unrecorded(<<"started", "selected">>)
     \/ /\ \E kind \in {"denied", "fatal"} : Raise(kind)
        /\ Record(<<"started">>)
  /\ UNCHANGED <<used, late, planVars, callVars, outcome>>

(* The assessment, or the plan, is the first step.                         *)
Begin ==
  /\ at = "beginning"
  /\ \/ /\ Consume("step")
        /\ at' = IF request.taskFirst THEN "assessing" ELSE "planning"
        /\ UNCHANGED failure
     \/ ~Within("step") /\ Raise(Exceeded) /\ UNCHANGED used
  /\ UNCHANGED <<late, planVars, callVars, journal, outcome>>

-----------------------------------------------------------------------------
(* The assessment.                                                         *)

Step(id, action) ==
  [id |-> id, action |-> action, after |-> {}, fits |-> TRUE, effect |-> FALSE]

ChartAssessment ==
  [mode |-> "planned_execution",
   list |-> << [id |-> "chart_1", action |-> "agent_invoke", after |-> {},
                fits |-> ChartAgentOffered, effect |-> FALSE] >>,
   chart |-> TRUE]

(* A request that seems to ask for a chart gets one.                       *)
Judge(a) ==
  /\ assessment' = IF request.charting /\ ~a.chart THEN ChartAssessment ELSE a
  /\ at' = "judging"
  /\ UNCHANGED failure

Consult ==
  /\ at = "assessing"
  /\ \/ request.given /\ \E a \in Assessments : Judge(a) /\ UNCHANGED agentCalls
     \/ /\ ~request.given /\ ~late
        /\ Goto("assessing", "consulting")
        /\ agentCalls' = agentCalls + 1
        /\ UNCHANGED assessment
  /\ UNCHANGED <<used, late, request, plan, pos, loops, executed, calls, effects, journal, outcome>>

(* Whatever the agent's run raises, a request that seems to ask for a      *)
(* chart is assessed without it; not so a missing agent, nor an assessment *)
(* that is malformed.                                                      *)
AssessmentRaises(kind) ==
  IF request.charting
    THEN Judge(ChartAssessment)
    ELSE Raise(kind) /\ UNCHANGED assessment

ConsultFails ==
  /\ \/ at = "assessing" /\ ~request.given
        /\ \E kind \in {"denied", "fatal"} : AssessmentRaises(kind)
     \/ at = "assessing" /\ ~request.given /\ late /\ AssessmentRaises("degradable")
     \/ at = "consulting" /\ \E kind \in {"degradable", "fatal"} : AssessmentRaises(kind)
     \/ at = "assessing" /\ ~request.given /\ Raise("fatal") /\ UNCHANGED assessment
     \/ /\ (at = "assessing" /\ request.given) \/ at = "consulting"
        /\ Raise("degradable") /\ UNCHANGED assessment
  /\ UNCHANGED <<used, late, request, plan, pos, loops, executed, callVars, journal, outcome>>

Consulted ==
  /\ at = "consulting"
  /\ \E a \in Assessments : Judge(a)
  /\ UNCHANGED <<used, late, request, plan, pos, loops, executed, callVars, journal, outcome>>

(* The id of the added step is one the list does not have.                 *)
WithFinalize(list) ==
  IF list[Len(list)].action \in Terminal THEN list
  ELSE Append(list, Step("finalize", "finalize"))

Judged ==
  /\ at = "judging"
  /\ Record(<<"assessed">>)
  /\ \/ assessment.mode = "direct_answer" /\ at' = "finishing" /\ UNCHANGED plan
     \/ assessment.mode = "request_user_input" /\ at' = "blocking" /\ UNCHANGED plan
     \/ /\ assessment.mode = "planned_execution" /\ assessment.list # <<>>
        /\ plan' = WithFinalize(assessment.list)
        /\ at' = "validating"
     \/ /\ assessment.mode = "planned_execution" /\ assessment.list = <<>>
        /\ at' = "planning" /\ UNCHANGED plan
  /\ UNCHANGED <<failure, used, late, request, assessment, pos, loops, executed, callVars, outcome>>

-----------------------------------------------------------------------------
(* The plan.                                                               *)

Adopt(p) ==
  /\ plan' = p
  /\ at' = "validating"
  /\ UNCHANGED failure

Compose ==
  /\ at = "planning"
  /\ \/ /\ request.given /\ \E p \in Plans : Adopt(p)
        /\ UNCHANGED <<used, calls>>
     \/ /\ ~request.given
        /\ Consume("llm_call")
        /\ calls' = [calls EXCEPT !["llm_call"] = @ + 1]
        /\ Goto("planning", "composing") /\ UNCHANGED plan
  /\ UNCHANGED <<late, request, assessment, pos, loops, executed, agentCalls, effects, journal, outcome>>

(* A limit, the policy, the gateway, or a plan that does not parse.        *)
ComposeFails ==
  /\ \/ at = "planning" /\ request.given /\ Raise("fatal") /\ UNCHANGED used
     \/ at = "planning" /\ ~request.given /\ ~Within("llm_call") /\ Raise(Exceeded) /\ UNCHANGED used
     \/ /\ at = "planning" /\ ~request.given /\ Consume("llm_call")
        /\ \E kind \in {"denied", "fatal"} : Raise(kind)
     \/ at = "composing" /\ (\E kind \in {"degradable", "fatal"} : Raise(kind)) /\ UNCHANGED used
  /\ UNCHANGED <<late, planVars, callVars, journal, outcome>>

Composed ==
  /\ at = "composing"
  /\ \E p \in Plans : Adopt(p)
  /\ UNCHANGED <<used, late, request, assessment, pos, loops, executed, callVars, journal, outcome>>

ValidOutOfOrder(p) ==
  /\ p # <<>> /\ Len(p) <= MaxPlanSteps /\ Len(p) <= MaxExecuteSteps
  /\ p[Len(p)].action \in Terminal
  /\ \A i, j \in DOMAIN p : p[i].id = p[j].id => i = j
  /\ \A i \in DOMAIN p : p[i].fits /\ p[i].after \subseteq {p[j].id : j \in DOMAIN p}
  /\ \A i \in 1 .. Len(p) - 1 : p[i].action # "request_user_input"

(* A finalize may stand anywhere; the steps after it are never run.        *)
Valid(p) ==
  /\ p # <<>> /\ Len(p) <= MaxPlanSteps /\ Len(p) <= MaxExecuteSteps
  /\ p[Len(p)].action \in Terminal
  /\ \A i, j \in DOMAIN p : p[i].id = p[j].id => i = j
  /\ \A i \in DOMAIN p : p[i].fits /\ p[i].after \subseteq {p[j].id : j \in 1 .. i - 1}
  /\ \A i \in 1 .. Len(p) - 1 : p[i].action # "request_user_input"

Validate ==
  /\ at = "validating"
  /\ \/ /\ Valid(plan)
        /\ at' = IF request.taskFirst THEN "listing" ELSE "stepping"
        /\ UNCHANGED failure
     \/ ~Valid(plan) /\ Raise("fatal")
  /\ UNCHANGED <<used, late, planVars, callVars, journal, outcome>>

List ==
  /\ Goto("listing", "stepping")
  /\ Record(<<"listed">>)
  /\ UNCHANGED <<used, late, planVars, callVars, outcome>>

-----------------------------------------------------------------------------
(* The steps.                                                              *)

Current == plan[pos]

CallKinds == {"tool_call", "memory_search", "llm_call"}

(* Tool calls in a row.                                                    *)
Loops(s) == IF s.action = "tool_call" THEN loops + 1 ELSE 0

LoopAllowed(n) == n <= MaxToolLoop

(* The limit error of a loop comes after the step was counted.             *)
TakeStep ==
  /\ at = "stepping"
  /\ LET s == plan[pos + 1] IN
     \/ /\ Consume("step")
        /\ loops' = Loops(s)
        /\ \/ /\ LoopAllowed(Loops(s))
              /\ pos' = pos + 1
              /\ \/ /\ s.action \notin Terminal
                    /\ at' = "permitting"
                    /\ UNCHANGED executed
                 \/ /\ s.action \in Terminal
                    /\ at' = IF s.action = "finalize" THEN "closing" ELSE "blocking"
                    /\ executed' = Append(executed, s.id)
              /\ UNCHANGED failure
           \/ ~LoopAllowed(Loops(s)) /\ Raise("fatal") /\ UNCHANGED <<pos, executed>>
     \/ ~Within("step") /\ Raise(Exceeded) /\ UNCHANGED <<used, pos, loops, executed>>
  /\ UNCHANGED <<late, request, assessment, plan, callVars, journal, outcome>>

(* A call is counted before the policy is asked.  What an agent calls is   *)
(* not counted; only the turn's duration is looked at.                     *)
Permit ==
  /\ Goto("permitting", "acting")
  /\ \/ /\ Current.action \in CallKinds
        /\ Consume(Current.action)
        /\ calls' = [calls EXCEPT ![Current.action] = @ + 1]
        /\ UNCHANGED agentCalls
     \/ /\ Current.action = "agent_invoke" /\ ~late
        /\ agentCalls' = agentCalls + 1
        /\ UNCHANGED <<used, calls>>
  /\ UNCHANGED <<late, planVars, effects, journal, outcome>>

(* A tool is looked up before its call is counted.                         *)
PermitFails ==
  /\ at = "permitting"
  /\ \/ Current.action = "tool_call" /\ Raise("degradable") /\ UNCHANGED used
     \/ /\ Current.action \in CallKinds /\ ~Within(Current.action)
        /\ Raise(Exceeded) /\ UNCHANGED used
     \/ Current.action = "agent_invoke" /\ late /\ Raise("degradable") /\ UNCHANGED used
     \/ /\ Current.action \in CallKinds /\ Consume(Current.action)
        /\ \E kind \in {"denied", "fatal"} : Raise(kind)
     \/ /\ Current.action = "agent_invoke" /\ ~late
        /\ (\E kind \in {"denied", "fatal"} : Raise(kind)) /\ UNCHANGED used
  /\ UNCHANGED <<late, planVars, callVars, journal, outcome>>

Acted ==
  /\ Goto("acting", "stepping")
  /\ executed' = Append(executed, Current.id)
  /\ effects' = (effects \/ Current.effect)
  /\ UNCHANGED <<used, late, request, assessment, plan, pos, loops, calls, agentCalls, journal, outcome>>

(* A tool that reports a failure fails the turn like one that cannot be    *)
(* reached; the gateway's own refusals of tools and memory are denials.    *)
ActFails ==
  /\ at = "acting"
  /\ \/ \E kind \in {"degradable", "fatal"} : Raise(kind)
     \/ Current.action \in {"tool_call", "memory_search"} /\ Raise("denied")
  /\ UNCHANGED <<used, late, planVars, callVars, journal, outcome>>

(* A question to the user ends the turn, from the assessment or a plan.    *)
Block ==
  /\ Goto("blocking", "finishing")
  /\ Record(<<"clarified", "blocked">>)
  /\ UNCHANGED <<used, late, planVars, callVars, outcome>>

Close ==
  /\ Goto("closing", "finishing")
  /\ IF request.taskFirst THEN Record(<<"task_completed">>) ELSE UNCHANGED journal
  /\ UNCHANGED <<used, late, planVars, callVars, outcome>>

(* The turn's own records fail.                                            *)
RecordFails ==
  /\ \/ at = "judging" /\ Unrecorded(<<"assessed">>)
     \/ at = "listing" /\ Unrecorded(<<"listed">>)
     \/ at = "blocking" /\ Unrecorded(<<"clarified", "blocked">>)
     \/ at = "closing" /\ request.taskFirst /\ Unrecorded(<<"task_completed">>)
     \/ at = "finishing" /\ Unrecorded(<<"completed">>)
  /\ UNCHANGED <<used, late, planVars, callVars, outcome>>

Finish ==
  /\ Goto("finishing", "over")
  /\ Record(<<"completed">>)
  /\ outcome' = "answered"
  /\ UNCHANGED <<used, late, planVars, callVars>>

-----------------------------------------------------------------------------
(* The fallback, and the end.                                              *)

(* enforce_fallback_policy: no code says of an error that a side effect    *)
(* may have started, so the policy is never asked about one.  An exception *)
(* of the policy other than a denial leaves run_turn.                      *)
Decide ==
  /\ at = "deciding"
  /\ \/ at' = "degrading" /\ UNCHANGED outcome
     \/ at' = "failing" /\ UNCHANGED outcome
     \/ at' = "over" /\ outcome' = "escaped"
  /\ UNCHANGED <<failure, used, late, planVars, callVars, journal>>

(* The fallback asks an LLM if the limits and the policy let it, and has a *)
(* static answer if not, which it gives after recording the LLM's failure. *)
Degrade ==
  /\ at = "degrading"
  /\ Record(<<"selected">>)
  /\ \/ /\ Consume("llm_call")
        /\ \/ at' = "explaining" /\ calls' = [calls EXCEPT !["llm_call"] = @ + 1]
           \/ at' \in {"confirming", "failing"} /\ UNCHANGED calls
     \/ /\ ~Within("llm_call")
        /\ at' \in {"confirming", "failing"}
        /\ UNCHANGED <<used, calls>>
  /\ UNCHANGED <<failure, late, planVars, agentCalls, effects, outcome>>

DegradeFailsAgain == Goto("degrading", "deciding") /\ UNCHANGED <<used, late, planVars, callVars, journal, outcome>>

(* The fallback is refused, or its selection cannot be recorded.           *)
DegradeFails == Goto("degrading", "failing") /\ UNCHANGED <<used, late, planVars, callVars, journal, outcome>>

Explain ==
  /\ at = "explaining"
  /\ at' \in {"confirming", "failing"}
  /\ UNCHANGED <<failure, used, late, planVars, callVars, journal, outcome>>

Confirm ==
  /\ Goto("confirming", "over")
  /\ \/ Record(<<"fallback", "completed">>) /\ outcome' = "degraded"
     \/ outcome' = "escaped" /\ journal' \in {journal, Append(journal, "fallback")}
  /\ UNCHANGED <<used, late, planVars, callVars>>

FailTurn ==
  /\ Goto("failing", "over")
  /\ \/ Record(<<"failed">>) /\ outcome' = "failed"
     \/ outcome' = "escaped" /\ UNCHANGED journal
  /\ UNCHANGED <<used, late, planVars, callVars>>

(* Records made before the cancellation in the same place stay.            *)
Escape ==
  /\ at \notin Synchronous
  /\ at' = "over"
  /\ outcome' = "cancelled"
  /\ CASE at = "opening"    -> journal' \in {journal, journal \o <<"started">>}
       [] at = "blocking"   -> journal' \in {journal, journal \o <<"clarified">>}
       [] at = "degrading"  -> journal' \in {journal, journal \o <<"selected">>}
       [] at = "confirming" -> journal' \in {journal, journal \o <<"fallback">>}
       [] OTHER             -> UNCHANGED journal
  /\ UNCHANGED <<failure, used, late, planVars, callVars>>

Lapse ==
  /\ at # "over"
  /\ TimePasses
  /\ UNCHANGED <<at, failure, planVars, callVars, journal, outcome>>

Work ==
  \/ Authorize \/ AuthorizeFails \/ Open \/ OpenFails \/ Begin
  \/ Consult \/ ConsultFails \/ Consulted \/ Judged
  \/ Compose \/ ComposeFails \/ Composed \/ Validate \/ List
  \/ TakeStep \/ Permit \/ PermitFails \/ Acted \/ ActFails
  \/ Block \/ Close \/ RecordFails \/ Finish
  \/ Decide \/ Degrade \/ DegradeFails \/ Explain \/ Confirm \/ FailTurn

Over == at = "over" /\ UNCHANGED vars

Next == Work \/ Escape \/ Lapse \/ Over

Spec == Init /\ [][Next]_vars

(* The event loop runs the turn whenever it can run, and every gateway     *)
(* answers or times out.                                                   *)
FairSpec == Spec /\ WF_vars(Work)
=============================================================================
