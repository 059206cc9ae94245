-------------------------- MODULE PlannedTurnProofs --------------------------
(***************************************************************************)
(* A turn of the bounded planner keeps its limits, follows its plan and    *)
(* leaves a trace that tells its outcome, whatever plans and assessments   *)
(* it is given, whatever its limits, with or without a fallback strategy.  *)
(***************************************************************************)
EXTENDS PlannedTurnProps, SequenceTheorems, TLAPS

USE PlannerAssumption, LimitsAssumption

(* What an exception leads to. *)
LEMMA Raising ==
  ASSUME NEW kind \in Failures, Raise(kind)
  PROVE  at' \in {"deciding", "failing"} /\ failure' \in Failures
BY DEF Raise, HandlerOf

LEMMA ExceededIsFailure == Exceeded \in Failures
BY DEF Exceeded, Failures

(* What is used only grows. *)
LEMMA Consuming ==
  ASSUME TypeOK, NEW k \in Kinds, Consume(k)
  PROVE  /\ used' \in [Kinds -> Nat]
         /\ used'[k] = used[k] + 1 /\ used[k] < Limit[k]
         /\ \A j \in Kinds \ {k} : used'[j] = used[j]
BY DEF TypeOK, Consume, Within

(* The steps the planner makes itself, and the lists they end. *)
LEMMA OwnSteps ==
  /\ Step("finalize", "finalize") \in PlanSteps
  /\ ChartAssessment \in [mode : Modes, list : Seq(PlanSteps), chart : BOOLEAN]
  /\ NoAssessment \in [mode : Modes, list : Seq(PlanSteps), chart : BOOLEAN]
<1> DEFINE c == [id |-> "chart_1", action |-> "agent_invoke", after |-> {},
                fits |-> ChartAgentOffered, effect |-> FALSE]
<1>1. Step("finalize", "finalize") \in PlanSteps
  BY DEF Step, PlanSteps, Actions, Terminal
<1>2. c \in PlanSteps
  BY DEF PlanSteps, Actions
<1> HIDE DEF c
<1>3. << c >> \in Seq(PlanSteps)
  BY <1>2
<1>4. ChartAssessment \in [mode : Modes, list : Seq(PlanSteps), chart : BOOLEAN]
  BY <1>3 DEF ChartAssessment, c, Modes
<1>5. NoAssessment \in [mode : Modes, list : Seq(PlanSteps), chart : BOOLEAN]
  BY DEF NoAssessment, Modes
<1> QED BY <1>1, <1>4, <1>5

LEMMA FinalizedList ==
  ASSUME NEW list \in Seq(PlanSteps), list # <<>>
  PROVE  WithFinalize(list) \in Seq(PlanSteps)
BY OwnSteps DEF WithFinalize

(* The records of a turn stay records. *)
LEMMA Journals ==
  ASSUME TypeOK
  PROVE  /\ \A names \in Seq(TraceEvents) : Record(names) => journal' \in Seq(TraceEvents)
         /\ \A names \in Seq(TraceEvents) : Unrecorded(names) => journal' \in Seq(TraceEvents)
         /\ \A e \in TraceEvents : Append(journal, e) \in Seq(TraceEvents) /\ journal \o <<e>> \in Seq(TraceEvents)
         /\ \A e \in TraceEvents : <<e>> \in Seq(TraceEvents)
         /\ \A e, f \in TraceEvents : <<e, f>> \in Seq(TraceEvents)
<1>1. ASSUME NEW names \in Seq(TraceEvents) PROVE journal \o names \in Seq(TraceEvents)
  BY DEF TypeOK
<1>2. ASSUME NEW names \in Seq(TraceEvents), Unrecorded(names) PROVE journal' \in Seq(TraceEvents)
  <2>1. PICK n \in 0 .. Len(names) - 1 : Record(SubSeq(names, 1, n))
    BY <1>2 DEF Unrecorded
  <2>2. SubSeq(names, 1, n) \in Seq(TraceEvents)
    OBVIOUS
  <2> QED BY <1>1, <2>1, <2>2 DEF Record
<1>3. \A e \in TraceEvents : <<e>> \in Seq(TraceEvents)
  OBVIOUS
<1>4. \A e, f \in TraceEvents : <<e, f>> \in Seq(TraceEvents)
  OBVIOUS
<1>5. \A e \in TraceEvents : Append(journal, e) \in Seq(TraceEvents)
  BY DEF TypeOK
<1> QED BY <1>1, <1>2, <1>3, <1>4, <1>5 DEF Record

LEMMA TypesStart == Init => TypeOK
<1> SUFFICES ASSUME Init PROVE TypeOK
  OBVIOUS
<1>1. <<>> \in Seq(PlanSteps) /\ <<>> \in Seq(StepIds) /\ <<>> \in Seq(TraceEvents) /\ Len(<<>>) = 0
  OBVIOUS
<1>2. at \in Points /\ failure \in Failures \cup {"none"} /\ outcome \in Outcomes /\ request \in Requests
  BY DEF Init, Points, Outcomes
<1>3. pos \in 0 .. Len(plan) /\ loops \in 0 .. MaxToolLoop + 1 /\ plan = <<>> /\ executed = <<>> /\ journal = <<>>
  BY <1>1 DEF Init
<1>4. /\ used \in [Kinds -> Nat] /\ late \in BOOLEAN /\ calls \in [Kinds -> Nat]
      /\ agentCalls \in Nat /\ effects \in BOOLEAN /\ assessment = NoAssessment
  BY DEF Init, LimitsInit
<1> QED BY <1>1, <1>2, <1>3, <1>4 DEF TypeOK

PlanTypes ==
  /\ request \in Requests
  /\ assessment \in Assessments \cup {NoAssessment, ChartAssessment}
  /\ plan \in Seq(PlanSteps)
  /\ pos \in 0 .. Len(plan)
  /\ loops \in 0 .. MaxToolLoop + 1
  /\ executed \in Seq(StepIds)

CallTypes == calls \in [Kinds -> Nat] /\ agentCalls \in Nat /\ effects \in BOOLEAN

ControlTypes == at \in Points /\ failure \in Failures \cup {"none"} /\ outcome \in Outcomes

LEMMA TypeParts ==
  TypeOK <=> /\ ControlTypes /\ PlanTypes /\ CallTypes
             /\ used \in [Kinds -> Nat] /\ late \in BOOLEAN /\ journal \in Seq(TraceEvents)
BY DEF TypeOK, ControlTypes, PlanTypes, CallTypes

(* Control stays among the points. *)
LEMMA ControlStep == TypeOK /\ [Next]_vars => ControlTypes'
<1> SUFFICES ASSUME TypeOK, [Next]_vars PROVE ControlTypes'
  OBVIOUS
<1> USE DEF Goto
<1>0. at \in Points /\ failure \in Failures \cup {"none"} /\ outcome \in Outcomes
  BY DEF TypeOK
<1>1. ASSUME NEW kind \in Failures, Raise(kind), UNCHANGED outcome PROVE ControlTypes'
  BY <1>0, <1>1, Raising DEF ControlTypes, Points
<1>2. ASSUME at' \in Points, UNCHANGED failure, outcome' \in Outcomes PROVE ControlTypes'
  BY <1>0, <1>2 DEF ControlTypes
<1>3. {"degradable", "fatal", "denied"} \subseteq Failures /\ Exceeded \in Failures
  BY ExceededIsFailure DEF Failures
<1>4. CASE Authorize \/ Open \/ List \/ Permit \/ Acted \/ Block \/ Close \/ DegradeFails
  BY <1>0, <1>2, <1>4 DEF Authorize, Open, List, Permit, Acted, Block, Close, DegradeFails, Points, Synchronous
<1>5. CASE AuthorizeFails
  BY <1>0, <1>5 DEF AuthorizeFails, ControlTypes, Points
<1>6. CASE OpenFails \/ RecordFails
  <2>1. UNCHANGED outcome /\ \E kind \in Failures : Raise(kind)
    BY <1>3, <1>6 DEF OpenFails, RecordFails, Unrecorded
  <2> QED BY <1>1, <2>1
<1>7. CASE Begin
  <2>1. CASE at' \in {"assessing", "planning"} /\ UNCHANGED failure
    BY <1>0, <1>2, <1>7, <2>1 DEF Begin, Points
  <2>2. CASE Raise(Exceeded)
    BY <1>1, <1>3, <1>7, <2>2 DEF Begin
  <2> QED BY <1>7, <2>1, <2>2 DEF Begin
<1>8. CASE Consult \/ Consulted
  <2>1. at' \in {"judging", "consulting"} /\ UNCHANGED <<failure, outcome>>
    BY <1>8 DEF Consult, Consulted, Judge
  <2> QED BY <1>0, <1>2, <2>1 DEF Points
<1>9. CASE ConsultFails
  <2>1. UNCHANGED outcome /\ ((at' = "judging" /\ UNCHANGED failure) \/ \E kind \in Failures : Raise(kind))
    BY <1>3, <1>9 DEF ConsultFails, AssessmentRaises, Judge
  <2> QED BY <1>0, <1>1, <1>2, <2>1 DEF Points
<1>10. CASE Judged
  <2>1. at' \in {"finishing", "blocking", "validating", "planning"} /\ UNCHANGED <<failure, outcome>>
    BY <1>10 DEF Judged
  <2> QED BY <1>0, <1>2, <2>1 DEF Points, Synchronous
<1>11. CASE Compose \/ Composed
  <2>1. at' \in {"validating", "composing"} /\ UNCHANGED <<failure, outcome>>
    BY <1>11 DEF Compose, Composed, Adopt
  <2> QED BY <1>0, <1>2, <2>1 DEF Points, Synchronous
<1>12. CASE ComposeFails \/ PermitFails \/ ActFails
  <2>1. UNCHANGED outcome /\ \E kind \in Failures : Raise(kind)
    BY <1>3, <1>12 DEF ComposeFails, PermitFails, ActFails
  <2> QED BY <1>1, <2>1
<1>13. CASE Validate
  <2>1. CASE at' \in {"listing", "stepping"} /\ UNCHANGED failure
    BY <1>0, <1>2, <1>13, <2>1 DEF Validate, Points, Synchronous
  <2>2. CASE Raise("fatal")
    BY <1>1, <1>3, <1>13, <2>2 DEF Validate
  <2> QED BY <1>13, <2>1, <2>2 DEF Validate
<1>14. CASE TakeStep
  <2>1. UNCHANGED outcome BY <1>14 DEF TakeStep
  <2>2. \/ at' \in {"permitting", "closing", "blocking"} /\ UNCHANGED failure
        \/ \E kind \in Failures : Raise(kind)
    BY <1>3, <1>14 DEF TakeStep
  <2> QED BY <1>0, <1>1, <1>2, <2>1, <2>2 DEF Points
<1>15. CASE Finish \/ Decide \/ Degrade \/ Explain \/ Confirm \/ FailTurn \/ Escape
  BY <1>0, <1>2, <1>15 DEF Finish, Decide, Degrade, Explain, Confirm, FailTurn, Escape, Points, Synchronous, Outcomes
<1>16. CASE Lapse \/ Over \/ UNCHANGED vars
  BY <1>0, <1>2, <1>16 DEF Lapse, Over, vars
<1> QED
  BY <1>4, <1>5, <1>6, <1>7, <1>8, <1>9, <1>10, <1>11, <1>12, <1>13, <1>14, <1>15, <1>16 DEF Next, Work

(* Every step uses one of the limits, once, or none; and counts a call only
   with its use (limits.py, consume_llm_call and its sisters). *)
Uses ==
  \/ UNCHANGED <<used, calls>>
  \/ \E k \in Kinds : Consume(k) /\ (UNCHANGED calls \/ calls' = [calls EXCEPT ![k] = calls[k] + 1])

LEMMA UsesStep == TypeOK /\ [Next]_vars => Uses
<1> SUFFICES ASSUME TypeOK, [Next]_vars PROVE Uses
  OBVIOUS
<1>0. "step" \in Kinds /\ "llm_call" \in Kinds /\ CallKinds \subseteq Kinds
  BY DEF Kinds, CallKinds
<1>1. CASE Authorize \/ AuthorizeFails \/ Open \/ OpenFails \/ Consult \/ ConsultFails \/ Consulted \/ Judged
  BY <1>1 DEF Authorize, AuthorizeFails, Open, OpenFails, Consult, ConsultFails, Consulted, Judged, Uses, callVars
<1>2. CASE Composed \/ Validate \/ List \/ Acted \/ ActFails \/ Block \/ Close \/ RecordFails \/ Finish
  BY <1>2 DEF Composed, Validate, List, Acted, ActFails, Block, Close, RecordFails, Finish, Uses, callVars
<1>3. CASE Decide \/ DegradeFails \/ Explain \/ Confirm \/ FailTurn \/ Escape \/ Lapse \/ Over \/ UNCHANGED vars
  BY <1>3 DEF Decide, DegradeFails, Explain, Confirm, FailTurn, Escape, Lapse, TimePasses, Over, Uses, callVars, vars
<1>4. CASE Begin \/ TakeStep
  BY <1>0, <1>4 DEF Begin, TakeStep, Uses, callVars
<1>5. CASE Compose
  BY <1>0, <1>5 DEF Compose, Uses
<1>6. CASE ComposeFails
  BY <1>0, <1>6 DEF ComposeFails, Uses, callVars
<1>7. CASE Permit
  BY <1>0, <1>7 DEF Permit, Uses
<1>8. CASE PermitFails
  BY <1>0, <1>8 DEF PermitFails, Uses, callVars
<1>9. CASE Degrade
  BY <1>0, <1>9 DEF Degrade, Uses
<1> QED BY <1>1, <1>2, <1>3, <1>4, <1>5, <1>6, <1>7, <1>8, <1>9 DEF Next, Work

(* What a turn calls is counted, and what it counts is within its limits. *)
Counted == \A k \in Kinds : calls[k] <= used[k] /\ used[k] <= Limit[k]

LEMMA CountedStart == Init => Counted
BY DEF Init, LimitsInit, Counted

LEMMA CountedStep ==
  ASSUME TypeOK, Counted, Uses
  PROVE  Counted' /\ used' \in [Kinds -> Nat] /\ calls' \in [Kinds -> Nat]
         /\ \A k \in Kinds : used[k] <= used'[k]
<1>1. used \in [Kinds -> Nat] /\ calls \in [Kinds -> Nat]
  BY DEF TypeOK
<1>2. CASE UNCHANGED <<used, calls>>
  BY <1>1, <1>2 DEF Counted
<1>3. CASE \E k \in Kinds : Consume(k) /\ (UNCHANGED calls \/ calls' = [calls EXCEPT ![k] = calls[k] + 1])
  <2>1. PICK k \in Kinds : Consume(k) /\ (UNCHANGED calls \/ calls' = [calls EXCEPT ![k] = calls[k] + 1])
    BY <1>3
  <2>2. /\ used' \in [Kinds -> Nat] /\ used'[k] = used[k] + 1 /\ used[k] < Limit[k]
        /\ \A j \in Kinds \ {k} : used'[j] = used[j]
    BY <2>1, Consuming
  <2>3. /\ calls' \in [Kinds -> Nat] /\ calls'[k] <= calls[k] + 1
        /\ \A j \in Kinds \ {k} : calls'[j] = calls[j]
    <3>1. CASE UNCHANGED calls BY <1>1, <3>1
    <3>2. CASE calls' = [calls EXCEPT ![k] = calls[k] + 1] BY <1>1, <3>2
    <3> QED BY <2>1, <3>1, <3>2
  <2>4. ASSUME NEW j \in Kinds PROVE calls'[j] <= used'[j] /\ used'[j] <= Limit[j] /\ used[j] <= used'[j]
    <3>1. used[j] \in Nat /\ used'[j] \in Nat /\ calls[j] \in Nat /\ calls'[j] \in Nat /\ Limit[j] \in Nat
      BY <1>1, <2>2, <2>3
    <3>2. calls[j] <= used[j] /\ used[j] <= Limit[j]
      BY DEF Counted
    <3>3. CASE j = k BY <2>2, <2>3, <3>1, <3>2, <3>3
    <3>4. CASE j # k BY <2>2, <2>3, <3>1, <3>2, <3>4
    <3> QED BY <3>3, <3>4
  <2> QED BY <2>2, <2>3, <2>4 DEF Counted
<1> QED BY <1>2, <1>3 DEF Uses

-----------------------------------------------------------------------------
(* The plan and its steps.                                                 *)

Before == {"authorizing", "opening", "beginning"}

Preparing == {"assessing", "consulting", "judging", "planning", "composing", "validating", "listing"}

Running == {"stepping", "permitting", "acting"}

Fresh == pos = 0 /\ loops = 0 /\ executed = <<>>

(* The last tools in a row are those loops counts. *)
LoopsTold == loops <= MaxToolLoop /\ loops <= pos /\ (loops < pos => ~IsToolCall(pos - loops))

(* Where the turn is in its plan. *)
Place ==
  /\ at \in Before \cup Preparing => Fresh
  /\ at \in Preparing \cup Running => pos < used["step"]
  /\ at \in {"listing"} \cup Running => Valid(plan)
  /\ at \in Running => LoopsTold /\ \A i \in 1 .. pos : plan[i].action \notin Terminal
  /\ at = "stepping" => Len(executed) = pos
  /\ at \in {"permitting", "acting"} => Len(executed) + 1 = pos

(* What it has done of it. *)
Followed ==
  LET n == Len(executed) IN
    /\ pos > 0 => Valid(plan) /\ pos < used["step"]
    /\ n <= pos /\ pos <= n + 1
    /\ \A i \in 1 .. n : executed[i] = plan[i].id
    /\ \A i \in 1 .. n : i < n => plan[i].action \notin Terminal
    /\ n > 0 /\ plan[n].action \in Terminal => pos = n
    /\ \A i \in 1 .. pos - MaxToolLoop : \E j \in i .. i + MaxToolLoop : ~IsToolCall(j)

PlanInv == PlanTypes /\ Place /\ Followed

LEMMA PlanStart == Init => Place /\ Followed
<1> SUFFICES ASSUME Init PROVE Place /\ Followed
  OBVIOUS
<1>1. at = "authorizing" /\ pos = 0 /\ loops = 0 /\ executed = <<>> /\ Len(executed) = 0
  BY DEF Init
<1>2. \A i \in 1 .. pos - MaxToolLoop : FALSE
  BY <1>1
<1> QED BY <1>1, <1>2 DEF Place, Followed, Fresh, Before, Preparing, Running

(* The turn leaves its plan, or the strategy. *)
LEMMA LeavingThePlan ==
  ASSUME TypeOK, PlanInv, UNCHANGED <<request, assessment, plan, pos, executed>>,
         loops' \in 0 .. MaxToolLoop + 1,
         used' \in [Kinds -> Nat], used["step"] <= used'["step"],
         at' \notin Before \cup Preparing \cup Running
  PROVE  PlanInv'
<1>0. used["step"] \in Nat /\ used'["step"] \in Nat /\ pos \in Nat
  BY DEF TypeOK, Kinds
<1>1. PlanTypes' BY DEF PlanInv, PlanTypes
<1>2. Place' BY DEF Place, Running, Preparing
<1>3. Followed'
  BY <1>0 DEF PlanInv, Followed, Valid, IsToolCall
<1> QED BY <1>1, <1>2, <1>3 DEF PlanInv

(* Until a plan is valid nothing of it has run. *)
LEMMA PreparingThePlan ==
  ASSUME TypeOK, PlanInv, at \in Before \cup Preparing, UNCHANGED <<request, pos, loops, executed>>,
         assessment' \in Assessments \cup {NoAssessment, ChartAssessment},
         plan' \in Seq(PlanSteps),
         used' \in [Kinds -> Nat], used["step"] <= used'["step"],
         at' \in Before \cup (Preparing \ {"listing"}),
         at \in Before => at' \in Before \/ used'["step"] > 0
  PROVE  PlanInv'
<1>0. used["step"] \in Nat /\ used'["step"] \in Nat /\ MaxToolLoop \in Nat
  BY DEF TypeOK, Kinds
<1>1. Fresh /\ Fresh' /\ Len(executed') = 0 /\ pos' = 0
  BY DEF PlanInv, Place, Fresh
<1>2. PlanTypes'
  <2>1. Len(plan') \in Nat /\ executed' \in Seq(StepIds)
    BY <1>1 DEF Fresh
  <2> QED BY <1>0, <1>1, <2>1 DEF PlanInv, PlanTypes, Fresh
<1>3. Place'
  <2>1. at' \in Preparing => pos' < used'["step"]
    <3>1. CASE at \in Before BY <1>0, <1>1, <3>1 DEF Before, Preparing
    <3>2. CASE at \in Preparing BY <1>0, <1>1, <3>2 DEF PlanInv, Place, Fresh
    <3> QED BY <3>1, <3>2
  <2> QED BY <1>1, <2>1 DEF Place, Before, Preparing, Running
<1>4. Followed'
  <2>1. \A i \in 1 .. pos' - MaxToolLoop : FALSE BY <1>0, <1>1
  <2>2. \A i \in 1 .. Len(executed') : FALSE BY <1>1
  <2> QED BY <1>1, <2>1, <2>2 DEF Followed
<1> QED BY <1>2, <1>3, <1>4 DEF PlanInv

(* None of the first n steps is the first of m tools and one more. *)
Spread(Tools, n, m) == \A i \in 1 .. n - m : \E j \in i .. i + m : j \notin Tools

LEMMA Gap ==
  ASSUME NEW n \in Nat, NEW m \in Nat, NEW Tools, Spread(Tools, n, m), NEW i \in 1 .. n - m
  PROVE  \E j \in i .. i + m : j \in Nat /\ j \notin Tools
<1>1. \E j \in i .. i + m : j \notin Tools
  BY DEF Spread
<1> QED BY <1>1

(* A step that is begun keeps the loop limit (bounded_planner.py, the loop
   of _run_strategy). *)
LEMMA Windows ==
  ASSUME NEW n \in Nat, NEW m \in Nat \ {0}, NEW Tools, NEW l \in Nat, NEW k \in Nat,
         Spread(Tools, n, m),
         l <= n, l < n => n - l \notin Tools,
         k = IF n + 1 \in Tools THEN l + 1 ELSE 0, k <= m
  PROVE  /\ Spread(Tools, n + 1, m)
         /\ k <= n + 1 /\ (k < n + 1 => n + 1 - k \notin Tools)
<1>1. CASE n + 1 \in Tools
  <2>1. k = l + 1 BY <1>1
  <2>2. k <= n + 1 /\ (k < n + 1 => n + 1 - k \notin Tools)
    <3>1. n + 1 - k = n - l BY <2>1
    <3> QED BY <2>1, <3>1
  <2>3. ASSUME NEW i \in 1 .. (n + 1) - m PROVE \E j \in i .. i + m : j \notin Tools
    <3>1. CASE i <= n - m
      <4>1. i \in 1 .. n - m BY <3>1
      <4> QED BY <4>1 DEF Spread
    <3>2. CASE i = n + 1 - m
      <4>1. l < n /\ n - l \in i .. i + m BY <2>1, <3>2
      <4> QED BY <4>1
    <3> QED BY <3>1, <3>2
  <2> QED BY <2>2, <2>3 DEF Spread
<1>2. CASE n + 1 \notin Tools
  <2>1. k = 0 /\ n + 1 - k = n + 1 BY <1>2
  <2>2. ASSUME NEW i \in 1 .. (n + 1) - m PROVE \E j \in i .. i + m : j \notin Tools
    <3>1. CASE i <= n - m
      <4>1. i \in 1 .. n - m BY <3>1
      <4> QED BY <4>1 DEF Spread
    <3>2. CASE i = n + 1 - m
      <4>1. n + 1 \in i .. i + m BY <3>2
      <4> QED BY <1>2, <4>1
    <3> QED BY <3>1, <3>2
  <2> QED BY <1>2, <2>1, <2>2 DEF Spread
<1> QED BY <1>1, <1>2

(* The planner takes the next step of its plan. *)
LEMMA TakingAStep ==
  ASSUME TypeOK, PlanInv, TakeStep, used' \in [Kinds -> Nat], used["step"] <= used'["step"]
  PROVE  PlanInv'
<1> DEFINE s == plan[pos + 1]
<1>0. /\ used["step"] \in Nat /\ used'["step"] \in Nat /\ MaxToolLoop \in Nat \ {0} /\ "step" \in Kinds
      /\ plan \in Seq(PlanSteps) /\ executed \in Seq(StepIds) /\ pos \in 0 .. Len(plan) /\ Len(plan) \in Nat
      /\ loops \in Nat
  BY DEF TypeOK, Kinds
<1>1. /\ at = "stepping" /\ Valid(plan) /\ LoopsTold /\ Len(executed) = pos /\ pos < used["step"]
      /\ \A i \in 1 .. pos : plan[i].action \notin Terminal
  BY DEF TakeStep, PlanInv, Place, Running
<1>2. plan # <<>> /\ plan[Len(plan)].action \in Terminal
  BY <1>1 DEF Valid
<1>3. pos + 1 \in 1 .. Len(plan) /\ s \in PlanSteps /\ s.id \in StepIds
  <2>1. pos # Len(plan) BY <1>0, <1>1, <1>2
  <2>2. pos + 1 \in 1 .. Len(plan) BY <1>0, <2>1
  <2>3. s \in PlanSteps BY <1>0, <2>2
  <2>4. s.id \in StepIds BY <2>3 DEF PlanSteps
  <2> QED BY <2>2, <2>3, <2>4
<1>4. UNCHANGED <<request, assessment, plan>>
  BY DEF TakeStep
<1>5. Loops(s) \in 0 .. MaxToolLoop + 1 /\ Loops(s) = IF IsToolCall(pos + 1) THEN loops + 1 ELSE 0
  BY <1>0, <1>1 DEF Loops, LoopsTold, IsToolCall
<1> HIDE DEF s
<1>6. CASE ~Within("step") /\ Raise(Exceeded) /\ UNCHANGED <<used, pos, loops, executed>>
  <2>1. at' \notin Before \cup Preparing \cup Running
    BY <1>6, Raising, ExceededIsFailure DEF Before, Preparing, Running
  <2> QED BY <1>0, <1>4, <1>6, <2>1, LeavingThePlan DEF TypeOK
<1>7. CASE loops' = Loops(s) /\ Raise("fatal") /\ UNCHANGED <<pos, executed>>
  <2>1. at' \notin Before \cup Preparing \cup Running
    BY <1>7, Raising DEF Before, Preparing, Running, Failures
  <2> QED BY <1>4, <1>5, <1>7, <2>1, LeavingThePlan
<1>8. CASE /\ Consume("step") /\ loops' = Loops(s) /\ LoopAllowed(Loops(s)) /\ pos' = pos + 1
           /\ \/ s.action \notin Terminal /\ at' = "permitting" /\ UNCHANGED executed
              \/ /\ s.action \in Terminal
                 /\ at' \in {"closing", "blocking"}
                 /\ executed' = Append(executed, s.id)
  <2>1. used'["step"] = used["step"] + 1 /\ pos' < used'["step"] /\ pos' \in 0 .. Len(plan)
    BY <1>0, <1>1, <1>3, <1>8, Consuming
  <2>2. loops' <= MaxToolLoop /\ loops' \in 0 .. MaxToolLoop + 1
    BY <1>5, <1>8 DEF LoopAllowed
  <2>0. pos \in Nat /\ pos' \in Nat /\ loops' \in Nat /\ MaxToolLoop \in Nat /\ pos' = pos + 1
    BY <1>0, <1>8, <2>1, <2>2
  <2>3. /\ \A i \in 1 .. pos + 1 - MaxToolLoop : \E j \in i .. i + MaxToolLoop : ~IsToolCall(j)
        /\ loops' <= pos + 1 /\ (loops' < pos + 1 => ~IsToolCall(pos + 1 - loops'))
    <3>1. \A i \in 1 .. pos - MaxToolLoop : \E j \in i .. i + MaxToolLoop : ~IsToolCall(j)
      BY DEF PlanInv, Followed
    <3>2. loops <= pos /\ (loops < pos => ~IsToolCall(pos - loops)) /\ pos \in Nat
      BY <1>0, <1>1 DEF LoopsTold
    <3>3. loops' = (IF IsToolCall(pos + 1) THEN loops + 1 ELSE 0) /\ loops' \in Nat
      BY <1>0, <1>5, <1>8
    <3> DEFINE tools == {j \in Nat : IsToolCall(j)}
    <3>4. MaxToolLoop \in Nat /\ Spread(tools, pos, MaxToolLoop)
      BY <1>0, <3>1 DEF Spread
    <3>5. loops < pos => pos - loops \notin tools
      BY <1>0, <3>2
    <3>6. loops' = (IF pos + 1 \in tools THEN loops + 1 ELSE 0)
      BY <3>2, <3>3
    <3> HIDE DEF tools
    <3>7. /\ Spread(tools, pos + 1, MaxToolLoop)
          /\ loops' <= pos + 1 /\ (loops' < pos + 1 => pos + 1 - loops' \notin tools)
      <4>1. pos \in Nat /\ MaxToolLoop \in Nat \ {0} /\ loops \in Nat /\ loops' \in Nat
            /\ loops <= pos /\ loops' <= MaxToolLoop
        BY <1>0, <2>2, <3>2, <3>3
      <4> QED BY <3>4, <3>5, <3>6, <4>1, Windows
    <3>8. \A j \in Nat : j \notin tools => ~IsToolCall(j)
      BY DEF tools
    <3>9. \A i \in 1 .. pos + 1 - MaxToolLoop : \E j \in i .. i + MaxToolLoop : ~IsToolCall(j)
      <4> TAKE i \in 1 .. pos + 1 - MaxToolLoop
      <4>1. i \in 1 .. (pos + 1) - MaxToolLoop /\ pos + 1 \in Nat BY <2>0
      <4>2. PICK j \in i .. i + MaxToolLoop : j \in Nat /\ j \notin tools BY <2>0, <3>7, <4>1, Gap
      <4> QED BY <3>8, <4>2
    <3>10. loops' < pos + 1 => pos + 1 - loops' \in Nat
      BY <3>2, <3>3
    <3> QED BY <3>7, <3>8, <3>9, <3>10
  <2>4. /\ (\A i \in 1 .. pos - MaxToolLoop : \E j \in i .. i + MaxToolLoop : ~IsToolCall(j))'
        /\ LoopsTold'
    <3>1. plan' = plan /\ pos' = pos + 1 BY <1>4, <1>8
    <3>2. \A i \in 1 .. pos' - MaxToolLoop : \E j \in i .. i + MaxToolLoop : plan'[j].action # "tool_call"
      <4> TAKE i \in 1 .. pos' - MaxToolLoop
      <4>1. i \in 1 .. pos + 1 - MaxToolLoop BY <2>0
      <4>2. PICK j \in i .. i + MaxToolLoop : ~IsToolCall(j) BY <2>3, <4>1
      <4> QED BY <3>1, <4>2 DEF IsToolCall
    <3>3. loops' <= pos' /\ (loops' < pos' => plan'[pos' - loops'].action # "tool_call")
      <4>1. loops' <= pos' BY <2>0, <2>3
      <4>2. ASSUME loops' < pos' PROVE plan'[pos' - loops'].action # "tool_call"
        <5>1. ~IsToolCall(pos + 1 - loops') BY <2>0, <2>3, <4>2
        <5>2. pos' - loops' = pos + 1 - loops' BY <2>0
        <5> QED BY <3>1, <5>1, <5>2 DEF IsToolCall
      <4> QED BY <4>1, <4>2
    <3> QED BY <2>2, <3>2, <3>3 DEF LoopsTold, IsToolCall
  <2>5. Valid(plan)'
    BY <1>1, <1>4 DEF Valid
  <2>6. \A i \in 1 .. Len(executed) : executed[i] = plan[i].id /\ plan[i].action \notin Terminal
    BY <1>1 DEF PlanInv, Followed
  <2>7. CASE s.action \notin Terminal /\ at' = "permitting" /\ UNCHANGED executed
    <3>1. PlanTypes'
      BY <1>4, <2>1, <2>2, <2>7 DEF PlanInv, PlanTypes
    <3>2. \A i \in 1 .. pos' : plan'[i].action \notin Terminal
      <4>1. \A i \in 1 .. pos + 1 : i \in 1 .. pos \/ i = pos + 1 BY <1>0
      <4> QED BY <1>1, <1>4, <1>8, <2>7, <4>1 DEF s
    <3>3. Place'
      BY <1>1, <1>8, <2>1, <2>4, <2>5, <2>7, <3>2 DEF Place, Before, Preparing, Running
    <3>4. Followed'
      <4>1. Len(executed') = pos /\ pos' = pos + 1 /\ plan' = plan /\ executed' = executed BY <1>1, <1>4, <1>8, <2>7
      <4>2. (\A i \in 1 .. Len(executed) : executed[i] = plan[i].id /\ plan[i].action \notin Terminal)'
        BY <2>6, <4>1
      <4> QED BY <1>0, <2>1, <2>4, <2>5, <2>6, <4>1, <4>2 DEF Followed
    <3> QED BY <3>1, <3>3, <3>4 DEF PlanInv
  <2>8. CASE /\ s.action \in Terminal
             /\ at' \in {"closing", "blocking"}
             /\ executed' = Append(executed, s.id)
    <3>1. /\ executed' \in Seq(StepIds) /\ Len(executed') = pos + 1 /\ executed'[pos + 1] = s.id
          /\ \A i \in 1 .. pos : executed'[i] = executed[i]
      BY <1>0, <1>1, <1>3, <2>8
    <3>2. PlanTypes'
      BY <1>4, <2>1, <2>2, <3>1 DEF PlanInv, PlanTypes
    <3>3. Place'
      BY <2>8 DEF Place, Before, Preparing, Running
    <3>4. \A i \in 1 .. pos + 1 : i \in 1 .. pos \/ i = pos + 1
      BY <1>0
    <3>5. \A i \in 1 .. pos + 1 : executed'[i] = plan'[i].id
      BY <1>1, <1>4, <2>6, <3>1, <3>4 DEF s
    <3>6. \A i \in 1 .. pos + 1 : i < pos + 1 => plan'[i].action \notin Terminal
      BY <1>0, <1>1, <1>4, <3>4
    <3>7. Followed'
      BY <1>0, <1>8, <2>1, <2>4, <2>5, <3>1, <3>5, <3>6 DEF Followed
    <3> QED BY <3>2, <3>3, <3>7 DEF PlanInv
  <2> QED BY <1>8, <2>7, <2>8
<1> QED
  BY <1>6, <1>7, <1>8 DEF TakeStep, s

(* A step that answered is the plan's next. *)
LEMMA ActingOnAStep ==
  ASSUME TypeOK, PlanInv, Acted
  PROVE  PlanInv'
<1>0. /\ plan \in Seq(PlanSteps) /\ executed \in Seq(StepIds) /\ pos \in 0 .. Len(plan) /\ Len(plan) \in Nat
      /\ UNCHANGED <<used, request, assessment, plan, pos, loops>>
      /\ at = "acting" /\ at' = "stepping" /\ executed' = Append(executed, plan[pos].id)
  BY DEF TypeOK, Acted, Goto, Current
<1>1. /\ Valid(plan) /\ LoopsTold /\ Len(executed) + 1 = pos /\ pos < used["step"]
      /\ \A i \in 1 .. pos : plan[i].action \notin Terminal
  BY <1>0 DEF PlanInv, Place, Running
<1>2. pos \in 1 .. Len(plan) /\ plan[pos].id \in StepIds
  <2>1. pos \in 1 .. Len(plan) BY <1>0, <1>1
  <2>2. plan[pos] \in PlanSteps BY <1>0, <2>1
  <2> QED BY <2>1, <2>2 DEF PlanSteps
<1>3. /\ executed' \in Seq(StepIds) /\ Len(executed') = pos /\ executed'[pos] = plan[pos].id
      /\ \A i \in 1 .. Len(executed) : executed'[i] = executed[i]
  BY <1>0, <1>1, <1>2
<1>4. PlanTypes'
  BY <1>0, <1>3 DEF PlanInv, PlanTypes
<1>5. Place'
  BY <1>0, <1>1, <1>3 DEF Place, LoopsTold, IsToolCall, Valid, Before, Preparing, Running
<1>6. Followed'
  <2>1. \A i \in 1 .. pos : i \in 1 .. Len(executed) \/ i = pos
    BY <1>0, <1>1
  <2>2. \A i \in 1 .. pos : executed'[i] = plan[i].id
    BY <1>1, <1>3, <2>1 DEF PlanInv, Followed
  <2>3. (\A i \in 1 .. pos - MaxToolLoop : \E j \in i .. i + MaxToolLoop : ~IsToolCall(j))'
    BY <1>0 DEF PlanInv, Followed, IsToolCall
  <2>4. Valid(plan)' BY <1>0, <1>1 DEF Valid
  <2> QED BY <1>0, <1>1, <1>2, <1>3, <2>2, <2>3, <2>4 DEF Followed
<1> QED BY <1>4, <1>5, <1>6 DEF PlanInv

(* Assessments and plans, given or made. *)
LEMMA Lists ==
  /\ \A a \in Assessments \cup {NoAssessment, ChartAssessment} : a.list \in Seq(PlanSteps)
  /\ \A p \in Plans : p \in Seq(PlanSteps)
BY OwnSteps

LEMMA PlanStep ==
  ASSUME TypeOK, PlanInv, [Next]_vars, used' \in [Kinds -> Nat], \A k \in Kinds : used[k] <= used'[k]
  PROVE  PlanInv'
<1> USE DEF Goto
<1>0. "step" \in Kinds /\ used["step"] <= used'["step"] /\ used["step"] \in Nat
      /\ loops \in 0 .. MaxToolLoop + 1 /\ plan \in Seq(PlanSteps)
      /\ assessment \in Assessments \cup {NoAssessment, ChartAssessment}
  BY DEF Kinds, TypeOK
<1>1. ASSUME UNCHANGED planVars, at' \notin Before \cup Preparing \cup Running PROVE PlanInv'
  BY <1>0, <1>1, LeavingThePlan DEF planVars
<1>2. ASSUME UNCHANGED planVars, \E kind \in Failures : Raise(kind) PROVE PlanInv'
  <2>1. at' \in {"deciding", "failing"} BY <1>2, Raising
  <2> QED BY <1>1, <1>2, <2>1 DEF Before, Preparing, Running
<1>3. ASSUME at \in Preparing, at' \in Preparing \ {"listing"},
             UNCHANGED <<request, pos, loops, executed>>,
             assessment' \in Assessments \cup {NoAssessment, ChartAssessment},
             plan' \in Seq(PlanSteps)
      PROVE  PlanInv'
  BY <1>0, <1>3, PreparingThePlan DEF Before, Preparing
<1>4. {"degradable", "fatal", "denied"} \subseteq Failures /\ Exceeded \in Failures
  BY ExceededIsFailure DEF Failures
<1>5. CASE Authorize \/ Open
  <2>1. at \in Before /\ at' \in Before /\ UNCHANGED planVars
    BY <1>5 DEF Authorize, Open, Before
  <2> QED BY <1>0, <2>1, PreparingThePlan DEF planVars
<1>6. CASE AuthorizeFails
  <2>1. at' = "failing" /\ UNCHANGED planVars BY <1>6 DEF AuthorizeFails
  <2> QED BY <1>1, <2>1 DEF Before, Preparing, Running
<1>7. CASE OpenFails \/ RecordFails \/ ComposeFails \/ PermitFails \/ ActFails
  <2>1. UNCHANGED planVars /\ \E kind \in Failures : Raise(kind)
    BY <1>4, <1>7 DEF OpenFails, RecordFails, Unrecorded, ComposeFails, PermitFails, ActFails
  <2> QED BY <1>2, <2>1
<1>8. CASE Begin
  <2>1. at = "beginning" /\ UNCHANGED planVars BY <1>8 DEF Begin
  <2>2. CASE Consume("step") /\ at' \in {"assessing", "planning"}
    <3>1. used'["step"] = used["step"] + 1 BY <1>0, <2>2, Consuming
    <3>2. used'["step"] > 0 BY <1>0, <3>1
    <3> QED BY <1>0, <2>1, <2>2, <3>2, PreparingThePlan DEF planVars, Before, Preparing
  <2>3. CASE Raise(Exceeded) BY <1>2, <1>4, <2>1, <2>3
  <2> QED BY <1>8, <2>2, <2>3 DEF Begin
<1>9. CASE Consult \/ Consulted
  <2>1. at \in {"assessing", "consulting"} /\ at' \in {"judging", "consulting"}
        /\ UNCHANGED <<request, plan, pos, loops, executed>>
    BY <1>9 DEF Consult, Consulted, Judge
  <2>2. assessment' \in Assessments \cup {NoAssessment, ChartAssessment}
    BY <1>0, <1>9 DEF Consult, Consulted, Judge
  <2> QED BY <1>0, <1>3, <2>1, <2>2 DEF Preparing
<1>10. CASE ConsultFails
  <2>1. at \in {"assessing", "consulting"} /\ UNCHANGED <<request, plan, pos, loops, executed>>
    BY <1>10 DEF ConsultFails
  <2>2. \/ at' = "judging" /\ assessment' = ChartAssessment
        \/ UNCHANGED assessment /\ \E kind \in Failures : Raise(kind)
    <3>1. ASSUME NEW kind \in Failures, AssessmentRaises(kind)
          PROVE  \/ at' = "judging" /\ assessment' = ChartAssessment
                 \/ UNCHANGED assessment /\ Raise(kind)
      BY <3>1 DEF AssessmentRaises, Judge
    <3>2. \E kind \in Failures : AssessmentRaises(kind) \/ (Raise(kind) /\ UNCHANGED assessment)
      BY <1>4, <1>10 DEF ConsultFails
    <3> QED BY <3>1, <3>2
  <2>3. CASE at' = "judging" /\ assessment' = ChartAssessment
    BY <1>0, <1>3, <2>1, <2>3 DEF Preparing
  <2>4. CASE UNCHANGED assessment /\ \E kind \in Failures : Raise(kind)
    BY <1>2, <2>1, <2>4 DEF planVars
  <2> QED BY <2>2, <2>3, <2>4
<1>11. CASE Judged
  <2>1. at = "judging" /\ UNCHANGED <<request, assessment, pos, loops, executed>>
    BY <1>11 DEF Judged
  <2>2. CASE at' \in {"finishing", "blocking"} /\ UNCHANGED plan
    BY <1>1, <2>1, <2>2 DEF planVars, Before, Preparing, Running
  <2>3. CASE at' = "validating" /\ assessment.list # <<>> /\ plan' = WithFinalize(assessment.list)
    <3>1. plan' \in Seq(PlanSteps) BY <1>0, <2>3, Lists, FinalizedList
    <3> QED BY <1>0, <1>3, <2>1, <2>3, <3>1 DEF Preparing
  <2>4. CASE at' = "planning" /\ UNCHANGED plan
    BY <1>0, <1>3, <2>1, <2>4 DEF Preparing
  <2> QED BY <1>11, <2>2, <2>3, <2>4 DEF Judged
<1>12. CASE Compose \/ Composed
  <2>1. at \in {"planning", "composing"} /\ at' \in {"validating", "composing"}
        /\ UNCHANGED <<request, assessment, pos, loops, executed>>
    BY <1>12 DEF Compose, Composed, Adopt
  <2>2. UNCHANGED plan \/ \E p \in Plans : plan' = p
    BY <1>12 DEF Compose, Composed, Adopt
  <2>3. plan' \in Seq(PlanSteps) BY <1>0, <2>2, Lists
  <2> QED BY <1>0, <1>3, <2>1, <2>3 DEF Preparing
<1>13. CASE Validate
  <2>1. at = "validating" /\ UNCHANGED <<planVars, used>> BY <1>13 DEF Validate
  <2>2. CASE Raise("fatal") BY <1>2, <1>4, <2>1, <2>2
  <2>3. CASE Valid(plan) /\ at' \in {"listing", "stepping"}
    <3>1. Fresh /\ pos < used["step"] /\ Len(executed) = 0
      BY <2>1 DEF PlanInv, Place, Preparing, Fresh
    <3>2. Fresh' /\ Valid(plan)' /\ pos' < used'["step"] /\ Len(executed') = 0 /\ pos' = 0
      BY <2>1, <2>3, <3>1 DEF planVars, Fresh, Valid
    <3>3. PlanTypes' BY <2>1 DEF planVars, PlanInv, PlanTypes
    <3>4. LoopsTold' /\ (\A i \in 1 .. pos' : FALSE) /\ (\A i \in 1 .. pos' - MaxToolLoop : FALSE)
      BY <3>2 DEF LoopsTold, Fresh
    <3>5. Place'
      BY <2>3, <3>2, <3>4 DEF Place, Before, Preparing, Running
    <3>6. Followed'
      BY <3>2, <3>4 DEF Followed
    <3> QED BY <3>3, <3>5, <3>6 DEF PlanInv
  <2> QED BY <1>13, <2>2, <2>3 DEF Validate
<1>14. CASE List
  <2>1. at = "listing" /\ at' = "stepping" /\ UNCHANGED <<planVars, used>> BY <1>14 DEF List
  <2>2. Fresh /\ pos < used["step"] /\ Len(executed) = 0 /\ Valid(plan)
    BY <2>1 DEF PlanInv, Place, Preparing, Fresh
  <2>3. Fresh' /\ Valid(plan)' /\ pos' < used'["step"] /\ Len(executed') = 0 /\ pos' = 0
    BY <2>1, <2>2 DEF planVars, Fresh, Valid
  <2>4. PlanTypes' BY <2>1 DEF planVars, PlanInv, PlanTypes
  <2>5. LoopsTold' /\ (\A i \in 1 .. pos' : FALSE) /\ (\A i \in 1 .. pos' - MaxToolLoop : FALSE)
    BY <2>3 DEF LoopsTold, Fresh
  <2>6. Place' BY <2>1, <2>3, <2>5 DEF Place, Before, Preparing, Running
  <2>7. Followed' BY <2>3, <2>5 DEF Followed
  <2> QED BY <2>4, <2>6, <2>7 DEF PlanInv
<1>15. CASE TakeStep
  BY <1>0, <1>15, TakingAStep
<1>16. CASE Permit
  <2>1. at = "permitting" /\ at' = "acting" /\ UNCHANGED planVars BY <1>16 DEF Permit
  <2>2. PlanTypes' BY <2>1 DEF planVars, PlanInv, PlanTypes
  <2>3. pos < used["step"] /\ pos < used'["step"] /\ Valid(plan) /\ LoopsTold /\ Len(executed) + 1 = pos
        /\ \A i \in 1 .. pos : plan[i].action \notin Terminal
    <3>1. pos < used["step"] /\ Valid(plan) /\ LoopsTold /\ Len(executed) + 1 = pos
          /\ \A i \in 1 .. pos : plan[i].action \notin Terminal
      BY <2>1 DEF PlanInv, Place, Running
    <3>2. pos \in Nat /\ used'["step"] \in Nat BY <1>0 DEF TypeOK
    <3> QED BY <1>0, <3>1, <3>2
  <2>4. Place'
    BY <2>1, <2>3 DEF planVars, Place, LoopsTold, IsToolCall, Valid, Before, Preparing, Running
  <2>5. Followed'
    BY <2>1, <2>3 DEF planVars, PlanInv, Followed, IsToolCall, Valid
  <2> QED BY <2>2, <2>4, <2>5 DEF PlanInv
<1>17. CASE Acted
  BY <1>17, ActingOnAStep
<1>18. CASE Block \/ Close \/ Finish \/ Decide \/ Degrade \/ DegradeFails \/ Explain \/ Confirm \/ FailTurn \/ Escape
  <2>1. UNCHANGED planVars
        /\ at' \in {"finishing", "over", "degrading", "failing", "explaining", "confirming"}
    BY <1>18 DEF Block, Close, Finish, Decide, Degrade, DegradeFails, Explain, Confirm, FailTurn, Escape
  <2> QED BY <1>1, <2>1 DEF Before, Preparing, Running
<1>19. CASE Lapse \/ Over \/ UNCHANGED vars
  <2>1. UNCHANGED <<planVars, at, used>> BY <1>19 DEF Lapse, TimePasses, Over, vars
  <2>2. PlanTypes' BY <2>1 DEF planVars, PlanInv, PlanTypes
  <2>3. Place' BY <2>1 DEF planVars, PlanInv, Place, Fresh, LoopsTold, IsToolCall, Valid
  <2>4. Followed' BY <2>1 DEF planVars, PlanInv, Followed, IsToolCall, Valid
  <2> QED BY <2>2, <2>3, <2>4 DEF PlanInv
<1> QED
  BY <1>5, <1>6, <1>7, <1>8, <1>9, <1>10, <1>11, <1>12, <1>13, <1>14, <1>15, <1>16, <1>17, <1>18, <1>19
  DEF Next, Work

LEMMA HistoriesStep == TypeOK /\ [Next]_vars => late' \in BOOLEAN /\ agentCalls' \in Nat /\ effects' \in BOOLEAN
<1> SUFFICES ASSUME TypeOK, [Next]_vars PROVE late' \in BOOLEAN /\ agentCalls' \in Nat /\ effects' \in BOOLEAN
  OBVIOUS
<1>0. late \in BOOLEAN /\ agentCalls \in Nat /\ effects \in BOOLEAN
  BY DEF TypeOK
<1>1. CASE Authorize \/ AuthorizeFails \/ Open \/ OpenFails \/ Begin \/ Consult \/ ConsultFails \/ Consulted \/ Judged
  BY <1>0, <1>1 DEF Authorize, AuthorizeFails, Open, OpenFails, Begin, Consult, ConsultFails, Consulted, Judged, callVars
<1>2. CASE Compose \/ ComposeFails \/ Composed \/ Validate \/ List \/ TakeStep \/ Permit \/ PermitFails
  BY <1>0, <1>2 DEF Compose, ComposeFails, Composed, Validate, List, TakeStep, Permit, PermitFails, callVars
<1>3. CASE Acted
  <2>1. UNCHANGED <<late, agentCalls>> /\ effects' = (effects \/ Current.effect)
    BY <1>3 DEF Acted
  <2>2. (effects \/ Current.effect) \in BOOLEAN
    OBVIOUS
  <2> QED BY <1>0, <2>1, <2>2
<1>4. CASE ActFails \/ Block \/ Close \/ RecordFails \/ Finish \/ Decide \/ Degrade \/ DegradeFails \/ Explain
  BY <1>0, <1>4 DEF ActFails, Block, Close, RecordFails, Finish, Decide, Degrade, DegradeFails, Explain, callVars
<1>5. CASE Confirm \/ FailTurn \/ Escape \/ Lapse \/ Over \/ UNCHANGED vars
  BY <1>0, <1>5 DEF Confirm, FailTurn, Escape, Lapse, TimePasses, Over, callVars, vars
<1> QED BY <1>1, <1>2, <1>3, <1>4, <1>5 DEF Next, Work

(* What a step adds to the journal. *)
LEMMA JournalStep == TypeOK /\ [Next]_vars => journal' \in Seq(TraceEvents)
<1> SUFFICES ASSUME TypeOK, [Next]_vars PROVE journal' \in Seq(TraceEvents)
  OBVIOUS
<1>0. /\ journal \in Seq(TraceEvents)
      /\ {"started", "selected", "assessed", "listed", "clarified", "blocked",
          "task_completed", "completed", "fallback", "failed"} = TraceEvents
  BY DEF TypeOK, TraceEvents
<1>1. CASE UNCHANGED journal BY <1>0, <1>1
<1>2. CASE \E e \in TraceEvents : Record(<<e>>) \/ Unrecorded(<<e>>) \/ journal' = Append(journal, e) \/ journal' = journal \o <<e>>
  <2>1. PICK e \in TraceEvents : Record(<<e>>) \/ Unrecorded(<<e>>) \/ journal' = Append(journal, e) \/ journal' = journal \o <<e>>
    BY <1>2
  <2>2. <<e>> \in Seq(TraceEvents) BY Journals
  <2> QED BY <2>1, <2>2, Journals
<1>3. CASE \E e, f \in TraceEvents : Record(<<e, f>>) \/ Unrecorded(<<e, f>>)
  <2>1. PICK e, f \in TraceEvents : Record(<<e, f>>) \/ Unrecorded(<<e, f>>)
    BY <1>3
  <2>2. <<e, f>> \in Seq(TraceEvents) BY Journals
  <2> QED BY <2>1, <2>2, Journals
<1>4. CASE Authorize \/ AuthorizeFails \/ Begin \/ Consult \/ ConsultFails \/ Consulted \/ Compose \/ ComposeFails \/ Composed
  BY <1>1, <1>4 DEF Authorize, AuthorizeFails, Begin, Consult, ConsultFails, Consulted, Compose, ComposeFails, Composed
<1>5. CASE Validate \/ TakeStep \/ Permit \/ PermitFails \/ Acted \/ ActFails \/ Decide \/ DegradeFails \/ Explain
  BY <1>1, <1>5 DEF Validate, TakeStep, Permit, PermitFails, Acted, ActFails, Decide, DegradeFails, Explain
<1>6. CASE Open \/ Block
  BY <1>0, <1>3, <1>6 DEF Open, Block
<1>7. CASE OpenFails
  BY <1>0, <1>2, <1>3, <1>7 DEF OpenFails
<1>8. CASE Judged \/ List \/ Close \/ Finish \/ Degrade
  BY <1>0, <1>1, <1>2, <1>8 DEF Judged, List, Close, Finish, Degrade
<1>9. CASE RecordFails
  <2>1. \/ Unrecorded(<<"assessed">>) \/ Unrecorded(<<"listed">>) \/ Unrecorded(<<"clarified", "blocked">>)
        \/ Unrecorded(<<"task_completed">>) \/ Unrecorded(<<"completed">>)
    BY <1>9 DEF RecordFails
  <2> QED BY <1>0, <1>2, <1>3, <2>1
<1>10. CASE Confirm
  BY <1>0, <1>1, <1>2, <1>3, <1>10 DEF Confirm
<1>11. CASE FailTurn
  BY <1>0, <1>1, <1>2, <1>11 DEF FailTurn
<1>12. CASE Escape
  <2>1. journal' \in {journal, journal \o <<"started">>, journal \o <<"clarified">>, journal \o <<"selected">>,
                      journal \o <<"fallback">>}
    BY <1>12 DEF Escape
  <2> QED BY <1>0, <1>1, <1>2, <2>1
<1>13. CASE Lapse \/ Over \/ UNCHANGED vars
  BY <1>1, <1>13 DEF Lapse, Over, vars
<1> QED BY <1>4, <1>5, <1>6, <1>7, <1>8, <1>9, <1>10, <1>11, <1>12, <1>13 DEF Next, Work

-----------------------------------------------------------------------------
(* What the trace tells.                                                   *)

(* Where nothing was told yet of how the task ended. *)
Unsettled == Before \cup Preparing \cup Running \cup {"closing", "blocking"}

Degrading == {"deciding", "degrading", "explaining", "confirming"}

(* The trace at each point of a turn: its end is told as it ends, the       *)
(* task's end as the last of the steps that ended.                          *)
Telling ==
  /\ at # "over" =>
       outcome = "none" /\ ~Told("fallback") /\ ~Told("completed") /\ ~Told("failed")
  /\ at \in Unsettled => ~Told("task_completed") /\ ~Told("blocked")
  /\ at = "closing" => executed # <<>> /\ plan[Len(executed)].action = "finalize"
  /\ at = "blocking" /\ executed # <<>> => plan[Len(executed)].action = "request_user_input"
  /\ at = "finishing" /\ request.taskFirst /\ executed # <<>> =>
       (Told("task_completed") <=> plan[Len(executed)].action = "finalize")
  /\ at \in Degrading => failure = "degradable"
  /\ TraceTellsOutcome

LEMMA TellingStart == Init => Telling
<1> SUFFICES ASSUME Init PROVE Telling
  OBVIOUS
<1>1. at = "authorizing" /\ outcome = "none" /\ journal = <<>> /\ DOMAIN journal = {}
  BY DEF Init
<1>2. \A e : ~Told(e) BY <1>1 DEF Told
<1> QED BY <1>1, <1>2 DEF Telling, TraceTellsOutcome, Degrading

(* Records are added at the end. *)
LEMMA Recorded ==
  ASSUME TypeOK, NEW names \in Seq(TraceEvents), journal' = journal \o names
  PROVE  /\ \A e : Told(e)' <=> Told(e) \/ \E i \in 1 .. Len(names) : names[i] = e
         /\ Ends(names)'
<1> DEFINE n == Len(journal)
           m == Len(names)
<1>1. journal \in Seq(TraceEvents) /\ n \in Nat /\ m \in Nat /\ DOMAIN journal = 1 .. n
  BY DEF TypeOK
<1>2. DOMAIN journal' = 1 .. n + m /\ Len(journal') = n + m
  BY <1>1
<1>3. \A i \in 1 .. n : journal'[i] = journal[i]
  BY <1>1
<1>4. \A i \in 1 .. m : journal'[n + i] = names[i]
  BY <1>1
<1>5. ASSUME NEW e PROVE Told(e)' <=> Told(e) \/ \E i \in 1 .. m : names[i] = e
  <2>1. ASSUME NEW i \in 1 .. n + m, journal'[i] = e
        PROVE  Told(e) \/ \E j \in 1 .. m : names[j] = e
    <3>1. CASE i <= n
      <4>1. i \in 1 .. n BY <1>1, <3>1
      <4> QED BY <1>1, <1>3, <2>1, <4>1 DEF Told
    <3>2. CASE i > n
      <4>1. i - n \in 1 .. m /\ n + (i - n) = i BY <1>1, <3>2
      <4>2. names[i - n] = journal'[i] BY <1>4, <4>1
      <4> QED BY <2>1, <4>1, <4>2
    <3> QED BY <1>1, <3>1, <3>2
  <2>2. ASSUME Told(e) PROVE Told(e)'
    <3>1. PICK i \in 1 .. n : journal[i] = e BY <1>1, <2>2 DEF Told
    <3>2. i \in 1 .. n + m BY <1>1
    <3> QED BY <1>2, <1>3, <3>1, <3>2 DEF Told
  <2>3. ASSUME NEW i \in 1 .. m, names[i] = e PROVE Told(e)'
    <3>1. n + i \in 1 .. n + m BY <1>1
    <3> QED BY <1>2, <1>4, <2>3, <3>1 DEF Told
  <2> QED BY <1>2, <2>1, <2>2, <2>3 DEF Told
<1>6. Ends(names)'
  <2>1. SubSeq(journal', 1, n) = journal
    <3>1. journal' \in Seq(TraceEvents) /\ n \in 0 .. Len(journal') BY <1>1, <1>2
    <3>2. SubSeq(journal', 1, n) \in Seq(TraceEvents) /\ Len(SubSeq(journal', 1, n)) = n
          /\ \A i \in 1 .. n : SubSeq(journal', 1, n)[i] = journal'[i]
      BY <1>1, <1>2, <3>1
    <3> QED BY <1>1, <1>3, <3>2, SeqEqual
  <2>2. n \in 0 .. Len(journal') BY <1>1, <1>2
  <2> QED BY <2>1, <2>2 DEF Ends
<1> QED BY <1>5, <1>6

(* A step adds no more than some records. *)
Adds(names) == \A e \in TraceEvents : Told(e)' => Told(e) \/ e \in names

LEMMA Silent == UNCHANGED journal => \A e : Told(e)' <=> Told(e)
BY DEF Told

LEMMA AddsOne ==
  ASSUME TypeOK, NEW e \in TraceEvents, journal' = journal \o <<e>>
  PROVE  (\A f : Told(f)' <=> Told(f) \/ f = e) /\ Ends(<<e>>)'
<1>1. <<e>> \in Seq(TraceEvents) /\ Len(<<e>>) = 1 /\ <<e>>[1] = e
  OBVIOUS
<1>2. \A f : (\E i \in 1 .. Len(<<e>>) : <<e>>[i] = f) <=> f = e
  BY <1>1
<1>3. (\A f : Told(f)' <=> Told(f) \/ \E i \in 1 .. Len(<<e>>) : <<e>>[i] = f) /\ Ends(<<e>>)'
  BY <1>1, Recorded
<1> QED BY <1>2, <1>3

LEMMA AddsTwo ==
  ASSUME TypeOK, NEW d \in TraceEvents, NEW e \in TraceEvents, journal' = journal \o <<d, e>>
  PROVE  (\A f : Told(f)' <=> Told(f) \/ f = d \/ f = e) /\ Ends(<<d, e>>)'
<1>1. <<d, e>> \in Seq(TraceEvents) /\ Len(<<d, e>>) = 2 /\ <<d, e>>[1] = d /\ <<d, e>>[2] = e
  OBVIOUS
<1>2. \A f : (\E i \in 1 .. Len(<<d, e>>) : <<d, e>>[i] = f) <=> f = d \/ f = e
  BY <1>1
<1>3. (\A f : Told(f)' <=> Told(f) \/ \E i \in 1 .. Len(<<d, e>>) : <<d, e>>[i] = f) /\ Ends(<<d, e>>)'
  BY <1>1, Recorded
<1> QED BY <1>2, <1>3

LEMMA NothingAdded ==
  ASSUME TypeOK, NEW names \in Seq(TraceEvents), Record(SubSeq(names, 1, 0))
  PROVE  \A f : Told(f)' <=> Told(f)
<1>1. SubSeq(names, 1, 0) = <<>>
  OBVIOUS
<1>2. journal \in Seq(TraceEvents) /\ journal' = journal \o <<>>
  BY <1>1 DEF TypeOK, Record
<1>3. journal \o <<>> = journal
  BY <1>2, ConcatEmptySeq
<1> QED BY <1>2, <1>3, Silent

(* Of two records that fail the first may have been made, of one none. *)
LEMMA AddsNone ==
  ASSUME TypeOK, NEW e \in TraceEvents, Unrecorded(<<e>>)
  PROVE  \A f : Told(f)' <=> Told(f)
<1>1. PICK n \in 0 .. Len(<<e>>) - 1 : Record(SubSeq(<<e>>, 1, n))
  BY DEF Unrecorded
<1>2. <<e>> \in Seq(TraceEvents) /\ Len(<<e>>) = 1
  OBVIOUS
<1>3. n = 0
  BY <1>2
<1> QED BY <1>1, <1>2, <1>3, NothingAdded

LEMMA AddsFirst ==
  ASSUME TypeOK, NEW d \in TraceEvents, NEW e \in TraceEvents, Unrecorded(<<d, e>>)
  PROVE  \A f : Told(f)' => Told(f) \/ f = d
<1>1. PICK n \in 0 .. Len(<<d, e>>) - 1 : Record(SubSeq(<<d, e>>, 1, n))
  BY DEF Unrecorded
<1>2. n \in {0, 1}
  BY <1>1
<1>3. CASE n = 0
  <2>1. <<d, e>> \in Seq(TraceEvents)
    OBVIOUS
  <2> QED BY <1>1, <1>3, <2>1, NothingAdded
<1>4. CASE n = 1
  <2>1. SubSeq(<<d, e>>, 1, 1) = <<d>>
    <3> DEFINE t == SubSeq(<<d, e>>, 1, 1)
    <3>1. <<d, e>> \in Seq(TraceEvents) /\ Len(<<d, e>>) = 2 /\ <<d, e>>[1] = d
      OBVIOUS
    <3>2. t \in Seq(TraceEvents) /\ Len(t) = 1 /\ t[1] = d
      BY <3>1
    <3>3. <<d>> \in Seq(TraceEvents) /\ Len(<<d>>) = 1 /\ <<d>>[1] = d
      OBVIOUS
    <3> HIDE DEF t
    <3>4. \A i \in 1 .. Len(t) : t[i] = <<d>>[i]
      BY <3>2, <3>3
    <3>5. t = <<d>>
      BY <3>2, <3>3, <3>4, SeqEqual
    <3> QED BY <3>5 DEF t
  <2>2. journal' = journal \o <<d>>
    BY <1>1, <1>4, <2>1 DEF Record
  <2> QED BY <2>2, AddsOne
<1> QED BY <1>2, <1>3, <1>4

(* Records that tell no end. *)
Neutral == {"started", "selected", "assessed", "listed", "clarified"}

LEMMA EventNames ==
  /\ Neutral \subseteq TraceEvents
  /\ {"blocked", "task_completed", "completed", "fallback", "failed"} \subseteq TraceEvents
  /\ {"blocked", "task_completed", "completed", "fallback", "failed"} \cap Neutral = {}
BY DEF Neutral, TraceEvents

(* A step within the turn that tells no end and settles nothing. *)
LEMMA Onward ==
  ASSUME Telling, at # "over", at' \notin {"over", "closing", "blocking", "finishing"},
         UNCHANGED outcome, Adds(Neutral),
         at' \in Unsettled => at \in Unsettled,
         at' \in Degrading => failure' = "degradable"
  PROVE  Telling'
<1>1. \A e \in {"blocked", "task_completed", "completed", "fallback", "failed"} : Told(e)' => Told(e)
  BY EventNames DEF Adds
<1>2. outcome' = "none" /\ ~Told("fallback")' /\ ~Told("completed")' /\ ~Told("failed")'
  BY <1>1 DEF Telling
<1>3. at' \in Unsettled => ~Told("task_completed")' /\ ~Told("blocked")'
  BY <1>1 DEF Telling
<1>4. ~(Told("task_completed") /\ Told("blocked"))'
  BY <1>1 DEF Telling, TraceTellsOutcome
<1>5. TraceTellsOutcome'
  BY <1>2, <1>4 DEF TraceTellsOutcome
<1> QED BY <1>2, <1>3, <1>5 DEF Telling

(* An exception leaves the plan for one of the two handlers. *)
LEMMA RaisingTells ==
  ASSUME NEW kind \in Failures, Raise(kind)
  PROVE  /\ at' \in {"deciding", "failing"}
         /\ at' \notin Unsettled
         /\ at' \in Degrading => failure' = "degradable"
BY DEF Raise, HandlerOf, Unsettled, Before, Preparing, Running, Degrading

LEMMA RaisingOnward ==
  ASSUME Telling, at # "over", NEW kind \in Failures, Raise(kind), UNCHANGED outcome, Adds(Neutral)
  PROVE  Telling'
BY RaisingTells, Onward

LEMMA TellingStep == TypeOK /\ PlanInv /\ Telling /\ [Next]_vars => Telling'
<1> SUFFICES ASSUME TypeOK, PlanInv, Telling, [Next]_vars PROVE Telling'
  OBVIOUS
<1> USE DEF Goto
<1>1. {"degradable", "fatal", "denied"} \subseteq Failures /\ Exceeded \in Failures
  BY ExceededIsFailure DEF Failures
<1>2. UNCHANGED journal => Adds(Neutral)
  BY Silent DEF Adds
<1>3. \A e \in Neutral : journal' = journal \o <<e>> => Adds(Neutral)
  BY AddsOne, EventNames DEF Adds
<1>4. \A d, e \in Neutral : journal' = journal \o <<d, e>> => Adds(Neutral)
  BY AddsTwo, EventNames DEF Adds
<1>5. \A e \in TraceEvents : Unrecorded(<<e>>) => Adds(Neutral)
  BY AddsNone DEF Adds
<1>6. \A d \in Neutral, e \in TraceEvents : Unrecorded(<<d, e>>) => Adds(Neutral)
  BY AddsFirst, EventNames DEF Adds
<1>7. {"started", "selected", "assessed", "listed", "clarified"} = Neutral
  BY DEF Neutral
<1>8. ASSUME at # "over", UNCHANGED <<outcome, journal>>, \E kind \in Failures : Raise(kind)
      PROVE  Telling'
  BY <1>2, <1>8, RaisingOnward
<1>9. ASSUME at \in Unsettled, at' \in Before \cup Preparing \cup Running, UNCHANGED outcome, Adds(Neutral)
      PROVE  Telling'
  <2>1. at # "over" /\ at' \in Unsettled /\ at' \notin {"over", "closing", "blocking", "finishing"}
        /\ at' \notin Degrading
    BY <1>9 DEF Unsettled, Before, Preparing, Running, Degrading
  <2> QED BY <1>9, <2>1, Onward
<1>10. CASE Authorize \/ Begin \/ Consult \/ ConsultFails \/ Consulted
  <2>1. at \in {"authorizing", "beginning", "assessing", "consulting"} /\ UNCHANGED <<outcome, journal>>
    BY <1>10 DEF Authorize, Begin, Consult, ConsultFails, Consulted
  <2>2. \/ at' \in {"opening", "assessing", "planning", "consulting", "judging"}
        \/ \E kind \in Failures : Raise(kind)
    BY <1>1, <1>10 DEF Authorize, Begin, Consult, ConsultFails, Consulted, Judge, AssessmentRaises
  <2>3. at # "over" /\ at \in Unsettled BY <2>1 DEF Unsettled, Before, Preparing
  <2>4. CASE at' \in {"opening", "assessing", "planning", "consulting", "judging"}
    BY <1>2, <1>9, <2>1, <2>3, <2>4 DEF Before, Preparing
  <2> QED BY <1>8, <2>1, <2>2, <2>3, <2>4
<1>11. CASE AuthorizeFails \/ DegradeFails
  <2>1. at # "over" /\ at' = "failing" /\ UNCHANGED <<outcome, journal>>
    BY <1>11 DEF AuthorizeFails, DegradeFails
  <2>2. at' \notin Unsettled /\ at' \notin Degrading
    BY <2>1 DEF Unsettled, Before, Preparing, Running, Degrading
  <2> QED BY <1>2, <2>1, <2>2, Onward
<1>12. CASE Open \/ List
  <2>1. at \in Unsettled /\ at' \in {"beginning", "stepping"} /\ UNCHANGED outcome
    BY <1>12 DEF Open, List, Unsettled, Before, Preparing
  <2>2. Adds(Neutral)
    BY <1>3, <1>4, <1>7, <1>12 DEF Open, List, Record
  <2> QED BY <1>9, <2>1, <2>2 DEF Before, Running
<1>13. CASE OpenFails
  <2>1. at # "over" /\ UNCHANGED outcome /\ \E kind \in Failures : Raise(kind)
    BY <1>1, <1>13 DEF OpenFails, Unrecorded
  <2>2. Adds(Neutral)
    <3>1. CASE Unrecorded(<<"started", "selected">>)
      BY <1>6, <1>7, <3>1, EventNames
    <3>2. CASE Record(<<"started">>)
      BY <1>3, <1>7, <3>2 DEF Record
    <3> QED BY <1>13, <3>1, <3>2 DEF OpenFails
  <2> QED BY <2>1, <2>2, RaisingOnward
<1>14. CASE Judged
  <2>1. at = "judging" /\ journal' = journal \o <<"assessed">> /\ UNCHANGED <<outcome, request, executed, failure>>
    BY <1>14 DEF Judged, Record
  <2>2. Adds(Neutral) BY <1>3, <1>7, <2>1
  <2>3. at \in Unsettled /\ executed = <<>>
    BY <2>1 DEF Unsettled, Preparing, PlanInv, Place, Fresh
  <2>4. CASE at' \in {"validating", "planning"}
    BY <1>9, <2>1, <2>2, <2>3, <2>4 DEF Preparing
  <2>5. CASE at' \in {"finishing", "blocking"}
    <3>1. \A e \in TraceEvents \ Neutral : Told(e)' => Told(e)
      BY <2>2 DEF Adds
    <3>2. outcome' = "none" /\ ~Told("fallback")' /\ ~Told("completed")' /\ ~Told("failed")'
          /\ ~Told("task_completed")' /\ ~Told("blocked")'
      BY <2>1, <2>3, <3>1, EventNames DEF Telling
    <3>3. executed' = <<>> BY <2>1, <2>3
    <3>4. TraceTellsOutcome' BY <3>2 DEF TraceTellsOutcome
    <3>5. at' # "closing" /\ at' \notin Degrading BY <2>5 DEF Degrading
    <3> QED BY <3>2, <3>3, <3>4, <3>5 DEF Telling
  <2> QED BY <1>14, <2>4, <2>5 DEF Judged
<1>15. CASE Compose \/ ComposeFails \/ Composed \/ Validate
  <2>1. at \in {"planning", "composing", "validating"} /\ UNCHANGED <<outcome, journal>>
    BY <1>15 DEF Compose, ComposeFails, Composed, Validate
  <2>2. \/ at' \in {"validating", "composing", "listing", "stepping"}
        \/ \E kind \in Failures : Raise(kind)
    BY <1>1, <1>15 DEF Compose, ComposeFails, Composed, Validate, Adopt
  <2>3. at # "over" /\ at \in Unsettled BY <2>1 DEF Unsettled, Preparing
  <2>4. CASE at' \in {"validating", "composing", "listing", "stepping"}
    BY <1>2, <1>9, <2>1, <2>3, <2>4 DEF Preparing, Running
  <2> QED BY <1>8, <2>1, <2>2, <2>3, <2>4
<1>16. CASE TakeStep
  <2> DEFINE s == plan[pos + 1]
  <2>1. at = "stepping" /\ UNCHANGED <<outcome, journal, plan, request>>
    BY <1>16 DEF TakeStep
  <2>2. at # "over" /\ at \in Unsettled BY <2>1 DEF Unsettled, Running
  <2>3. CASE at' = "permitting"
    BY <1>2, <1>9, <2>1, <2>2, <2>3 DEF Running
  <2>4. CASE /\ s.action \in Terminal
             /\ at' = IF s.action = "finalize" THEN "closing" ELSE "blocking"
             /\ executed' = Append(executed, s.id)
    <3>1. Len(executed) = pos /\ executed \in Seq(StepIds) /\ s.id = s.id
      BY <2>1 DEF PlanInv, Place, PlanTypes
    <3>2. Len(executed') = pos + 1 /\ executed' # <<>>
      BY <2>4, <3>1
    <3>3. plan'[Len(executed')] = s
      BY <2>1, <3>2
    <3>4. s.action = "finalize" \/ s.action = "request_user_input"
      BY <2>4 DEF Terminal
    <3>5. \A e : Told(e)' <=> Told(e) BY <2>1, Silent
    <3>6. outcome' = "none" /\ ~Told("fallback")' /\ ~Told("completed")' /\ ~Told("failed")'
          /\ ~Told("task_completed")' /\ ~Told("blocked")'
      BY <2>1, <2>2, <3>5 DEF Telling
    <3>7. TraceTellsOutcome' BY <3>6 DEF TraceTellsOutcome
    <3>8. at' \in {"closing", "blocking"} /\ (at' = "closing" <=> s.action = "finalize")
      BY <2>4
    <3>9. at' \notin Degrading BY <3>8 DEF Degrading
    <3> QED BY <3>2, <3>3, <3>4, <3>6, <3>7, <3>8, <3>9 DEF Telling
  <2>5. CASE \E kind \in Failures : Raise(kind)
    BY <1>8, <2>1, <2>2, <2>5
  <2> QED BY <1>1, <1>16, <2>3, <2>4, <2>5 DEF TakeStep
<1>17. CASE Permit \/ PermitFails \/ Acted \/ ActFails
  <2>1. at \in {"permitting", "acting"} /\ UNCHANGED <<outcome, journal>>
    BY <1>17 DEF Permit, PermitFails, Acted, ActFails
  <2>2. at' \in {"acting", "stepping"} \/ \E kind \in Failures : Raise(kind)
    BY <1>1, <1>17 DEF Permit, PermitFails, Acted, ActFails
  <2>3. at # "over" /\ at \in Unsettled BY <2>1 DEF Unsettled, Running
  <2>4. CASE at' \in {"acting", "stepping"}
    BY <1>2, <1>9, <2>1, <2>3, <2>4 DEF Running
  <2> QED BY <1>8, <2>1, <2>2, <2>3, <2>4
<1>18. CASE Block
  <2>1. /\ at = "blocking" /\ at' = "finishing" /\ journal' = journal \o <<"clarified", "blocked">>
        /\ UNCHANGED <<outcome, executed, plan, request, failure>>
    BY <1>18 DEF Block, Record, planVars
  <2>2. \A e : Told(e)' <=> Told(e) \/ e = "clarified" \/ e = "blocked"
    BY <2>1, AddsTwo, EventNames DEF TraceEvents
  <2>3. outcome' = "none" /\ ~Told("fallback")' /\ ~Told("completed")' /\ ~Told("failed")'
        /\ ~Told("task_completed")'
    BY <2>1, <2>2 DEF Telling, Unsettled
  <2>4. executed' # <<>> => plan'[Len(executed')].action = "request_user_input"
    BY <2>1 DEF Telling
  <2>5. TraceTellsOutcome' BY <2>3 DEF TraceTellsOutcome
  <2>6. at' \notin Unsettled /\ at' \notin Degrading
    BY <2>1 DEF Unsettled, Before, Preparing, Running, Degrading
  <2> QED BY <2>1, <2>3, <2>4, <2>5, <2>6 DEF Telling
<1>19. CASE Close
  <2>1. at = "closing" /\ at' = "finishing" /\ UNCHANGED <<outcome, executed, plan, request, failure>>
    BY <1>19 DEF Close, planVars
  <2>2. executed' # <<>> /\ plan'[Len(executed')].action = "finalize"
    BY <2>1 DEF Telling
  <2>3. \A e : Told(e)' <=> Told(e) \/ (request.taskFirst /\ e = "task_completed")
    <3>1. CASE request.taskFirst
      <4>1. journal' = journal \o <<"task_completed">> BY <1>19, <3>1 DEF Close, Record
      <4> QED BY <3>1, <4>1, AddsOne DEF TraceEvents
    <3>2. CASE ~request.taskFirst
      <4>1. UNCHANGED journal BY <1>19, <3>2 DEF Close
      <4> QED BY <3>2, <4>1, Silent
    <3> QED BY <3>1, <3>2
  <2>4. outcome' = "none" /\ ~Told("fallback")' /\ ~Told("completed")' /\ ~Told("failed")'
        /\ ~Told("blocked")' /\ (request'.taskFirst => Told("task_completed")')
    BY <2>1, <2>3 DEF Telling, Unsettled
  <2>5. TraceTellsOutcome' BY <2>4 DEF TraceTellsOutcome
  <2>6. at' \notin Unsettled /\ at' \notin Degrading
    BY <2>1 DEF Unsettled, Before, Preparing, Running, Degrading
  <2> QED BY <2>1, <2>2, <2>4, <2>5, <2>6 DEF Telling
<1>20. CASE RecordFails
  <2>1. at # "over" /\ UNCHANGED outcome /\ \E kind \in Failures : Raise(kind)
    BY <1>1, <1>20 DEF RecordFails, Unrecorded
  <2>2. \/ Unrecorded(<<"assessed">>) \/ Unrecorded(<<"listed">>) \/ Unrecorded(<<"clarified", "blocked">>)
        \/ Unrecorded(<<"task_completed">>) \/ Unrecorded(<<"completed">>)
    BY <1>20 DEF RecordFails
  <2>3. Adds(Neutral)
    BY <1>5, <1>6, <1>7, <2>2, EventNames
  <2> QED BY <2>1, <2>3, RaisingOnward
<1>21. CASE Finish
  <2>1. /\ at = "finishing" /\ at' = "over" /\ journal' = journal \o <<"completed">> /\ outcome' = "answered"
        /\ UNCHANGED <<executed, plan, request>>
    BY <1>21 DEF Finish, Record, planVars
  <2>2. (\A e : Told(e)' <=> Told(e) \/ e = "completed") /\ Ends(<<"completed">>)'
    BY <2>1, AddsOne DEF TraceEvents
  <2>3. ~Told("fallback")' /\ ~Told("failed")' /\ ~(Told("task_completed") /\ Told("blocked"))'
    BY <2>1, <2>2 DEF Telling, TraceTellsOutcome
  <2>4. request'.taskFirst /\ executed' # <<>> =>
          (Told("task_completed")' <=> plan'[Len(executed')].action = "finalize")
    BY <2>1, <2>2 DEF Telling
  <2>5. TraceTellsOutcome' BY <2>1, <2>2, <2>3, <2>4 DEF TraceTellsOutcome
  <2>6. at' \notin Unsettled /\ at' \notin Degrading
    BY <2>1 DEF Unsettled, Before, Preparing, Running, Degrading
  <2> QED BY <2>1, <2>5, <2>6 DEF Telling
<1>22. ASSUME at # "over", at' = "over", outcome' \in {"escaped", "cancelled"},
              Adds(Neutral \cup {"fallback"})
       PROVE  Telling'
  <2>1. ~Told("completed")' /\ ~Told("failed")' /\ ~(Told("task_completed") /\ Told("blocked"))'
    BY <1>22, EventNames DEF Adds, Telling, TraceTellsOutcome
  <2>2. TraceTellsOutcome' BY <1>22, <2>1 DEF TraceTellsOutcome
  <2>3. at' \notin Unsettled /\ at' \notin Degrading
    BY <1>22 DEF Unsettled, Before, Preparing, Running, Degrading
  <2> QED BY <1>22, <2>2, <2>3 DEF Telling
<1>23. Adds(Neutral) => Adds(Neutral \cup {"fallback"})
  BY DEF Adds
<1>24. CASE Decide
  <2>1. at = "deciding" /\ UNCHANGED <<journal, failure>> BY <1>24 DEF Decide
  <2>2. failure = "degradable" BY <2>1 DEF Telling, Degrading
  <2>3. CASE at' \in {"degrading", "failing"} /\ UNCHANGED outcome
    <3>1. at' \notin Unsettled BY <2>3 DEF Unsettled, Before, Preparing, Running
    <3> QED BY <1>2, <2>1, <2>2, <2>3, <3>1, Onward
  <2>4. CASE at' = "over" /\ outcome' = "escaped"
    BY <1>2, <1>22, <1>23, <2>1, <2>4
  <2> QED BY <1>24, <2>3, <2>4 DEF Decide
<1>25. CASE Degrade \/ Explain
  <2>1. at \in {"degrading", "explaining"} /\ at' \in {"explaining", "confirming", "failing"}
        /\ UNCHANGED <<failure, outcome>>
    BY <1>25 DEF Degrade, Explain
  <2>2. Adds(Neutral)
    BY <1>2, <1>3, <1>7, <1>25 DEF Degrade, Explain, Record
  <2>3. failure' = "degradable" BY <2>1 DEF Telling, Degrading
  <2>4. at' \notin Unsettled BY <2>1 DEF Unsettled, Before, Preparing, Running
  <2> QED BY <2>1, <2>2, <2>3, <2>4, Onward
<1>26. CASE Confirm
  <2>1. at = "confirming" /\ at' = "over" /\ UNCHANGED failure BY <1>26 DEF Confirm
  <2>2. CASE journal' = journal \o <<"fallback", "completed">> /\ outcome' = "degraded"
    <3>1. (\A e : Told(e)' <=> Told(e) \/ e = "fallback" \/ e = "completed") /\ Ends(<<"fallback", "completed">>)'
      BY <2>2, AddsTwo DEF TraceEvents
    <3>2. failure' = "degradable" BY <2>1 DEF Telling, Degrading
    <3>3. ~(Told("task_completed") /\ Told("blocked"))'
      BY <3>1 DEF Telling, TraceTellsOutcome
    <3>4. TraceTellsOutcome' BY <2>2, <3>1, <3>2, <3>3 DEF TraceTellsOutcome
    <3>5. at' \notin Unsettled /\ at' \notin Degrading
      BY <2>1 DEF Unsettled, Before, Preparing, Running, Degrading
    <3> QED BY <2>1, <3>4, <3>5 DEF Telling
  <2>3. CASE outcome' = "escaped" /\ journal' \in {journal, Append(journal, "fallback")}
    <3>1. CASE journal' = journal
      BY <1>2, <1>22, <1>23, <2>1, <2>3, <3>1
    <3>2. CASE journal' = Append(journal, "fallback")
      <4>1. journal' = journal \o <<"fallback">>
        <5>1. journal \in Seq(TraceEvents) /\ "fallback" \in TraceEvents
          BY DEF TypeOK, TraceEvents
        <5> QED BY <3>2, <5>1, AppendIsConcat
      <4>2. Adds(Neutral \cup {"fallback"}) BY <4>1, AddsOne, EventNames DEF Adds
      <4> QED BY <1>22, <2>1, <2>3, <4>2
    <3> QED BY <2>3, <3>1, <3>2
  <2> QED BY <1>26, <2>2, <2>3 DEF Confirm, Record
<1>27. CASE FailTurn
  <2>1. at = "failing" /\ at' = "over" BY <1>27 DEF FailTurn
  <2>2. CASE journal' = journal \o <<"failed">> /\ outcome' = "failed"
    <3>1. (\A e : Told(e)' <=> Told(e) \/ e = "failed") /\ Ends(<<"failed">>)'
      BY <2>2, AddsOne DEF TraceEvents
    <3>2. ~Told("completed")' /\ ~(Told("task_completed") /\ Told("blocked"))'
      BY <2>1, <3>1 DEF Telling, TraceTellsOutcome
    <3>3. TraceTellsOutcome' BY <2>2, <3>1, <3>2 DEF TraceTellsOutcome
    <3>4. at' \notin Unsettled /\ at' \notin Degrading
      BY <2>1 DEF Unsettled, Before, Preparing, Running, Degrading
    <3> QED BY <2>1, <3>3, <3>4 DEF Telling
  <2>3. CASE outcome' = "escaped" /\ UNCHANGED journal
    BY <1>2, <1>22, <1>23, <2>1, <2>3
  <2> QED BY <1>27, <2>2, <2>3 DEF FailTurn, Record
<1>28. CASE Escape
  <2>1. at # "over" /\ at' = "over" /\ outcome' = "cancelled"
    BY <1>28 DEF Escape, Synchronous
  <2>2. \/ UNCHANGED journal
        \/ \E e \in Neutral \cup {"fallback"} : journal' = journal \o <<e>>
    BY <1>28, <1>7 DEF Escape
  <2>3. Adds(Neutral \cup {"fallback"})
    BY <1>2, <1>23, <2>2, AddsOne, EventNames DEF Adds
  <2> QED BY <1>22, <2>1, <2>3
<1>29. CASE Lapse \/ Over \/ UNCHANGED vars
  <2>1. UNCHANGED <<at, failure, request, plan, executed, journal, outcome>>
    BY <1>29 DEF Lapse, Over, vars, planVars
  <2>2. \A e : Told(e)' <=> Told(e) BY <2>1, Silent
  <2>3. TraceTellsOutcome' BY <2>1, <2>2 DEF TraceTellsOutcome, Telling, Ends
  <2> QED BY <2>1, <2>2, <2>3 DEF Telling
<1> QED
  BY <1>10, <1>11, <1>12, <1>13, <1>14, <1>15, <1>16, <1>17, <1>18, <1>19, <1>20, <1>21, <1>24, <1>25,
     <1>26, <1>27, <1>28, <1>29 DEF Next, Work

-----------------------------------------------------------------------------
(* The theorems.                                                           *)

IInv == TypeOK /\ Counted /\ Place /\ Followed /\ Telling

LEMMA Inductive == Spec => []IInv
<1>1. Init => IInv
  BY TypesStart, CountedStart, PlanStart, TellingStart DEF IInv
<1>2. IInv /\ [Next]_vars => IInv'
  <2> SUFFICES ASSUME IInv, [Next]_vars PROVE IInv'
    OBVIOUS
  <2>1. TypeOK /\ Counted /\ PlanInv
    BY TypeParts DEF IInv, PlanInv
  <2>2. Uses BY <2>1, UsesStep
  <2>3. Counted' /\ used' \in [Kinds -> Nat] /\ calls' \in [Kinds -> Nat] /\ \A k \in Kinds : used[k] <= used'[k]
    BY <2>1, <2>2, CountedStep
  <2>4. PlanInv' BY <2>1, <2>3, PlanStep
  <2>5. ControlTypes' BY <2>1, ControlStep
  <2>6. late' \in BOOLEAN /\ agentCalls' \in Nat /\ effects' \in BOOLEAN BY <2>1, HistoriesStep
  <2>7. journal' \in Seq(TraceEvents) BY <2>1, JournalStep
  <2>8. TypeOK'
    BY <2>3, <2>4, <2>5, <2>6, <2>7 DEF TypeOK, ControlTypes, PlanInv, PlanTypes
  <2>9. Telling' BY <2>1, TellingStep DEF IInv
  <2> QED BY <2>3, <2>4, <2>8, <2>9 DEF IInv, PlanInv
<1> QED BY <1>1, <1>2, PTL DEF Spec

(* The turn's state has its types. *)
THEOREM TypeCorrect == Spec => []TypeOK
<1>1. IInv => TypeOK BY DEF IInv
<1> QED BY <1>1, Inductive, PTL

(* A turn stays within its limits: what it uses, what it calls, what it
   runs, and how often in a row its tools run (orchestration/limits.py,
   bounded_planner.py, _run_strategy). *)
THEOREM LimitsAreKept == Spec => []LimitsHold
<1>1. IInv => LimitsHold
  <2> SUFFICES ASSUME IInv PROVE LimitsHold
    OBVIOUS
  <2>1. /\ pos \in Nat /\ Len(executed) \in Nat /\ used["step"] \in Nat /\ MaxToolLoop \in Nat
        /\ Len(executed) <= pos /\ (pos > 0 => pos < used["step"])
    <3>1. pos \in Nat /\ Len(executed) \in Nat /\ used["step"] \in Nat
      BY DEF IInv, TypeOK, Kinds
    <3>2. MaxToolLoop \in Nat
      BY PlannerAssumption DEF PlannerAssumption
    <3> QED BY <3>1, <3>2 DEF IInv, Followed
  <2>2. Len(executed) > 0 => Len(executed) < used["step"]
    BY <2>1
  <2>3. \A i \in 1 .. Len(executed) - MaxToolLoop : \E j \in i .. i + MaxToolLoop : ~IsToolCall(j)
    <3> TAKE i \in 1 .. Len(executed) - MaxToolLoop
    <3>1. i \in 1 .. pos - MaxToolLoop BY <2>1
    <3> QED BY <3>1 DEF IInv, Followed
  <2>4. \A k \in Kinds : calls[k] <= used[k] /\ used[k] <= Limit[k]
    BY DEF IInv, Counted
  <2> QED BY <2>2, <2>3, <2>4 DEF LimitsHold
<1> QED BY <1>1, Inductive, PTL

(* The steps run in the plan's order, each once, after all they depend on,
   and none after the one that ends the task. *)
THEOREM PlanIsFollowed == Spec => []PlanFollowed
<1>1. IInv => PlanFollowed
  <2> SUFFICES ASSUME IInv PROVE PlanFollowed
    OBVIOUS
  <2> DEFINE n == Len(executed)
  <2>1. /\ n \in Nat /\ pos \in Nat /\ n <= pos /\ pos <= n + 1 /\ pos <= Len(plan) /\ Len(plan) \in Nat
        /\ executed \in Seq(StepIds) /\ plan \in Seq(PlanSteps)
    BY DEF IInv, TypeOK, Followed
  <2>2. ASSUME NEW i \in 1 .. n
        PROVE  /\ executed[i] = plan[i].id
               /\ plan[i].after \subseteq {executed[j] : j \in 1 .. i - 1}
               /\ i < n => plan[i].action \notin Terminal
    <3>1. executed[i] = plan[i].id /\ (i < n => plan[i].action \notin Terminal)
      BY DEF IInv, Followed
    <3>2. Valid(plan) /\ i \in DOMAIN plan
      <4>1. pos > 0 /\ i \in 1 .. Len(plan) BY <2>1
      <4> QED BY <2>1, <4>1 DEF IInv, Followed
    <3>3. plan[i].after \subseteq {plan[j].id : j \in 1 .. i - 1}
      BY <3>2 DEF Valid
    <3>4. \A j \in 1 .. i - 1 : executed[j] = plan[j].id
      <4> TAKE j \in 1 .. i - 1
      <4>1. j \in 1 .. n BY <2>1
      <4> QED BY <4>1 DEF IInv, Followed
    <3> QED BY <3>1, <3>3, <3>4
  <2>3. n > 0 /\ plan[n].action \in Terminal => pos = n
    BY DEF IInv, Followed
  <2> QED BY <2>1, <2>2, <2>3 DEF PlanFollowed
<1> QED BY <1>1, Inductive, PTL

(* The trace ends a turn the way its caller learns of it, and tells of its
   task that it is done or that it waits for the user as the plan ended
   (runtime.py, run_turn and its handlers). *)
THEOREM TraceIsTrue == Spec => []TraceTellsOutcome
<1>1. IInv => TraceTellsOutcome BY DEF IInv, Telling
<1> QED BY <1>1, Inductive, PTL
=============================================================================
