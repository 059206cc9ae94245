--------------------------- MODULE MCPlannedTurn ---------------------------
(* Every plan of up to three steps whose ids and dependencies are in       *)
(* order, plans of one step more than the turn's limit leaves, and plans   *)
(* that are not valid.                                                     *)
EXTENDS PlannedTurnProps

Ids == <<"s1", "s2", "s3", "s4">>

SomeIds == {Ids[i] : i \in DOMAIN Ids} \cup {"chart_1", "finalize"}

After(i) == IF i = 1 THEN {} ELSE {Ids[i - 1]}

StepOf(i, action) == [Step(Ids[i], action) EXCEPT !.after = After(i), !.effect = (action = "tool_call")]

Ordered(n) == {[i \in 1 .. n |-> StepOf(i, f[i])] : f \in [1 .. n -> Actions]}

Longest ==
  {[i \in 1 .. 4 |-> StepOf(i, IF i = 4 THEN "finalize" ELSE f[i])] :
     f \in [1 .. 3 -> {"tool_call", "llm_call", "agent_invoke"}]}

Disordered ==
  { << Step("s1", "tool_call"), Step("s1", "finalize") >>,
    << [Step("s1", "llm_call") EXCEPT !.after = {"s2"}], Step("s2", "finalize") >>,
    << [Step("s1", "tool_call") EXCEPT !.fits = FALSE], Step("s2", "finalize") >>,
    <<>> }

SomePlans == Ordered(1) \cup Ordered(2) \cup Ordered(3) \cup Longest \cup Disordered

Assessment(mode, list) == [mode |-> mode, list |-> list, chart |-> FALSE]

SomeAssessments ==
  {Assessment("direct_answer", <<>>), Assessment("request_user_input", <<>>)}
    \cup {Assessment("planned_execution", l) : l \in Ordered(2) \cup {<<>>}}

SomeLimits == [k \in Kinds |-> CASE k = "step" -> 4 [] k = "tool_call" -> 2 [] OTHER -> 1]
=============================================================================
