SPECIFICATION FairSpec
CONSTANTS
  Limit <- SomeLimits
  StepIds <- SomeIds
  Plans <- SomePlans
  Assessments <- SomeAssessments
  ChartAgentOffered = TRUE
  FallbackConfigured = TRUE
  MaxPlanSteps = 4
  MaxExecuteSteps = 4
  MaxToolLoop = 1
INVARIANTS
  LimitsHold
  PlanFollowed
  TraceTellsOutcome
PROPERTIES
  TurnEnds
