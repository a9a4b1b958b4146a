CONSTANTS
  Bound = 3
  Keys = {k1}
  NoKey = NoKey
  Tasks <- MCTasks
  Plans <- AnyPlans
SPECIFICATION FairSpecRun
INVARIANT CycleErrorIsExact
INVARIANT UnitsRespectPrerequisites
INVARIANT CohortIsMaximal
INVARIANT ExplicitFailureEndsRun
PROPERTY ImplementsDagRun
PROPERTY RunEnds
