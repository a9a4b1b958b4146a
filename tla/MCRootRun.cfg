CONSTANTS
  Tasks <- MCTasks
  NoTask = NoTask
  Target = 4
  Configurations <- GraphsAndOutputs
SPECIFICATION FairSpecRun
INVARIANT PlanIsOrderedClosure
INVARIANT OutputsAvailable
INVARIANT SkipSpreads
INVARIANT ReportIsTargetOutcome
PROPERTY RunEnds
