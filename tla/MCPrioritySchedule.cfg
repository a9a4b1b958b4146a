CONSTANTS
  Bound = 4
  Nodes <- MCNodes
  Graphs <- AnyGraphs
SPECIFICATION FairSpec
INVARIANT CycleErrorIsExact
INVARIANT RoundsAreLevels
PROPERTY ImplementsDagRun
