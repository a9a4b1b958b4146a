CONSTANTS
  Packages <- MCPackages
  Tasks <- MCTasks
  Ecosystems <- MCEcosystems
  Target = "build"
  NoScope = NoScope
  Inputs <- TargetedOrNot
SPECIFICATION FairSpec
INVARIANT UnaskedPlanKeepsPromises
INVARIANT PlanIsSound
INVARIANT DependenciesPlanned
INVARIANT PlanIsAcyclic
PROPERTY PlanningTerminates
