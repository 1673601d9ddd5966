SPECIFICATION Spec
CONSTANTS
  p1 = p1
  p2 = p2
  None = None
  Proc <- Processes
  Lock <- TwoVms
  Leaf <- TwoVmLeaf
  ClusterLeaf <- GeneralOnly
  Shared = TRUE
  Plan <- TwoVmPlan
  Acquire <- Waits
  MaxHold <- Holds
  Ceiling = 1
  Cfs = 4
  RunMax <- Runs
  BlindMax = 1
  QuorumLoss = FALSE
SYMMETRY SymProcesses
INVARIANTS TypeOK OwnerHasArtifact FatalSurvives MaximalRunSurvives NoWaitCycle AlarmBounds
PROPERTY ImplementsService
