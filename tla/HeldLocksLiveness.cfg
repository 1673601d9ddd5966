SPECIFICATION FairSpec
CONSTANTS
  p1 = p1
  p2 = p2
  None = None
  Proc <- Processes
  Lock <- VmAndGeneral
  Leaf <- GeneralOnly
  ClusterLeaf <- GeneralOnly
  Shared = TRUE
  Plan <- VmAndGeneralPlan
  Acquire <- Waits
  MaxHold <- Holds
  Ceiling = 1
  Cfs = 3
  RunMax <- Runs
  BlindMax = 0
  QuorumLoss = FALSE
INVARIANT DueIsPossible
PROPERTIES WaitEnds HoldEnds
