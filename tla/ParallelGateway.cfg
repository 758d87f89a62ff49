SPECIFICATION FairSpec
CONSTANTS
  Branches = {b1, b2, b3}
  Split = Split
  None = None
  MaxCrashes = 1
  Terminations = TRUE
INVARIANTS
  JoinWaitsForAllBranches
  SingleContinuation
  LockIsHandedOn
PROPERTIES
  FinishedJoinIsFinal
  FlowContinuesAfterJoin
  EveryBranchSettles
CHECK_DEADLOCK FALSE
