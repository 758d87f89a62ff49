SPECIFICATION Spec
CONSTANTS
  Branches = {b1,b2,b3}
  Split = Split
  None = None
  MaxCrashes = 0
  Terminations = FALSE
INVARIANT ArrivedBranchesAreRecorded
CHECK_DEADLOCK FALSE
