SPECIFICATION FairSpec
CONSTANTS
  b1 = b1
  b2 = b2
  Branches <- MCBranches
  Cases <- MCCases
  MaxRestarts = 1
  Interruptions = {"terminated"}
INVARIANTS
  FinishedMeansEnded
  
  
  
PROPERTIES
  FinalStateStays
  
CHECK_DEADLOCK FALSE
