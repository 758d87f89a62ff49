SPECIFICATION FairSpec
CONSTANTS
  MaxCrashes = 2
INVARIANTS
  OneTaskPerInstance
  
  InterruptedTaskIsClosed
  NobodyIsLeftWaiting
PROPERTIES
  ResultIsNotMissed
CHECK_DEADLOCK FALSE
