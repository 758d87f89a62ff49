SPECIFICATION FairSpec
CONSTANTS
  timer = timer
  message = message
  signal = signal
  failure = failure
  Boundary <- TimerMessageFailure
  Timers = {timer}
  ErrorEvents = {failure}
  Interrupting = {timer}
  Stops = {}
  Early = FALSE
  Elapsed = FALSE
  Invalid = TRUE
  MaxCrashes = 2
  MaxTriggers = 2
INVARIANTS
  ExclusivePaths
PROPERTIES
  
  ImplementsFlowNodeInstance
  FlowGoesOnBarEvents
CHECK_DEADLOCK FALSE
