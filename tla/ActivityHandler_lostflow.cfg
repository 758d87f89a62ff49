SPECIFICATION FairSpec
CONSTANTS
  timer = timer
  message = message
  signal = signal
  failure = failure
  Boundary <- MessageTimer
  Timers = {timer}
  ErrorEvents = {}
  Interrupting = {}
  Stops = {}
  Early = FALSE
  Elapsed = FALSE
  Invalid = FALSE
  MaxCrashes = 1
  MaxTriggers = 1
PROPERTIES
  FlowGoesOn
CHECK_DEADLOCK FALSE
