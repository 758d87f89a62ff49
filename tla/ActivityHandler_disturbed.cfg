SPECIFICATION FairSpec
CONSTANTS
  timer = timer
  message = message
  signal = signal
  failure = failure
  Boundary <- FourEvents
  Timers = {timer}
  ErrorEvents = {failure}
  Interrupting = {timer, message}
  Stops = {"terminated"}
  Early = TRUE
  Elapsed = TRUE
  Invalid = TRUE
  MaxCrashes = 1
  MaxTriggers = 1
INVARIANTS
  
  SomebodyDrives
PROPERTIES
  HandlerSettles
CHECK_DEADLOCK FALSE
