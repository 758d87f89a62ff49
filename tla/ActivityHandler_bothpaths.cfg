SPECIFICATION Spec
CONSTANTS
  timer = timer
  message = message
  signal = signal
  failure = failure
  Boundary <- TimerMessage
  Timers = {timer}
  ErrorEvents = {}
  Interrupting = {timer, message}
  Stops = {}
  Early = FALSE
  Elapsed = FALSE
  Invalid = FALSE
  MaxCrashes = 0
  MaxTriggers = 1
INVARIANTS
  ExclusivePaths
CHECK_DEADLOCK FALSE
