SPECIFICATION Spec
CONSTANTS
  Diagrams <- Walked
  Inputs = {"in"}
  Answers = {"yes", "no"}
  Configured = "cfg"
  Empty = "{}"
  MaxRestarts = 2
  MaxRows = 9
INVARIANT
  TokenDoesNotMatter
CHECK_DEADLOCK FALSE
