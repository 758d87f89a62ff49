SPECIFICATION FairSpec
CONSTANTS
  Diagrams <- MCDiagrams
  Inputs = {"in"}
  Answers = {"yes", "no"}
  Configured = "cfg"
  Empty = "{}"
  MaxRestarts = 2
  MaxRows = 9
INVARIANTS
  FollowedOnce
  JoinIsCounterpart
  EndsWhenOver
  PayloadIsHandedOn
PROPERTIES
  ClosedRowStays
  FlowEnds
CHECK_DEADLOCK FALSE
