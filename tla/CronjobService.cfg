SPECIFICATION Spec
CONSTANTS
  hourly = hourly
  daily = daily
  Models = {m1, m2}
  StartEvents = {1, 2}
  Crontabs = {hourly, daily}
  Invalid = Invalid
  Off = Off
  Versions <- SomeVersions
  Callers = {c1}
  MaxCreations = 3
INVARIANTS
  TimersAreKnown
  RunsAsDeployed
PROPERTIES
  ExpiryStartsDeployedCronjob
CHECK_DEADLOCK FALSE
