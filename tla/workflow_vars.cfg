SPECIFICATION Spec
CONSTANTS
  Ids = {1}
  Workflows <- AllWorkflows
  Events <- AllEvents
  Calls = {1}
  MaxEvents = 2
  MaxFailures = 0
INVARIANTS
  VarsReplayed
CHECK_DEADLOCK FALSE
