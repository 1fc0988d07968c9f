SPECIFICATION Spec
CONSTANTS
  Ids = {1, 2}
  Workflows <- SmallWorkflows
  Events <- SmallEvents
  Calls = {1, 2}
  MaxEvents = 3
  MaxFailures = 1
INVARIANTS
  TypeOK
  TransitionsBounded
  ReplayMatchesMemory
  ActionsFollowHistory
  CapEndsInstance
PROPERTIES
  NoTransitionAfterEnd
  LifecycleSpec
CHECK_DEADLOCK FALSE
