\* All behaviours together: the tracer may hang (see SignalledThreads.cfg).
CONSTANTS
  MaxPid = 6
  PidReuse = FALSE
  Behaviours <- AllBehaviours
SPECIFICATION Spec
INVARIANTS FinishedAwaitChildren SchedulerKnowsTracees GroupsMatchKernel NothingLeftBehind Inv
PROPERTY OnlyCallerBlocks
CHECK_DEADLOCK FALSE
