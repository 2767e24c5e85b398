CONSTANTS
  MaxPid = 5
  PidReuse = FALSE
  Behaviours <- ForkAndExit
SPECIFICATION Spec
INVARIANTS
  ParentGetsScheduled
