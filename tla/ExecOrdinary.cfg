CONSTANTS
  MaxPid = 5
  PidReuse = FALSE
  Behaviours <- Ordinary
SPECIFICATION YieldingSpec
INVARIANTS
  WaitsOnlyForTheEndable
  VforkParentNotResumed
PROPERTIES
  BlockedIsRetried
  LoopEnds
