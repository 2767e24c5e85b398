CONSTANTS
  MaxPid = 4
  PidReuse = FALSE
  Behaviours <- ThreadsAndSignals
SPECIFICATION Spec
INVARIANTS
  WaitsOnlyForTheEndable
