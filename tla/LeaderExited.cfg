CONSTANTS
  MaxPid = 4
  PidReuse = FALSE
  Behaviours <- ThreadsAndExits
SPECIFICATION Spec
INVARIANTS
  LeaderGetsFinished
