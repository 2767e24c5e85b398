CONSTANTS
  MaxPid = 4
  PidReuse = TRUE
  Behaviours <- ForkAndExit
SPECIFICATION Spec
PROPERTIES
  OnlyCallerBlocks
