CONSTANTS
  MaxPid = 4
  PidReuse = TRUE
  Behaviours <- Threads
SPECIFICATION Spec
INVARIANTS
  GroupEntryFound
