CONSTANTS
  Calls <- OrdinaryCalls
  kernelPre4_8 = FALSE
  Hooks = FALSE
  Thread = {1, 2}
  Leader = 1
  Signal = {"ALRM", "PROF"}
  SIGALRM = "ALRM"
  MaxTimers = 0
  Behaviours = {"default"}
  Process = {1, 2}
  First = 1
  MaxSteps = 2
  Second = 2
  MaxLeaf = 20
SPECIFICATION MCSpec
INVARIANTS ListsAgree  SignalTablesRight NeverSleeps 
PROPERTIES SuspendWakes TimeMovesOn
CHECK_DEADLOCK FALSE
