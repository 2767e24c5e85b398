CONSTANTS
  Options <- PlainOptions
  Paths <- FewPaths
  MaxRuns = 2
  MountBehaviours = {"partial install"}
  Flags <- Namespaces
  chroot_dir = FALSE
  HostTmp <- HostMount
  Behaviours = {"set up fails", "loop fails", "tracee fails", "timeout"}
  Capacity = 4
  MaxNumbers = 4
  MaxRequest = 3
  Traffic = {"errors", "tracee writes"}
SPECIFICATION MCSpec
INVARIANTS  MountsAsAsked EndsCleanly RandomDevicesFed NumbersInOrder
           NumbersRepeatLate
PROPERTIES EveryoneEnds
CHECK_DEADLOCK FALSE
