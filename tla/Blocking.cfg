CONSTANTS
  Process = {p1, p2}
  Capacity = 2
  MaxRequest = 3
  Behaviours = {"readv"}
  Kinds <- AllKinds
  Timeouts = {"none", "finite", "forever"}
  Retries = 2
  Happenings = {"error", "empty"}
SPECIFICATION MCSpec
INVARIANTS TransferKeepsRegisters TransferReturnsWhatMoved TransferHidesPortions
            NothingLeftOver
PROPERTIES ReaderSeesTheEnd  
CHECK_DEADLOCK FALSE
