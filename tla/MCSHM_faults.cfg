CONSTANTS
  Readers = {r1}
  Writer = writer
  NoOne = none
  SwapchainLength = 2
  Targets <- AllOrNone
  Faults = {"quit", "writerCrash", "readerCrash"}
  MaxFaults = 1
  MaxFrame = 1
  MaxResources = 3
  MaxCopies = 1
SPECIFICATION Spec
CHECK_DEADLOCK FALSE
INVARIANTS
  LockDiscipline
PROPERTIES
  FramesAdvance
