CONSTANTS
  Readers = {r1}
  Writer = writer
  NoOne = none
  SwapchainLength = 2
  Targets <- AllReaders
  Faults = {"resize"}
  MaxFaults = 1
  MaxFrame = 3
  MaxResources = 4
  MaxCopies = 2
SPECIFICATION Spec
CHECK_DEADLOCK FALSE
INVARIANTS
  TypeOK
  FencedRead
  Fresh
  HeaderNamesSlot
  FrameReady
  HandlesFollowSession
