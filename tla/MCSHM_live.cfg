CONSTANTS
  Readers = {r1}
  Writer = writer
  NoOne = none
  SwapchainLength = 2
  Targets <- AllReaders
  Faults = {"resize"}
  MaxFaults = 1
  MaxFrame = 2
  MaxResources = 4
  MaxCopies = 1
SPECIFICATION FairSpec
CHECK_DEADLOCK FALSE
PROPERTIES
  CallsReturn
  HideTakesEffect
