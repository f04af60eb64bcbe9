CONSTANTS
  Readers = {r1}
  Writer = writer
  NoOne = none
  SwapchainLength = 2
  Targets <- AllReaders
  Faults = {}
  MaxFaults = 0
  MaxFrame = 3
  MaxResources = 2
  MaxCopies = 1
SPECIFICATION Spec
CHECK_DEADLOCK FALSE
INVARIANTS
  NoTextureRace
