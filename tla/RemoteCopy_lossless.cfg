SPECIFICATION FairSpec
CONSTANTS
  NPackets = 4
  ShortLast = FALSE
  WindowSize = 3
  Capacity = 4
  Faults <- NoFaults
  EofGarbage = {0}
  MaxRetries = 2
  MaxSelects = 1
PROPERTIES
  Completes
