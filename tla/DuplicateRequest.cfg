SPECIFICATION Spec
CONSTANTS
  NPackets = 3
  ShortLast = FALSE
  WindowSize = 3
  Capacity = 3
  Faults = {}
  EofGarbage = {0}
  MaxRetries = 2
  MaxSelects = 1
INVARIANTS
  OutputIsPrefix
