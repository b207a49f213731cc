SPECIFICATION Spec
CONSTANTS
  NPackets = 3
  ShortLast = TRUE
  WindowSize = 2
  Capacity = 4
  Faults <- DropsOnly
  EofGarbage = {0}
  MaxRetries = 2
  MaxSelects = 1
INVARIANTS
  OutputMatchesSource
