SPECIFICATION Spec
CONSTANTS
  Clients = {c1, c2, c3}
  Handles = {h1, h2}
  NoHandle = NoHandle
  Null = Null
  BufferSize = 4
  Coalescing = TRUE
  MaxCommands = 1
  MaxKills = 1
SYMMETRY Symmetry
INVARIANTS
  NeverBlocks
CHECK_DEADLOCK FALSE
