SPECIFICATION Spec
CONSTANTS
  Clients = {c1, c2, c3}
  Handles = {h1, h2}
  NoHandle = NoHandle
  Null = Null
  BufferSize = 8
  Coalescing = FALSE
  MaxCommands = 1
  MaxKills = 1
SYMMETRY Symmetry
INVARIANTS
  TypeOK
  OpenSocketsComplete
  NamesUnique
  Registered
  RightAddressee
  OneAnswerPerRequest
CHECK_DEADLOCK FALSE
