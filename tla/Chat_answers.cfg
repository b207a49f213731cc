SPECIFICATION FairSpec
CONSTANTS
  Clients = {c1, c2}
  Handles = {h1, h2}
  NoHandle = NoHandle
  Null = Null
  BufferSize = 8
  Coalescing = FALSE
  MaxCommands = 1
  MaxKills = 1
PROPERTIES
  Answered
  Reclaimed
CHECK_DEADLOCK FALSE
