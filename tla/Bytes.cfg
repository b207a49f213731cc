SPECIFICATION Spec
CONSTANTS
  MaxPacketLength = 260
  Lengths = {0, 1, 9, 233, 234, 244, 245}
  Fills = {0, 65}
  MaxReceived = 2
  FirstDamaged = 2
  Frames <- MCFrames
  MaxFrames = 2
INVARIANTS
  TraceTypeOK
  ReceivedAsSent
  MemcpyInBounds
  DefinedOnComplete
  VerdictsAreRight
  BuffersBounded
CHECK_DEADLOCK FALSE
