SPECIFICATION Spec
CONSTANTS
  NPackets = 4
  ShortLast = FALSE
  WindowSize = 3
  Capacity = 2
  Faults <- AllFaults
  EofGarbage = {0}
  MaxRetries = 1
  MaxSelects = 1
INVARIANTS
  TypeOK
  OutputIsPrefix
  EofMeansComplete
  WindowsAligned
  NeverOutOfWindow
  UnackedBuffered
  AckedIsWritten
  ReceiverBufferSound
  HandshakeMeansComplete
  IndInv
PROPERTIES
  TransfersInOrder
