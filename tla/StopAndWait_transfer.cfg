SPECIFICATION FairSpec
CONSTANTS
  NPackets = 3
  ShortLast = FALSE
  Capacity = 2
  Faults = {"drop", "flip", "io"}
  MaxSends = 3
  MaxSelects = 1
INVARIANTS
  TypeOK
  AckAnswersLast
PROPERTIES
  TransfersInOrder
  BothEnd
