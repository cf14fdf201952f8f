SPECIFICATION FairSpec
CONSTANTS
  PacketSize = 3
  MaxRetries = 2
  Chunks = {0, 3, 4, 5, 7}
  MaxBytes = 17
INVARIANTS
  TypeOK
  CopiesInBounds
  DeliveredInOrder
  DeliveredWhole
  DeliveredAll
PROPERTIES
  PlayPacketReturns
