SPECIFICATION FairSpec
CONSTANTS
  m1 = m1
  m2 = m2
  m3 = m3
  NoMessage = NoMessage
  Messages <- ThreeMessages
  Size <- Mixed
  Capacity = 3
  MaxBuffered = 2
  MaxWriters = 2
INVARIANTS TypeOK StreamFramed OneEventPerQueue QueueBounded
PROPERTIES Refinement Delivered
CHECK_DEADLOCK FALSE
