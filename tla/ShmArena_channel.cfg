SPECIFICATION FairSpec
CONSTANTS
  b1 = b1
  b2 = b2
  b3 = b3
  m1 = m1
  m2 = m2
  m3 = m3
  NULL = NULL
  NoThread = NoThread
  Senders = {s1, s2}
  Receivers = {r1}
  Blocks <- ThreeBlocks
  Messages <- ThreeMessages
  CountMax = 15
INVARIANTS TypeOK NoAbort ListSpelled CountTracksList BlocksOwnedOnce
PROPERTIES Refinement Delivered
CHECK_DEADLOCK FALSE
