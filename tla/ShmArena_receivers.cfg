SPECIFICATION Spec
CONSTANTS
  b1 = b1
  b2 = b2
  b3 = b3
  m1 = m1
  m2 = m2
  m3 = m3
  NULL = NULL
  NoThread = NoThread
  Senders = {s1}
  Receivers = {r1, r2}
  Blocks <- TwoBlocks
  Messages <- TwoMessages
  CountMax = 15
INVARIANT NoAbort
CHECK_DEADLOCK FALSE
