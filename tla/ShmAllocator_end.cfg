SPECIFICATION Spec
CONSTANTS
  TotalSize = 55
  MaxMessageSize = 18
  AllocHeader = 5
  BlockHeader = 3
  BlockFooter = 2
  MinPayload = 8
  SentSizes = {18}
  MaxCancelled = 0
INVARIANT NoAbort
CHECK_DEADLOCK FALSE
