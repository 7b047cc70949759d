SPECIFICATION Spec
CONSTANTS
  TotalSize = 87
  MaxMessageSize = 18
  AllocHeader = 5
  BlockHeader = 3
  BlockFooter = 2
  MinPayload = 8
  SentSizes = {3, 18}
  MaxCancelled = 1
INVARIANTS TypeOK Tiled FreeListExact BlocksUsable AllocatesWhenEmpty
PROPERTIES OwnersUndisturbed
CHECK_DEADLOCK FALSE
