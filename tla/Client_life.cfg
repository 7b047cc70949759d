SPECIFICATION Spec
CONSTANTS
  A = A
  B = B
  Processes <- MCProcesses
  PeerOf <- MCPeerOf
  Sender = A
  Scenarios <- MCScenarios
  Keys = {id, type}
  NoKey = NoKey
  ScalarTypes = {"int32"}
  MaxDepth = 4
  MaxLookups = 3
  BufferSizes = {1, 2, 5, 6, 8, 9, 16}
  PageSize = 8
  ArenaHeader = 3
  AllocatorHeader = 2
  MaxMessageSize = 2
  MessageHeader = 1
  LeastArena = 5
INVARIANTS TypeOK EndsInParent ReadInOrder DestroyReleases SentMessagesSurvive FailedInitLeaves
CHECK_DEADLOCK FALSE
