SPECIFICATION FairSpec
CONSTANTS
  A = A
  B = B
  Processes <- MCProcesses
  PeerOf <- MCPeerOf
  MaxIds <- TwoAndOne
  MaxRequests = 2
  MaxResponses <- OneAndTwo
  MaxMishaps = 1
  MaxRunning = 2
  KeyValues = 8
  Readings = {"zero", "value"}
INVARIANTS TypeOK AnswersDelivered RegistryExact EntryOutlivesCallback
PROPERTY Handled
CHECK_DEADLOCK FALSE
