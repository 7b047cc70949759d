SPECIFICATION Spec
CONSTANTS
  A = A
  B = B
  Processes <- MCProcesses
  PeerOf <- MCPeerOf
  MaxIds <- OneEach
  MaxRequests = 2
  MaxResponses <- OneEach
  MaxMishaps = 0
  MaxRunning = 1
  KeyValues = 8
  Readings = {"zero"}
INVARIANT TypeCarried
CHECK_DEADLOCK FALSE
