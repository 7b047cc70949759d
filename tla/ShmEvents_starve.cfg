SPECIFICATION FairSpec
CONSTANTS
  NoTransport = NoTransport
  Transports = {A, B}
  MaxArrivals = 1
  MaxSends = 1
PROPERTY Drained
CHECK_DEADLOCK FALSE
